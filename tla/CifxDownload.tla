---------------------------- MODULE CifxDownload ----------------------------
(***************************************************************************)
(* File transfer of the driver (cifXDownload.c) on top of request and      *)
(* answer packets (DEV_TransferPacket): DEV_DownloadFile, DEV_UploadFile,  *)
(* DEV_CheckForDownload, DEV_RemoveChannelFiles, DEV_ProcessFWDownload and *)
(* the API functions that call them, against a device that answers late,   *)
(* refuses requests and sends packets nobody asked for.                    *)
(*                                                                         *)
(* One application thread; the mailbox is the one of the system device.    *)
(* A file's contents is a sequence of units.  A checksum (CRC32, MD5) is   *)
(* the sequence it is computed from: collisions are left out.  Time is     *)
(* counted only as far as packets show it: OS_GetMilliSecCounter goes into *)
(* ulSrc, so now advances when a wait times out and never otherwise.  The  *)
(* progress and packet callbacks only inform the application and are left  *)
(* out, and so are the transfer type and the length of the time-outs.      *)
(***************************************************************************)
EXTENDS Naturals, Sequences

CONSTANTS
  Dir,           \* names of files in the order the device lists them
  Kind,          \* Kind[n]: "NXF", "NXO", "short" (under 5 characters), "other"
  Unit,          \* what a file's contents is a sequence of
  Damaged,       \* a unit that transmission has damaged
  MaxCh,         \* CIFX_MAX_NUMBER_OF_CHANNELS
  Stored,        \* the file systems a device may start with
  Job,           \* the calls an application makes
  HostBlock,     \* user data the send mailbox holds
  DevBlock,      \* block sizes the device may ask for, 0 among them
  MaxAnswers,    \* packets DEV_TransferPacket looks at, 10 in the code
  FloodTick,     \* 1: looking at MaxAnswers packets takes a millisecond, or 0
  MaxCalls,      \* bound: API calls
  MaxFaults,     \* bound: time-outs, refusals and corrupted blocks
  MaxForeign     \* bound: packets nobody asked for

Channel == 0 .. MaxCh - 1
Name == {Dir[i] : i \in DOMAIN Dir}
NoName == ""
PhysAddr == 0     \* ulPhysicalAddress; now starts at 1
Op == {"FILE", "FIRMWARE", "MODULE", "STARTUP", "UPLOAD", "UPLOAD_FW", "FIND"}

ASSUME DownloadAssumption ==
  /\ Dir \in Seq(STRING) /\ NoName \notin Name
  /\ \A i, j \in DOMAIN Dir : Dir[i] = Dir[j] => i = j
  /\ Damaged \in Unit
  /\ Kind \in [Name -> {"NXF", "NXO", "short", "other"}]
  /\ MaxCh \in Nat \ {0} /\ HostBlock \in Nat \ {0} /\ DevBlock \subseteq Nat
  /\ MaxAnswers \in Nat \ {0} /\ FloodTick \in {0, 1}
  /\ \A f \in Stored : /\ DOMAIN f = Channel
                       /\ \A c \in Channel :
                            /\ DOMAIN f[c] \subseteq Name
                            /\ \A n \in DOMAIN f[c] : f[c][n] \in Seq(Unit)
  /\ Job \subseteq [op : Op, ch : Channel, name : Name, data : Seq(Unit),
                   buf : Nat]
  /\ MaxCalls \in Nat /\ MaxFaults \in Nat /\ MaxForeign \in Nat

VARIABLES
  pc,         \* what the thread waits for, "idle" outside of a call
  job,        \* parameters of the call
  loc,        \* locals of DEV_DownloadFile and DEV_UploadFile
  rm,         \* locals of DEV_RemoveChannelFiles and its caller's loop
  bLoadState, \* *pbLoadState of DEV_ProcessFWDownload
  tp,         \* locals of DEV_TransferPacket
  res,        \* what the last call returned
  now,        \* OS_GetMilliSecCounter
  eDeviceType,\* "RAM" or "FLASH"
  fModuleLoad,\* the device runs a base firmware that loads modules
  inbox,      \* the send mailbox
  outbox,     \* answers and packets of the device, in order
  fs,         \* fs[c]: the files of channel c by name
  xfer,       \* the transfer the device has open
  running,    \* channels whose firmware is READY
  calls, faults, foreign,
  lateDir,    \* history: a directory request ended without its answer
  spoiled,    \* history: listing or deleting failed in this call
  lost        \* history: calls that failed

hostVars  == <<pc, job, loc, rm, bLoadState, res>>
devVars   == <<inbox, outbox, fs, xfer, running>>
boundVars == <<calls, faults, foreign>>
histVars  == <<lateDir, spoiled, lost>>
typeVars  == <<eDeviceType, fModuleLoad>>
vars == <<hostVars, tp, now, typeVars, devVars, boundVars, histVars>>

Least(a, b) == IF a <= b THEN a ELSE b

(* CIFX_PACKET, zeroed; requests and answers fill in what they need. *)
Packet(cmd, src, id) ==
  [cmd |-> cmd, src |-> src, id |-> id, sta |-> "OK", ext |-> "NONE",
   ch |-> 0, name |-> NoName, len |-> 0, max |-> 0, blk |-> 0,
   data |-> <<>>, crc |-> <<>>]

NoXfer == [dir |-> "none", ch |-> 0, name |-> NoName, len |-> 0, blk |-> 0,
           max |-> 0, data |-> <<>>]
Idle == [st |-> "idle", req |-> Packet("none", 0, 0), cnt |-> 0,
         lRet |-> "OK", ans |-> Packet("none", 0, 0)]
NoJob == [op |-> "none", ch |-> 0, name |-> NoName, data |-> <<>>, buf |-> 0]
NoLoc == [src |-> 0, id |-> 0, max |-> 0, send |-> 0, done |-> 0,
          seq |-> "NONE", blk |-> 0, lRet |-> "OK", data |-> <<>>, len |-> 0]
NoRm == [ch |-> 0, last |-> 0, except |-> "none", first |-> TRUE,
         name |-> NoName]
NoRes == [op |-> "none", ch |-> 0, name |-> NoName, lRet |-> "OK",
          abort |-> "none", data |-> <<>>, len |-> 0, load |-> "none"]

Init ==
  /\ pc = "idle" /\ job = NoJob /\ loc = NoLoc /\ rm = NoRm
  /\ bLoadState = "none" /\ tp = Idle /\ res = NoRes /\ now = 1
  /\ eDeviceType \in {"RAM", "FLASH"} /\ fModuleLoad \in BOOLEAN
  /\ inbox = <<>> /\ outbox = <<>> /\ fs \in Stored /\ xfer = NoXfer
  /\ running = {}
  /\ calls = 0 /\ faults = 0 /\ foreign = 0
  /\ lateDir = FALSE /\ spoiled = FALSE /\ lost = {}
-----------------------------------------------------------------------------
(* DEV_TransferPacket.  A step of the thread that sends a request leaves    *)
(* tp as Send(request); the thread goes on when tp.st is "done".            *)

Send(r) == [Idle EXCEPT !.st = "put", !.req = r]
Done(l, p) == [tp EXCEPT !.st = "done", !.lRet = l, !.ans = p]
IsDir(p) == p.cmd = "DIR_LIST"

PutPacket ==
  /\ tp.st = "put" /\ inbox = <<>>
  /\ inbox' = <<tp.req>> /\ tp' = [tp EXCEPT !.st = "get"]
  /\ UNCHANGED <<hostVars, now, typeVars, outbox, fs, xfer, running,
                 boundVars, histVars>>

(* The mailbox stays full for the whole time-out, or the device is not      *)
(* READY.                                                                   *)
PutFails ==
  /\ tp.st = "put" /\ faults < MaxFaults
  /\ \E e \in {"PUT_TIMEOUT", "NOT_READY"} :
       /\ e = "PUT_TIMEOUT" => inbox # <<>>
       /\ tp' = Done(e, tp.ans)
       /\ now' = IF e = "PUT_TIMEOUT" THEN now + 1 ELSE now
  /\ faults' = faults + 1
  /\ UNCHANGED <<hostVars, typeVars, devVars, calls, foreign, histVars>>

(* The test of command, ulSrc, ulId and ulSrcId (always 0). *)
IsAnswer(p) == /\ p.cmd = tp.req.cmd /\ p.src = tp.req.src
               /\ p.id = tp.req.id

(* Mutant: one packet too many. *)
LookOnTooLong == tp.cnt < MaxAnswers
LookOn == tp.cnt + 1 < MaxAnswers

GetPacket ==
  /\ tp.st = "get" /\ outbox # <<>>
  /\ outbox' = Tail(outbox)
  /\ LET p == Head(outbox) IN
       IF IsAnswer(p)
       THEN tp' = Done("OK", p) /\ UNCHANGED <<now, lateDir>>
       ELSE IF LookOn
       THEN tp' = [tp EXCEPT !.cnt = @ + 1] /\ UNCHANGED <<now, lateDir>>
       ELSE /\ tp' = Done("GET_TIMEOUT", p) /\ now' = now + FloodTick
            /\ lateDir' = (lateDir \/ IsDir(tp.req))
  /\ UNCHANGED <<hostVars, typeVars, inbox, fs, xfer, running, boundVars,
                 spoiled, lost>>

GetTimeout ==
  /\ tp.st = "get" /\ outbox = <<>> /\ faults < MaxFaults
  /\ tp' = Done("GET_TIMEOUT", tp.ans)
  /\ now' = now + 1 /\ faults' = faults + 1
  /\ lateDir' = (lateDir \/ IsDir(tp.req))
  /\ UNCHANGED <<hostVars, typeVars, devVars, calls, foreign, spoiled,
                 lost>>

(* What the callers make of a finished transfer: its error, else ulState. *)
Status == IF tp.lRet # "OK" THEN tp.lRet ELSE tp.ans.sta
-----------------------------------------------------------------------------
(* The end of a call.  For a firmware update the file counts as transferred *)
(* when a load state says so: DEV_ProcessFWDownload also returns            *)
(* CIFX_NO_ERROR for files it does not load at all.                         *)

Writes(j) == j.op \in {"FILE", "FIRMWARE", "MODULE", "STARTUP"}
AsRequest(j) == [ch |-> j.ch, name |-> j.name, data |-> j.data, op |-> j.op,
                 kind |-> IF Writes(j) THEN "write" ELSE "read"]
Succeeds(l, load) ==
  /\ l \in {"OK", "ALREADY_EXISTS"}
  /\ job.op \in {"MODULE", "STARTUP"} => load # "none"

Return(l, abort, data, len, load) ==
  /\ pc' = "idle" /\ tp' = Idle
  /\ res' = [op |-> job.op, ch |-> job.ch, name |-> job.name, lRet |-> l,
             abort |-> abort, data |-> data, len |-> len, load |-> load]
  /\ lost' = IF Succeeds(l, load) THEN lost ELSE lost \cup {AsRequest(job)}
  /\ bLoadState' = load
  /\ UNCHANGED <<job, loc, rm>>

(* An API function is called. *)
Call ==
  /\ pc = "idle" /\ calls < MaxCalls
  /\ job' \in Job
  /\ pc' = "start" /\ calls' = calls + 1
  /\ res' = NoRes /\ spoiled' = FALSE
  /\ bLoadState' = "none" /\ loc' = NoLoc /\ rm' = NoRm
  /\ UNCHANGED <<tp, now, typeVars, devVars, faults, foreign, lateDir, lost>>

(* A step of the thread inside a call: only the mailbox and the device are  *)
(* not its business.                                                        *)
HostOnly == UNCHANGED <<now, typeVars, devVars, boundVars, lateDir>>
GoOn(label) == pc' = label /\ UNCHANGED <<job, res, lost>>
Finish(l, load) == Return(l, "none", <<>>, 0, load)
Fail(l) == Finish(l, bLoadState)
-----------------------------------------------------------------------------
(* DEV_DownloadFile *)

BeginDownload ==
  IF job.data = <<>>
  THEN Fail("INVALID_PARAMETER")
  ELSE /\ GoOn("dlReq")
       /\ loc' = [NoLoc EXCEPT !.src = now, !.id = 1, !.max = HostBlock]
       /\ tp' = Send([Packet("DOWNLOAD_REQ", now, 1) EXCEPT
                        !.ch = job.ch, !.name = job.name,
                        !.len = Len(job.data), !.max = HostBlock])

(* The next block goes out with the checksum over everything sent so far. *)
SendBlock(l) ==
  /\ GoOn("dlData")
  /\ loc' = [l EXCEPT !.id = @ + 1, !.blk = @ + 1]
  /\ tp' = Send([Packet("DOWNLOAD_DATA", l.src, l.id + 1) EXCEPT
                   !.ext = l.seq, !.blk = l.blk,
                   !.data = SubSeq(job.data, l.done + 1, l.done + l.send),
                   !.crc = SubSeq(job.data, 1, l.done + l.send)])

AbortDownload(l) ==
  /\ GoOn("dlAbort")
  /\ loc' = [loc EXCEPT !.id = @ + 1, !.lRet = l]
  /\ tp' = Send(Packet("DOWNLOAD_ABORT", loc.src, loc.id + 1))

DownloadReqAnswer ==
  /\ pc = "dlReq" /\ tp.st = "done"
  /\ IF Status # "OK"
     THEN AbortDownload(Status)
     ELSE IF tp.ans.max = 0
     THEN AbortDownload("INVALID_ACCESS_SIZE")
     ELSE LET max == Least(loc.max, tp.ans.max)
              one == Len(job.data) <= max
          IN SendBlock([loc EXCEPT !.max = max,
                          !.send = IF one THEN Len(job.data) ELSE max,
                          !.seq = IF one THEN "NONE" ELSE "FIRST"])
  /\ HostOnly /\ UNCHANGED <<rm, bLoadState, spoiled>>

(* The load state DEV_ProcessFWDownload returns; "+" stands for             *)
(* CIFXTKIT_DOWNLOAD_EXECUTED.                                              *)
Executed(load) ==
  CASE load = "FIRMWARE" -> "FIRMWARE+"
    [] load = "MODULE"   -> "MODULE+"
    [] OTHER             -> load
KindLoaded == CASE Kind[job.name] = "NXF" -> "FIRMWARE"
                [] Kind[job.name] = "NXO" -> "MODULE"
                [] OTHER                  -> "none"
LoadAfter == IF job.op \notin {"MODULE", "STARTUP"} THEN "none"
             ELSE IF eDeviceType = "RAM" THEN Executed(KindLoaded)
             ELSE Executed(bLoadState)

(* cifXStartModule *)
RunModule(load) ==
  /\ GoOn("run") /\ bLoadState' = load /\ UNCHANGED <<loc, rm>>
  /\ tp' = Send([Packet("RUN_MODULE", PhysAddr, 0) EXCEPT
                   !.ch = job.ch, !.name = job.name])

DownloadDataAnswer ==
  /\ pc = "dlData" /\ tp.st = "done"
  /\ HostOnly /\ UNCHANGED spoiled
  /\ IF Status # "OK"
     THEN AbortDownload(Status) /\ UNCHANGED <<rm, bLoadState>>
     ELSE LET done == loc.done + loc.send
              last == Len(job.data) <= loc.send + done
          IN IF loc.seq \notin {"LAST", "NONE"}
             THEN /\ SendBlock([loc EXCEPT !.done = done,
                         !.send = IF last THEN Len(job.data) - done ELSE @,
                         !.seq = IF last THEN "LAST" ELSE "MIDDLE"])
                  /\ UNCHANGED <<rm, bLoadState>>
             ELSE IF job.op = "MODULE"
             THEN RunModule(LoadAfter)
             ELSE Return("OK", "none", <<>>, 0, LoadAfter)

DownloadAbortAnswer ==
  /\ pc = "dlAbort" /\ tp.st = "done"
  /\ Return(loc.lRet, Status, <<>>, 0, bLoadState)
  /\ HostOnly /\ UNCHANGED spoiled
-----------------------------------------------------------------------------
(* DEV_UploadFile.  loc.data is the caller's buffer, loc.len                *)
(* *pulDataBufferLen, loc.send the file length still outstanding.           *)

BeginUpload ==
  /\ GoOn("ulReq")
  /\ loc' = [NoLoc EXCEPT !.src = now, !.id = 1, !.max = HostBlock,
                          !.len = job.buf]
  /\ tp' = Send([Packet("UPLOAD_REQ", now, 1) EXCEPT
                   !.ch = job.ch, !.name = job.name, !.max = HostBlock])

AskBlock(l) ==
  /\ GoOn("ulData")
  /\ loc' = [l EXCEPT !.id = @ + 1]
  /\ tp' = Send([Packet("UPLOAD_DATA", l.src, l.id + 1) EXCEPT !.ext = l.seq])

(* Mutant: the abort is sent with the command of a download. *)
AbortUploadAsDownload(l, len) ==
  /\ GoOn("ulAbort")
  /\ loc' = [loc EXCEPT !.id = @ + 1, !.lRet = l, !.len = len]
  /\ tp' = Send(Packet("DOWNLOAD_ABORT", loc.src, loc.id + 1))

AbortUpload(l, len) ==
  /\ GoOn("ulAbort")
  /\ loc' = [loc EXCEPT !.id = @ + 1, !.lRet = l, !.len = len]
  /\ tp' = Send(Packet("UPLOAD_ABORT", loc.src, loc.id + 1))

UploadReqAnswer ==
  /\ pc = "ulReq" /\ tp.st = "done"
  /\ IF Status # "OK" \/ tp.ans.len = 0
     THEN AbortUpload(Status, 0)
     ELSE IF tp.ans.len > job.buf
     THEN AbortUpload("INVALID_BUFFERSIZE", job.buf)
     ELSE LET max == Least(loc.max, tp.ans.max) IN
          AskBlock([loc EXCEPT !.max = max, !.send = tp.ans.len, !.len = 0,
                      !.seq = IF tp.ans.len <= max THEN "NONE" ELSE "FIRST"])
  /\ HostOnly /\ UNCHANGED <<rm, bLoadState, spoiled>>

(* Mutant: the checksum of a block is not compared. *)
ChecksumAnyOk(data) == TRUE
ChecksumOk(data) == tp.ans.crc = data

UploadDataAnswer ==
  /\ pc = "ulData" /\ tp.st = "done"
  /\ HostOnly /\ UNCHANGED spoiled
  /\ LET data == loc.data \o tp.ans.data
         rest == loc.send - Len(tp.ans.data)
     IN IF Status # "OK"
        THEN AbortUpload(Status, loc.len) /\ UNCHANGED <<rm, bLoadState>>
        ELSE IF ~ChecksumOk(data)
        THEN /\ AbortUpload("FILE_CHECKSUM_ERROR", loc.len)
             /\ UNCHANGED <<rm, bLoadState>>
        ELSE IF rest # 0
        THEN /\ AskBlock([loc EXCEPT !.send = rest, !.data = data,
                    !.len = Len(data),
                    !.seq = IF rest <= loc.max THEN "LAST" ELSE "MIDDLE"])
             /\ UNCHANGED <<rm, bLoadState>>
        ELSE Return("OK", "none", data, Len(data), "none")

UploadAbortAnswer ==
  /\ pc = "ulAbort" /\ tp.st = "done"
  /\ Return(IF loc.lRet # "OK" THEN loc.lRet ELSE Status, Status, loc.data,
            loc.len, "none")
  /\ HostOnly /\ UNCHANGED spoiled
-----------------------------------------------------------------------------
(* DEV_RemoveChannelFiles: xSysdeviceFindFirstFile and FindNextFile send a  *)
(* request whose ulSrc and ulId are always the same.                        *)

Find(r) == /\ GoOn("find") /\ rm' = r
           /\ tp' = Send([Packet("DIR_LIST", PhysAddr, 0) EXCEPT
                            !.ch = r.ch,
                            !.name = IF r.first THEN NoName ELSE r.name])

(* Mutant: only the files of the first channel are removed. *)
BeginRemovalOne(first, last, except) ==
  Find([NoRm EXCEPT !.ch = first, !.last = first, !.except = except])

BeginRemoval(first, last, except) ==
  Find([NoRm EXCEPT !.ch = first, !.last = last, !.except = except])

(* Mutant: the base firmware is deleted with the other files. *)
ExemptNone(n) == FALSE
Exempt(n) == rm.except # "none" /\ Kind[n] = rm.except

SkipFile(n) == [rm EXCEPT !.first = FALSE, !.name = n]

FindAnswer ==
  /\ pc = "find" /\ tp.st = "done" /\ HostOnly
  /\ LET over == Status # "OK" \/ tp.ans.ext = "LAST"
         n == tp.ans.name
     IN /\ spoiled' = (spoiled \/ Status # "OK")
        /\ IF job.op = "FIND"
           THEN Finish(IF Status = "OK" /\ over THEN "NO_MORE_ENTRIES" ELSE Status,
                       "none")
           ELSE IF over /\ rm.ch = rm.last
           THEN BeginDownload /\ UNCHANGED <<rm, bLoadState>>
           ELSE /\ UNCHANGED <<loc, bLoadState>>
                /\ IF over
                   THEN Find([rm EXCEPT !.ch = @ + 1, !.first = TRUE])
                   ELSE IF Kind[n] = "short"
                   THEN Find(SkipFile(n))
                   ELSE IF Exempt(n)
                   THEN Find([rm EXCEPT !.name = n])
                   ELSE /\ GoOn("delete") /\ rm' = [rm EXCEPT !.name = n]
                        /\ tp' = Send([Packet("FILE_DELETE", now, 0) EXCEPT
                                         !.ch = rm.ch, !.name = n])

(* The result of DEV_DeleteFile is ignored; the search starts again. *)
DeleteAnswer ==
  /\ pc = "delete" /\ tp.st = "done"
  /\ Find([rm EXCEPT !.first = TRUE])
  /\ spoiled' = (spoiled \/ Status # "OK")
  /\ HostOnly /\ UNCHANGED <<loc, bLoadState>>
-----------------------------------------------------------------------------
(* DEV_ProcessFWDownload *)

ProcessFWDownload ==
  IF eDeviceType = "RAM"
  THEN IF \/ Kind[job.name] = "NXF" /\ job.ch # 0
          \/ Kind[job.name] = "NXO" /\ ~fModuleLoad
       THEN Finish("OK", "none")
       ELSE BeginDownload /\ UNCHANGED <<rm, bLoadState>>
  ELSE /\ GoOn("md5")
       /\ tp' = Send([Packet("GET_MD5", now, 0) EXCEPT
                        !.ch = job.ch, !.name = job.name])
       /\ UNCHANGED <<loc, rm, bLoadState>>

Md5Answer ==
  /\ pc = "md5" /\ tp.st = "done" /\ HostOnly /\ UNCHANGED spoiled
  /\ LET kind == Kind[job.name]
         same == tp.ans.sta = "OK" /\ tp.ans.data = job.data
     IN IF tp.lRet # "OK" THEN Finish(tp.lRet, "none")
        ELSE IF kind = "NXO" /\ ~fModuleLoad THEN Finish("FILE_TYPE_INVALID", "none")
        ELSE IF same
        THEN IF kind \notin {"NXO", "NXF"}
             THEN Finish("FILE_TYPE_INVALID", "none")
             ELSE IF job.op = "MODULE"
             THEN RunModule(KindLoaded)
             ELSE Finish("OK", KindLoaded)
        ELSE IF kind = "NXF" /\ job.ch # 0 THEN Finish("INVALID_PARAMETER", "none")
        ELSE IF kind \notin {"NXO", "NXF"} THEN Finish("OK", "none")
        ELSE /\ IF kind = "NXF" THEN BeginRemoval(0, MaxCh - 1, "none")
                                ELSE BeginRemoval(job.ch, job.ch, "NXF")
             /\ bLoadState' = KindLoaded /\ UNCHANGED loc

(* DOWNLOAD_MODE_MODULE of xSysdeviceDownload, after the download:          *)
(* cifXStartModule and cifXReadFirmwareIdent, whose packet goes through the *)
(* mailbox of the channel.                                                  *)
RunAnswer ==
  /\ pc = "run" /\ tp.st = "done" /\ HostOnly /\ UNCHANGED spoiled
  /\ IF Status # "OK" THEN Finish(Status, bLoadState)
     ELSE \/ /\ job.ch \in running /\ GoOn("ident") /\ tp' = Idle
             /\ UNCHANGED <<loc, rm, bLoadState>>
          \/ job.ch \notin running /\ Finish("NOT_READY", bLoadState)

IdentAnswer ==
  /\ pc = "ident"
  /\ \E l \in {"OK", "GET_TIMEOUT"} :
       /\ l # "OK" => faults < MaxFaults
       /\ faults' = IF l = "OK" THEN faults ELSE faults + 1
       /\ Finish(IF l = "OK" /\ bLoadState \notin {"MODULE+", "FIRMWARE+"}
                 THEN "ALREADY_EXISTS" ELSE l, bLoadState)
  /\ UNCHANGED <<now, typeVars, devVars, calls, foreign, lateDir, spoiled>>
-----------------------------------------------------------------------------
(* Parameter checks of the API functions. *)

FileTypeError == CASE Kind[job.name] = "short" -> "FILE_NAME_INVALID"
                   [] Kind[job.name] = "other" -> "FILE_TYPE_INVALID"
                   [] OTHER                    -> "OK"
ModuleError == IF Kind[job.name] # "NXO" THEN "FILE_NAME_INVALID"
               ELSE IF ~fModuleLoad THEN "NO_BASEOS"
               ELSE IF job.ch \in running THEN "ALREADY_RUNNING"
               ELSE "OK"

Start ==
  /\ pc = "start" /\ HostOnly /\ UNCHANGED spoiled
  /\ \/ /\ job.op \in {"FIRMWARE", "UPLOAD_FW"} /\ FileTypeError # "OK"
        /\ Fail(FileTypeError)
     \/ /\ \/ job.op = "FILE"
           \/ job.op = "FIRMWARE" /\ FileTypeError = "OK"
        /\ BeginDownload /\ UNCHANGED <<rm, bLoadState>>
     \/ /\ \/ job.op = "UPLOAD"
           \/ job.op = "UPLOAD_FW" /\ FileTypeError = "OK"
        /\ BeginUpload /\ UNCHANGED <<rm, bLoadState>>
     \/ job.op = "MODULE" /\ ModuleError # "OK" /\ Fail(ModuleError)
     \/ /\ \/ job.op = "STARTUP"
           \/ job.op = "MODULE" /\ ModuleError = "OK"
        /\ ProcessFWDownload
     \/ /\ job.op = "FIND" /\ BeginRemoval(job.ch, job.ch, "none")
        /\ UNCHANGED <<loc, bLoadState>>
-----------------------------------------------------------------------------
(* The device (external): what the driver relies on.  It carries requests   *)
(* out in the order they arrive and knows one open transfer.                *)

Answer(r) == Packet(r.cmd, r.src, r.id)
Refusal(r) == [Answer(r) EXCEPT !.sta = "REFUSED"]
Has(c, n) == n \in DOMAIN fs[c]
Place(c, n, d) == [fs EXCEPT ![c] = [m \in DOMAIN @ \cup {n} |->
                                       IF m = n THEN d ELSE @[m]]]
Erase(c, n) == [fs EXCEPT ![c] = [m \in DOMAIN @ \ {n} |-> @[m]]]
Index(n) == IF n = NoName THEN 0 ELSE CHOOSE i \in DOMAIN Dir : Dir[i] = n
Listed(c, after) == {i \in DOMAIN Dir : i > Index(after) /\ Has(c, Dir[i])}
FirstOf(S) == CHOOSE i \in S : \A j \in S : i <= j

ServeDownload(r) ==
  \/ /\ r.cmd = "DOWNLOAD_REQ" /\ xfer = NoXfer
     /\ \E m \in DevBlock :
          /\ outbox' = Append(outbox, [Answer(r) EXCEPT !.max = m])
          /\ xfer' = [NoXfer EXCEPT !.dir = "down", !.ch = r.ch,
                         !.name = r.name, !.len = r.len, !.max = m]
     /\ UNCHANGED fs
  \/ /\ r.cmd = "DOWNLOAD_DATA" /\ xfer.dir = "down"
     /\ LET data == xfer.data \o r.data
            fits == /\ r.blk = xfer.blk /\ r.crc = data
                    /\ Len(r.data) <= xfer.max
            last == r.ext \in {"NONE", "LAST"}
        IN IF fits /\ (last => Len(data) = xfer.len)
           THEN /\ outbox' = Append(outbox, Answer(r))
                /\ fs' = IF last THEN Place(xfer.ch, xfer.name, data) ELSE fs
                /\ xfer' = IF last THEN NoXfer
                           ELSE [xfer EXCEPT !.blk = @ + 1, !.data = data]
           ELSE outbox' = Append(outbox, Refusal(r)) /\ UNCHANGED <<fs, xfer>>
  \/ /\ r.cmd = "DOWNLOAD_ABORT" /\ outbox' = Append(outbox, Answer(r))
     /\ xfer' = IF xfer.dir = "down" THEN NoXfer ELSE xfer
     /\ UNCHANGED fs

ServeUpload(r) ==
  \/ /\ r.cmd = "UPLOAD_REQ" /\ xfer = NoXfer /\ Has(r.ch, r.name)
     /\ \E m \in DevBlock \ {0} :
          LET block == Least(m, r.max) IN
          /\ outbox' = Append(outbox, [Answer(r) EXCEPT !.max = m,
                                 !.len = Len(fs[r.ch][r.name])])
          /\ xfer' = [NoXfer EXCEPT !.dir = "up", !.ch = r.ch, !.name = r.name,
                         !.data = fs[r.ch][r.name], !.max = block]
  \/ /\ r.cmd = "UPLOAD_DATA" /\ xfer.dir = "up"
     /\ LET all == xfer.len + Least(xfer.max, Len(xfer.data) - xfer.len)
        IN /\ outbox' = Append(outbox, [Answer(r) EXCEPT
                           !.data = SubSeq(xfer.data, xfer.len + 1, all),
                           !.crc = SubSeq(xfer.data, 1, all)])
           /\ xfer' = IF r.ext \in {"NONE", "LAST"} THEN NoXfer
                      ELSE [xfer EXCEPT !.len = all]
  \/ /\ r.cmd = "UPLOAD_ABORT" /\ outbox' = Append(outbox, Answer(r))
     /\ xfer' = IF xfer.dir = "up" THEN NoXfer ELSE xfer

ServeFile(r) ==
  \/ /\ r.cmd = "DIR_LIST" /\ UNCHANGED fs
     /\ LET S == Listed(r.ch, r.name) IN
        outbox' = Append(outbox, IF S = {} THEN [Answer(r) EXCEPT !.ext = "LAST"]
                       ELSE [Answer(r) EXCEPT !.name = Dir[FirstOf(S)]])
  \/ /\ r.cmd = "FILE_DELETE" /\ Has(r.ch, r.name)
     /\ fs' = Erase(r.ch, r.name) /\ outbox' = Append(outbox, Answer(r))
  \/ /\ r.cmd = "GET_MD5" /\ Has(r.ch, r.name) /\ UNCHANGED fs
     /\ outbox' = Append(outbox, [Answer(r) EXCEPT !.data = fs[r.ch][r.name]])

(* Requests the device cannot carry out in its present state. *)
Impossible(r) ==
  \/ r.cmd \in {"DOWNLOAD_REQ", "UPLOAD_REQ"} /\ xfer # NoXfer
  \/ r.cmd = "DOWNLOAD_DATA" /\ xfer.dir # "down"
  \/ r.cmd = "UPLOAD_DATA" /\ xfer.dir # "up"
  \/ /\ r.cmd \in {"UPLOAD_REQ", "FILE_DELETE", "GET_MD5", "RUN_MODULE"}
     /\ ~Has(r.ch, r.name)

(* It may refuse to delete a file, a write-protected one say, as often as   *)
(* it is asked to; any other refusal counts as a fault.                     *)
DeviceServe ==
  /\ inbox # <<>> /\ inbox' = <<>>
  /\ LET r == Head(inbox) IN
     \/ ServeDownload(r) /\ UNCHANGED <<running, faults>>
     \/ ServeUpload(r) /\ UNCHANGED <<fs, running, faults>>
     \/ ServeFile(r) /\ UNCHANGED <<xfer, running, faults>>
     \/ /\ r.cmd = "RUN_MODULE" /\ Has(r.ch, r.name)
        /\ running' \in {running, running \cup {r.ch}}
        /\ outbox' = Append(outbox, Answer(r)) /\ UNCHANGED <<fs, xfer, faults>>
     \/ /\ Impossible(r) /\ outbox' = Append(outbox, Refusal(r))
        /\ UNCHANGED <<fs, xfer, running, faults>>
     \/ /\ ~Impossible(r) /\ r.cmd # "FILE_DELETE"
        /\ faults < MaxFaults /\ faults' = faults + 1
        /\ outbox' = Append(outbox, Refusal(r))
        /\ UNCHANGED <<fs, xfer, running>>
     \/ /\ ~Impossible(r) /\ r.cmd = "FILE_DELETE"
        /\ outbox' = Append(outbox, Refusal(r))
        /\ UNCHANGED <<fs, xfer, running, faults>>
  /\ UNCHANGED <<hostVars, tp, now, typeVars, calls, foreign, histVars>>

(* A block is damaged on its way to the host. *)
Damage ==
  /\ faults < MaxFaults /\ outbox # <<>>
  /\ LET p == outbox[Len(outbox)] IN
     /\ p.cmd = "UPLOAD_DATA" /\ p.data # <<>>
     /\ outbox' = [outbox EXCEPT ![Len(outbox)].data[1] = Damaged]
  /\ faults' = faults + 1
  /\ UNCHANGED <<hostVars, tp, now, typeVars, inbox, fs, xfer, running,
                 calls, foreign, histVars>>

(* A packet nobody asked for.  One that came before the thread reads again  *)
(* would wait in the mailbox until then.                                    *)
DevicePost ==
  /\ tp.st = "get" /\ foreign < MaxForeign /\ foreign' = foreign + 1
  /\ outbox' = Append(outbox, Packet("INDICATION", 0, 0))
  /\ UNCHANGED <<hostVars, tp, now, typeVars, inbox, fs, xfer, running,
                 calls, faults, histVars>>
-----------------------------------------------------------------------------
Host == \/ Start \/ PutPacket \/ PutFails \/ GetPacket \/ GetTimeout
        \/ DownloadReqAnswer \/ DownloadDataAnswer \/ DownloadAbortAnswer
        \/ UploadReqAnswer \/ UploadDataAnswer \/ UploadAbortAnswer
        \/ FindAnswer \/ DeleteAnswer \/ Md5Answer \/ RunAnswer \/ IdentAnswer

Next == Call \/ Host \/ DeviceServe \/ Damage \/ DevicePost

Spec == Init /\ [][Next]_vars

(* The thread runs on, and a request is served in the end: once the bound   *)
(* on faults is used up, this stands for the time-out that ends the wait.   *)
FairSpec == Spec /\ WF_vars(Host) /\ WF_vars(DeviceServe)
-----------------------------------------------------------------------------
Result == {"OK", "PUT_TIMEOUT", "GET_TIMEOUT", "NOT_READY", "REFUSED",
           "INVALID_PARAMETER", "INVALID_ACCESS_SIZE", "INVALID_BUFFERSIZE",
           "FILE_CHECKSUM_ERROR", "FILE_NAME_INVALID", "FILE_TYPE_INVALID",
           "NO_BASEOS", "ALREADY_RUNNING", "ALREADY_EXISTS", "NO_MORE_ENTRIES"}
LoadState == {"none", "FIRMWARE", "MODULE", "FIRMWARE+", "MODULE+"}
Ext == {"NONE", "FIRST", "MIDDLE", "LAST"}
Units == Seq(Unit)
Command == {"none", "DOWNLOAD_REQ", "DOWNLOAD_DATA", "DOWNLOAD_ABORT",
            "UPLOAD_REQ", "UPLOAD_DATA", "UPLOAD_ABORT", "DIR_LIST",
            "FILE_DELETE", "GET_MD5", "RUN_MODULE", "INDICATION"}
PacketType ==
  [cmd : Command, src : Nat, id : Nat, sta : {"OK", "REFUSED"}, ext : Ext,
   ch : Channel, name : Name \cup {NoName}, len : Nat, max : Nat, blk : Nat,
   data : Units, crc : Units]

(* Every variable has the type its declaration in the code gives it. *)
TypeOK ==
  /\ pc \in {"idle", "start", "dlReq", "dlData", "dlAbort", "ulReq", "ulData",
             "ulAbort", "md5", "find", "delete", "run", "ident"}
  /\ job \in [op : Op \cup {"none"}, ch : Channel, name : Name \cup {NoName},
              data : Units, buf : Nat]
  /\ loc \in [src : Nat, id : Nat, max : Nat, send : Nat, done : Nat, seq : Ext,
              blk : Nat, lRet : Result, data : Units, len : Nat]
  /\ rm \in [ch : Channel, last : Channel, except : {"none", "NXF"},
             first : BOOLEAN, name : Name \cup {NoName}]
  /\ bLoadState \in LoadState
  /\ tp \in [st : {"idle", "put", "get", "done"}, req : PacketType, cnt : Nat,
             lRet : Result, ans : PacketType]
  /\ tp.cnt < MaxAnswers
  /\ res \in [op : Op \cup {"none"}, ch : Channel, name : Name \cup {NoName},
              lRet : Result, abort : Result \cup {"none"}, data : Units,
              len : Nat, load : LoadState]
  /\ now \in Nat \ {0} /\ eDeviceType \in {"RAM", "FLASH"}
  /\ fModuleLoad \in BOOLEAN
  /\ inbox \in Seq(PacketType) /\ Len(inbox) <= 1 /\ outbox \in Seq(PacketType)
  /\ DOMAIN fs = Channel
  /\ \A c \in Channel : /\ DOMAIN fs[c] \subseteq Name
                        /\ \A n \in DOMAIN fs[c] : fs[c][n] \in Units
  /\ xfer \in [dir : {"none", "down", "up"}, ch : Channel,
               name : Name \cup {NoName}, len : Nat, blk : Nat, max : Nat,
               data : Units]
  /\ xfer.dir = "up" => xfer.len <= Len(xfer.data)
  /\ running \subseteq Channel
  /\ calls \in Nat /\ faults \in Nat /\ foreign \in Nat
  /\ lateDir \in BOOLEAN /\ spoiled \in BOOLEAN

(* A firmware file replaces all files of all channels, a module all files  *)
(* of its channel but the base firmware (DEV_ProcessFWDownload).           *)
Removes(r, c, n) ==
  /\ r.op \in {"MODULE", "STARTUP"}
  /\ \/ Kind[r.name] = "NXF" /\ r.ch = 0
     \/ Kind[r.name] = "NXO" /\ r.ch = c /\ Kind[n] # "NXF"

Store == INSTANCE FileStore WITH
           Request <- {AsRequest(j) : j \in Job},
           store <- fs,
           open <- IF pc = "idle" THEN {} ELSE {AsRequest(job)}

(* DEV_DownloadFile, DEV_ProcessFWDownload: whatever is lost, late or       *)
(* refused, the device's files change as a whole and only as the running or *)
(* an earlier failed call asked for, and a call that reports success has    *)
(* its file, as given, on the device.                                       *)
FileStoreSpec == Store!StoreSpec

(* DEV_UploadFile: CIFX_NO_ERROR means that the buffer holds the device's   *)
(* file, complete and unchanged, also after late answers to an earlier      *)
(* upload that timed out.                                                   *)
UploadHonest ==
  pc = "idle" /\ res.op \in {"UPLOAD", "UPLOAD_FW"} /\ res.lRet = "OK" =>
    /\ Has(res.ch, res.name) /\ fs[res.ch][res.name] = res.data
    /\ res.len = Len(res.data)

Direction(r) == CASE r.op \in {"UPLOAD", "UPLOAD_FW"} -> "up"
                  [] r.op \in {"FILE", "FIRMWARE"}    -> "down"
                  [] r.load \in {"MODULE+", "FIRMWARE+"} -> "down"
                  [] OTHER -> "neither"

(* "It is necessary to send a Abort command, otherwise the next file access *)
(* will fail with an error COMMAND_ACTIVE" (DEV_UploadFile): a transfer     *)
(* that ended well, or whose abort was confirmed, is not open any more.     *)
TransferClosed ==
  pc = "idle" /\ (res.lRet = "OK" \/ res.abort = "OK") =>
    xfer.dir # Direction(res)

(* "If a new firmware files (NXF) is loaded, all other files (NXD/NXO etc)  *)
(* are deleted in all PORTs" (DEV_ProcessFWDownload).  True only as long as *)
(* no directory request has ended without its answer, in this call or an    *)
(* earlier one, and nothing was refused: the answer that comes late is      *)
(* taken for the one to the next directory request, whose ulSrc and ulId    *)
(* are the same.                                                            *)
FirmwareAlone ==
  (/\ pc = "idle" /\ res.load = "FIRMWARE+" /\ res.lRet = "OK"
   /\ eDeviceType = "FLASH" /\ ~spoiled /\ ~lateDir) =>
    \A c \in Channel : \A n \in DOMAIN fs[c] :
      Kind[n] = "short" \/ <<c, n>> = <<0, res.name>>

(* DEV_RemoveChannelFiles searches from the start again after a file it     *)
(* must not delete, if that is the first one ...                            *)
FirstIsExempt ==
  /\ pc = "find" /\ rm.first
  /\ LET S == Listed(rm.ch, NoName) IN S # {} /\ Exempt(Dir[FirstOf(S)])

(* ... and after every deletion, whose result it ignores.                   *)
DeleteFailed == pc = "delete" /\ tp.st = "done" /\ Status # "OK"

=============================================================================

-------------------------- MODULE CifxDownloadProofs --------------------------
(***************************************************************************)
(* Proofs about CifxDownload, for any files, calls, block sizes, faults    *)
(* and packets nobody asked for.  The argument: ulSrc and ulId make every  *)
(* request of a transfer different from all that are still under way, so   *)
(* the answer the thread takes is the device's answer to the request it    *)
(* has just sent, and what it says about files and transfer is still true, *)
(* because the device has no other request to carry out.                   *)
(*                                                                         *)
(* All of it is for FloodTick = 1: a transfer given up after MaxAnswers    *)
(* packets is not repeated in the same millisecond.                        *)
(***************************************************************************)
EXTENDS CifxDownload, SequenceTheorems, WellFoundedInduction, TLAPS

-----------------------------------------------------------------------------
(* The inductive invariant.                                                 *)

DownLabel == {"dlReq", "dlData", "dlAbort"}
UpLabel == {"ulReq", "ulData", "ulAbort"}
FileLabel == DownLabel \cup UpLabel

\* The request whose answer the thread waits for at a label.
Asks(cmd, src, id) == tp.req.cmd = cmd /\ tp.req.src = src /\ tp.req.id = id

RequestInv ==
  /\ pc = "dlReq" => /\ Asks("DOWNLOAD_REQ", loc.src, loc.id)
                     /\ tp.req.ch = job.ch /\ tp.req.name = job.name
                     /\ tp.req.len = Len(job.data)
  /\ pc = "dlData" => /\ Asks("DOWNLOAD_DATA", loc.src, loc.id) /\ tp.req.ext = loc.seq
                      /\ tp.req.crc = SubSeq(job.data, 1, loc.done + loc.send)
  /\ pc = "dlAbort" => Asks("DOWNLOAD_ABORT", loc.src, loc.id)
  /\ pc = "ulReq" => /\ Asks("UPLOAD_REQ", loc.src, loc.id)
                     /\ tp.req.ch = job.ch /\ tp.req.name = job.name
                     /\ tp.req.max = HostBlock
  /\ pc = "ulData" => Asks("UPLOAD_DATA", loc.src, loc.id) /\ tp.req.ext = loc.seq
  /\ pc = "ulAbort" => Asks("UPLOAD_ABORT", loc.src, loc.id)
  /\ pc = "find" => /\ Asks("DIR_LIST", PhysAddr, 0) /\ tp.req.ch = rm.ch
                    /\ tp.req.name = IF rm.first THEN NoName ELSE rm.name
  /\ pc = "delete" => /\ tp.req.cmd = "FILE_DELETE"
                      /\ tp.req.ch = rm.ch /\ tp.req.name = rm.name
  /\ pc = "md5" => /\ tp.req.cmd = "GET_MD5"
                   /\ tp.req.ch = job.ch /\ tp.req.name = job.name
  /\ pc = "run" => tp.req.cmd = "RUN_MODULE" /\ tp.req.src = PhysAddr

\* Which calls reach which label.
FlowInv ==
  /\ pc # "idle" => job \in Job
  /\ pc \in {"idle", "start", "ident"} <=> tp.st = "idle"
  /\ tp.st = "done" => tp.lRet \in {"OK", "PUT_TIMEOUT", "GET_TIMEOUT", "NOT_READY"}
  /\ pc \in DownLabel => job.op \in {"FILE", "FIRMWARE", "MODULE", "STARTUP"}
  /\ pc \in UpLabel => job.op \in {"UPLOAD", "UPLOAD_FW"}
  /\ pc \in {"md5", "delete"} => job.op \in {"MODULE", "STARTUP"}
  /\ pc = "find" => job.op \in {"MODULE", "STARTUP", "FIND"}
  /\ pc \in {"run", "ident"} => job.op = "MODULE"
  /\ job.op = "MODULE" /\ pc \notin {"idle", "start"} => Kind[job.name] = "NXO"
  /\ bLoadState \in {"none", "FIRMWARE", "MODULE"} \/ pc \in {"idle", "run", "ident"}
  /\ pc = "start" => bLoadState = "none"
  /\ pc # "idle" /\ bLoadState # "none" => bLoadState \in {KindLoaded, Executed(KindLoaded)}

\* A packet under way that is no answer to the request of the thread: it
\* belongs to an earlier moment or an earlier step of the transfer.
Past(p) ==
  IF p.src = 0
  THEN p.cmd \in {"RUN_MODULE", "INDICATION"} \/ (p.cmd = "DIR_LIST" /\ lateDir)
  ELSE /\ p.src < now
       /\ pc \in FileLabel /\ p.src = loc.src =>
            p.id <= loc.id /\ (tp.st \in {"put", "get"} => p.id < loc.id)

Current(p) == tp.st = "get" /\ IsAnswer(p)

\* Requests whose answer cannot be confused with another one.
Tracked == pc # "run" /\ (pc = "find" => ~lateDir)

TicketInv ==
  /\ pc \in FileLabel => loc.src # 0 /\ loc.src <= now
  /\ pc \in {"md5", "delete"} => tp.req.src # 0 /\ tp.req.src <= now
  /\ pc \in {"md5", "delete"} /\ tp.st \in {"put", "get"} => tp.req.src = now
  /\ \A i \in DOMAIN outbox : Past(outbox[i]) \/ Current(outbox[i])
  /\ inbox # <<>> => Past(Head(inbox)) \/ (tp.st = "get" /\ Head(inbox) = tp.req)
  /\ tp.st = "get" => inbox = <<>> \/ inbox = <<tp.req>>
  /\ Tracked /\ inbox # <<>> => \A i \in DOMAIN outbox : ~Current(outbox[i])
  /\ Tracked => \A i, j \in DOMAIN outbox : Current(outbox[i]) /\ Current(outbox[j]) => i = j
  /\ Tracked /\ tp.st = "done" /\ tp.lRet = "OK" => inbox = <<>>

\* Locals of the transfers and of DEV_RemoveChannelFiles.
LocalInv ==
  /\ pc = "dlReq" => loc.max = HostBlock /\ loc.done = 0 /\ loc.blk = 0
  /\ pc = "ulReq" => loc.max = HostBlock /\ loc.data = <<>>
  /\ pc = "dlData" => loc.done + loc.send <= Len(job.data) /\ loc.blk # 0
  /\ pc = "dlAbort" => loc.lRet \notin {"OK", "ALREADY_EXISTS"}
  /\ pc \in {"find", "delete"} =>
       /\ rm.ch <= rm.last
       /\ rm.except = "none" /\ job.op # "FIND" =>
            job.ch = 0 /\ Kind[job.name] = "NXF" /\ rm.last = MaxCh - 1
       /\ rm.except = "NXF" => rm.ch = job.ch /\ rm.last = job.ch /\ Kind[job.name] = "NXO"
  /\ pc = "delete" => ~Exempt(rm.name)
  /\ pc \in {"find", "delete", "dlReq", "dlData"} /\ bLoadState = "FIRMWARE" => job.ch = 0

\* The device has nothing to do that would change files or transfer.
Calm == inbox = <<>> \/ Head(inbox).cmd = "RUN_MODULE"

\* A firmware update that nothing has disturbed so far.
Updating == eDeviceType = "FLASH" /\ bLoadState = "FIRMWARE" /\ ~spoiled /\ ~lateDir

\* A call that has ended well, or whose abort was confirmed.
Settled == (res.lRet = "OK" \/ res.abort = "OK") /\ Direction(res) # "neither"

\* Where only the thread's own request can be with the device.
Quiet ==
  \/ pc \in {"dlData", "ulData", "run", "ident"}
  \/ pc = "ulAbort" /\ loc.lRet = "OK"
  \/ pc \in {"find", "delete", "dlReq"} /\ Updating
  \/ pc = "idle" /\ Settled

QuietInv == Quiet => Calm \/ (tp.st \in {"get", "done"} /\ inbox = <<tp.req>>)

File == fs[job.ch][job.name]
InPlace == Has(job.ch, job.name) /\ File = job.data
DownOpen == /\ xfer.dir = "down" /\ xfer.ch = job.ch /\ xfer.name = job.name
            /\ xfer.len = Len(job.data)
UpOpen(k, m) == xfer.dir = "up" /\ xfer.data = File /\ xfer.len = k /\ xfer.max = m
Unserved == tp.st = "put" \/ (tp.st \in {"get", "done"} /\ inbox # <<>>)
Swept(c) == \A n \in DOMAIN fs[c] : Kind[n] = "short"
Alone == \A c \in Channel : \A n \in DOMAIN fs[c] :
           Kind[n] = "short" \/ (c = 0 /\ n = job.name)

\* What the thread's labels say about the files and the transfer of the device.
DownInv == pc = "dlData" /\ Unserved => DownOpen

UpInv ==
  /\ pc = "ulData" =>
       /\ Has(job.ch, job.name)
       /\ Len(loc.data) + loc.send = Len(File) /\ loc.send # 0 /\ loc.max # 0
       /\ loc.data = SubSeq(File, 1, Len(loc.data)) /\ loc.len = Len(loc.data)
       /\ loc.seq \in {"NONE", "LAST"} <=> loc.send <= loc.max
       /\ Unserved => UpOpen(Len(loc.data), loc.max)
  /\ pc = "ulAbort" /\ loc.lRet = "OK" =>
       Has(job.ch, job.name) /\ File = <<>> /\ loc.data = <<>> /\ loc.len = 0

RunInv == pc \in {"run", "ident"} => InPlace /\ (bLoadState = "MODULE+" => xfer.dir # "down")

SweepInv ==
  /\ pc \in {"find", "delete"} /\ Updating =>
       /\ \A c \in Channel : c < rm.ch => Swept(c)
       /\ pc = "find" /\ ~rm.first =>
            \A n \in DOMAIN fs[rm.ch] : Index(n) <= Index(rm.name) => Kind[n] = "short"
  /\ pc \in {"dlReq", "dlData"} /\ Updating => Alone

\* What an answer to the thread's request says.
Content(p) ==
  p.sta = "OK" =>
    /\ pc = "dlReq" => DownOpen
    /\ pc = "dlData" => IF loc.seq \in {"NONE", "LAST"} THEN InPlace /\ xfer.dir = "none"
                                                        ELSE DownOpen
    /\ pc = "dlAbort" => xfer.dir # "down"
    /\ pc = "ulReq" => /\ Has(job.ch, job.name) /\ p.len = Len(File) /\ p.max # 0
                       /\ UpOpen(0, Least(HostBlock, p.max))
    /\ pc = "ulData" =>
         LET k == Len(loc.data) + Least(loc.max, loc.send) IN
         /\ p.crc = SubSeq(File, 1, k) /\ Len(loc.data) + Len(p.data) = k
         /\ IF loc.seq \in {"NONE", "LAST"} THEN xfer.dir = "none" ELSE UpOpen(k, loc.max)
    /\ pc = "ulAbort" => xfer.dir # "up"
    /\ pc = "find" =>
         IF p.ext = "LAST"
         THEN \A n \in DOMAIN fs[rm.ch] : Index(n) <= Index(tp.req.name)
         ELSE /\ p.name \in DOMAIN fs[rm.ch]
              /\ \A n \in DOMAIN fs[rm.ch] :
                   Index(n) <= Index(tp.req.name) \/ Index(p.name) <= Index(n)
    /\ pc = "md5" => Has(job.ch, job.name) /\ p.data = File

AnswerInv ==
  Tracked => /\ \A i \in DOMAIN outbox : Current(outbox[i]) => Content(outbox[i])
             /\ tp.st = "done" /\ tp.lRet = "OK" => Content(tp.ans)

\* A request with the device that changes files belongs to the running call or
\* to one that failed.
Open == IF pc = "idle" THEN {} ELSE {AsRequest(job)}

Backs(q, r) ==
  /\ q.kind = "write" /\ q.name \in Name /\ q.data \in Units
  /\ q.ch = xfer.ch /\ q.name = xfer.name /\ xfer.len = Len(q.data)
  /\ Len(r.crc) <= Len(q.data) /\ r.crc = SubSeq(q.data, 1, Len(r.crc))

WitnessInv ==
  inbox # <<>> =>
    /\ Head(inbox).cmd = "DOWNLOAD_DATA" =>
         xfer.dir = "down" /\ \E q \in Open \cup lost : Backs(q, Head(inbox))
    /\ Head(inbox).cmd = "FILE_DELETE" =>
         \E q \in Open \cup lost : Removes(q, Head(inbox).ch, Head(inbox).name)

ResultInv == UploadHonest /\ TransferClosed /\ FirmwareAlone

DownloadInv ==
  /\ TypeOK /\ FlowInv /\ RequestInv /\ TicketInv /\ LocalInv /\ QuietInv
  /\ DownInv /\ UpInv /\ RunInv /\ SweepInv
  /\ AnswerInv /\ WitnessInv /\ ResultInv

-----------------------------------------------------------------------------
(* Types.                                                                   *)

AnyName == Name \cup {NoName}
AnyOp == Op \cup {"none"}
JobType == [op : AnyOp, ch : Channel, name : AnyName, data : Units, buf : Nat]
LocType == [src : Nat, id : Nat, max : Nat, send : Nat, done : Nat, seq : Ext,
            blk : Nat, lRet : Result, data : Units, len : Nat]
RmType == [ch : Channel, last : Channel, except : {"none", "NXF"}, first : BOOLEAN,
           name : AnyName]
TpType == [st : {"idle", "put", "get", "done"}, req : PacketType, cnt : Nat,
           lRet : Result, ans : PacketType]
ResType == [op : AnyOp, ch : Channel, name : AnyName, lRet : Result,
            abort : Result \cup {"none"}, data : Units, len : Nat, load : LoadState]
XferType == [dir : {"none", "down", "up"}, ch : Channel, name : AnyName, len : Nat,
             blk : Nat, max : Nat, data : Units]
Label == {"idle", "start", "dlReq", "dlData", "dlAbort", "ulReq", "ulData", "ulAbort",
          "md5", "find", "delete", "run", "ident"}

\* TypeOK in parts.
TypePc == pc \in Label
TypeJob == job \in JobType
TypeLoc == loc \in LocType
TypeRm == rm \in RmType
TypeLoad == bLoadState \in LoadState
TypeTp == tp \in TpType /\ tp.cnt < MaxAnswers
TypeRes == res \in ResType
TypeClock == now \in Nat \ {0}
TypeDevice == eDeviceType \in {"RAM", "FLASH"} /\ fModuleLoad \in BOOLEAN
TypeIn == inbox \in Seq(PacketType) /\ Len(inbox) <= 1
TypeOut == outbox \in Seq(PacketType)
TypeFs ==
  /\ DOMAIN fs = Channel
  /\ \A c \in Channel : /\ DOMAIN fs[c] \subseteq Name
                        /\ \A n \in DOMAIN fs[c] : fs[c][n] \in Units
TypeXfer == xfer \in XferType /\ (xfer.dir = "up" => xfer.len <= Len(xfer.data))
TypeRunning == running \subseteq Channel
TypeBound == calls \in Nat /\ faults \in Nat /\ foreign \in Nat
TypeHist == lateDir \in BOOLEAN /\ spoiled \in BOOLEAN

(* The parts make up TypeOK. *)
LEMMA TypeParts ==
  TypeOK <=> /\ TypePc /\ TypeJob /\ TypeLoc /\ TypeRm /\ TypeLoad /\ TypeTp /\ TypeRes
             /\ TypeClock /\ TypeDevice /\ TypeIn /\ TypeOut /\ TypeFs /\ TypeXfer
             /\ TypeRunning /\ TypeBound /\ TypeHist
  BY DEF TypeOK, TypePc, TypeJob, TypeLoc, TypeRm, TypeLoad, TypeTp, TypeRes, TypeClock,
     TypeDevice, TypeIn, TypeOut, TypeFs, TypeXfer, TypeRunning, TypeBound, TypeHist,
     AnyName, AnyOp, JobType, LocType, RmType, TpType, ResType, XferType, Label

(* ... also after a step. *)
LEMMA TypeNext ==
  ASSUME TypePc', TypeJob', TypeLoc', TypeRm', TypeLoad', TypeTp', TypeRes', TypeClock',
         TypeDevice', TypeIn', TypeOut', TypeFs', TypeXfer', TypeRunning', TypeBound', TypeHist'
  PROVE  TypeOK'
  BY DEF TypeOK, TypePc, TypeJob, TypeLoc, TypeRm, TypeLoad, TypeTp, TypeRes, TypeClock,
     TypeDevice, TypeIn, TypeOut, TypeFs, TypeXfer, TypeRunning, TypeBound, TypeHist,
     AnyName, AnyOp, JobType, LocType, RmType, TpType, ResType, XferType, Label

(* A packet has the fields it is made with. *)
LEMMA PacketFact ==
  ASSUME NEW cmd \in Command, NEW src \in Nat, NEW id \in Nat
  PROVE  /\ Packet(cmd, src, id) \in PacketType
         /\ Packet(cmd, src, id).cmd = cmd /\ Packet(cmd, src, id).src = src
         /\ Packet(cmd, src, id).id = id /\ Packet(cmd, src, id).sta = "OK"
         /\ Packet(cmd, src, id).ext = "NONE" /\ Packet(cmd, src, id).ch = 0
<1>1. 0 \in Channel /\ <<>> \in Units
  BY DownloadAssumption DEF Channel, Units
<1> QED
  BY <1>1 DEF Packet, PacketType, Ext

(* The start of a transfer, and its end. *)
LEMMA SendFact ==
  ASSUME NEW r \in PacketType
  PROVE  /\ Send(r) \in TpType /\ Send(r).cnt < MaxAnswers
         /\ Send(r).st = "put" /\ Send(r).req = r
<1>1. Packet("none", 0, 0) \in PacketType
  BY PacketFact DEF Command
<1>2. Idle \in TpType /\ Idle.cnt = 0 /\ "put" \in {"idle", "put", "get", "done"}
  BY <1>1 DEF TpType, Idle, Result
<1>3. MaxAnswers \in Nat \ {0}
  BY DownloadAssumption
<1>4. Send(r) \in TpType
  BY <1>2 DEF TpType, Send
<1>5. Send(r).st = "put" /\ Send(r).req = r /\ Send(r).cnt = 0
  BY <1>2 DEF TpType, Send
<1> QED
  BY <1>3, <1>4, <1>5

(* Outside of a transfer. *)
LEMMA IdleFact ==
  Idle \in TpType /\ Idle.cnt < MaxAnswers /\ Idle.st = "idle"
<1>1. Packet("none", 0, 0) \in PacketType
  BY PacketFact DEF Command
<1> QED
  BY <1>1, DownloadAssumption DEF TpType, Result, Idle

(* The assumption about the calls. *)
LEMMA JobFact ==
  ASSUME NEW j \in Job
  PROVE  /\ j \in JobType /\ j.ch \in Channel /\ j.name \in Name /\ j.data \in Units
         /\ j.buf \in Nat
         /\ j.op \in Op
  BY DownloadAssumption DEF JobType, AnyName, AnyOp, Units, Op

(* A prefix of a file, continued. *)
LEMMA PrefixFact ==
  ASSUME NEW s \in Units, NEW a \in Nat, NEW b \in Nat, a <= b, b <= Len(s)
  PROVE  /\ SubSeq(s, 1, a) \in Units /\ Len(SubSeq(s, 1, a)) = a
         /\ SubSeq(s, a + 1, b) \in Units /\ Len(SubSeq(s, a + 1, b)) = b - a
         /\ SubSeq(s, 1, a) \o SubSeq(s, a + 1, b) = SubSeq(s, 1, b)
         /\ SubSeq(s, 1, Len(s)) = s
<1>0. Len(s) \in Nat /\ \A i \in 1 .. Len(s) : s[i] \in Unit
  BY DEF Units
<1>1. SubSeq(s, 1, a) \in Units /\ Len(SubSeq(s, 1, a)) = a
  <2>1. \A i \in 1 .. a : s[i] \in Unit
    BY <1>0
  <2>2. /\ SubSeq(s, 1, a) \in Seq(Unit)
        /\ Len(SubSeq(s, 1, a)) = IF 1 <= a THEN a - 1 + 1 ELSE 0
    BY <2>1, SubSeqProperties
  <2> QED
    BY <2>2 DEF Units
<1>2. SubSeq(s, a + 1, b) \in Units /\ Len(SubSeq(s, a + 1, b)) = b - a
  <2>1. \A i \in a + 1 .. b : s[i] \in Unit
    BY <1>0
  <2>2. /\ SubSeq(s, a + 1, b) \in Seq(Unit)
        /\ Len(SubSeq(s, a + 1, b)) = IF a + 1 <= b THEN b - (a + 1) + 1 ELSE 0
    BY <2>1, SubSeqProperties
  <2> QED
    BY <2>2 DEF Units
<1>3. SubSeq(s, 1, a) \o SubSeq(s, a + 1, b) = SubSeq(s, 1, b)
  <2>1. 1 \in 1 .. Len(s) + 1 /\ a \in 1 - 1 .. Len(s) /\ b \in a .. Len(s)
    BY <1>0
  <2> QED
    BY <2>1, ConcatAdjacentSubSeq DEF Units
<1>4. SubSeq(s, 1, Len(s)) = s
  BY SubSeqFull DEF Units
<1> QED
  BY <1>1, <1>2, <1>3, <1>4

(* The assumption about the other constants. *)
LEMMA ConstFact ==
  /\ MaxCh \in Nat \ {0} /\ HostBlock \in Nat \ {0} /\ MaxAnswers \in Nat \ {0}
  /\ DevBlock \subseteq Nat /\ NoName \notin Name
  /\ 0 \in Channel /\ MaxCh - 1 \in Channel /\ Channel \subseteq Nat
  /\ <<>> \in Units
  /\ Kind \in [Name -> {"NXF", "NXO", "short", "other"}]
  BY DownloadAssumption DEF Channel, Units

(* What the callers of DEV_TransferPacket make of its end. *)
LEMMA StatusFact ==
  ASSUME TypeTp, FlowInv, tp.st = "done"
  PROVE  /\ Status \in {"OK", "PUT_TIMEOUT", "GET_TIMEOUT", "NOT_READY", "REFUSED"}
         /\ Status = "OK" => tp.lRet = "OK" /\ tp.ans.sta = "OK"
<1>1. tp.lRet \in {"OK", "PUT_TIMEOUT", "GET_TIMEOUT", "NOT_READY"}
  BY DEF FlowInv
<1>2. tp.ans.sta \in {"OK", "REFUSED"}
  BY DEF TypeTp, TpType, PacketType
<1> QED
  BY <1>1, <1>2 DEF Status

(* A step of the thread leaves the types of the device's variables. *)
LEMMA HostOnlyTypes ==
  ASSUME TypeOK, HostOnly
  PROVE  /\ TypeClock' /\ TypeDevice' /\ TypeIn' /\ TypeOut' /\ TypeFs' /\ TypeXfer'
         /\ TypeRunning' /\ TypeBound' /\ lateDir' \in BOOLEAN
<1>1. /\ TypeClock /\ TypeDevice /\ TypeIn /\ TypeOut /\ TypeFs /\ TypeXfer
      /\ TypeRunning /\ TypeBound /\ TypeHist
  BY TypeParts
<1>2. UNCHANGED <<now, eDeviceType, fModuleLoad, inbox, outbox, fs, xfer, running, calls, faults,
                  foreign, lateDir>>
  BY DEF HostOnly, typeVars, devVars, boundVars
<1> QED
  BY <1>1, <1>2 DEF TypeClock, TypeDevice, TypeIn, TypeOut, TypeFs, TypeXfer, TypeRunning,
     TypeBound, TypeHist

(* When the thread goes on to its next request, no packet under way is an   *)
(* answer to it: the request has a new ulId, or a ulSrc of this moment.     *)
LEMMA NextTicket ==
  ASSUME TypeOK, TicketInv, UNCHANGED <<now, inbox, outbox, lateDir>>,
         tp.st \in {"done", "idle"}, tp'.st \in {"put", "idle"}, loc' \in LocType,
         pc' \in FileLabel =>
           /\ tp'.st = "put"
           /\ loc'.src = now \/ (pc \in FileLabel /\ loc'.src = loc.src /\ loc'.id = loc.id + 1),
         pc' \in {"md5", "delete"} => tp'.req.src = now
  PROVE  TicketInv' /\ AnswerInv'
<1>0. TypeClock /\ TypeLoc /\ TypeOut /\ TypeIn
  BY TypeParts
<1>1. ASSUME NEW p \in PacketType, Past(p) PROVE Past(p)'
  <2>1. p.src \in Nat /\ p.id \in Nat /\ now \in Nat /\ loc.src \in Nat /\ loc.id \in Nat
    BY <1>0 DEF PacketType, TypeClock, TypeLoc, LocType
  <2>2. CASE p.src = 0
    BY <1>1, <2>2 DEF Past
  <2>3. CASE p.src # 0
    <3>1. p.src < now /\ (pc \in FileLabel /\ p.src = loc.src => p.id <= loc.id)
      BY <1>1, <2>3 DEF Past
    <3>2. CASE pc' \in FileLabel /\ p.src = loc'.src
      <4>1. pc \in FileLabel /\ loc'.src = loc.src /\ loc'.id = loc.id + 1
        BY <2>1, <3>1, <3>2
      <4>2. p.id < loc'.id /\ p.id <= loc'.id
        BY <2>1, <3>1, <3>2, <4>1
      <4> QED
        BY <2>3, <3>1, <4>2 DEF Past
    <3>3. CASE ~(pc' \in FileLabel /\ p.src = loc'.src)
      BY <2>3, <3>1, <3>3 DEF Past
    <3> QED
      BY <3>2, <3>3
  <2> QED
    BY <2>2, <2>3
<1>2. \A i \in DOMAIN outbox : outbox[i] \in PacketType /\ Past(outbox[i])
  <2>1. \A i \in DOMAIN outbox : outbox[i] \in PacketType
    BY <1>0 DEF TypeOut
  <2> QED
    BY <2>1 DEF TicketInv, Current
<1>3. \A i \in DOMAIN outbox : Past(outbox[i])'
  BY <1>1, <1>2
<1>4. inbox # <<>> => Past(Head(inbox))'
  <2>1. inbox # <<>> => Head(inbox) \in PacketType /\ Past(Head(inbox))
    BY <1>0 DEF TypeIn, TicketInv
  <2> QED
    BY <1>1, <2>1
<1>5. pc' \in FileLabel => loc'.src # 0 /\ loc'.src <= now
  BY <1>0 DEF TicketInv, TypeClock, TypeLoc, LocType
<1>6. \A p : ~Current(p)'
  BY DEF Current
<1>7. now \in Nat /\ now # 0 /\ tp'.st # "get" /\ tp'.st # "done"
  BY <1>0 DEF TypeClock
<1>8. TicketInv'
  BY <1>3, <1>4, <1>5, <1>6, <1>7 DEF TicketInv
<1>9. AnswerInv'
  BY <1>6, <1>7 DEF AnswerInv
<1> QED
  BY <1>8, <1>9

-----------------------------------------------------------------------------
(* The thread goes on inside a call.                                        *)

(* What all steps of the thread to its next request have in common. *)
LEMMA GoOnFact ==
  ASSUME DownloadInv, HostOnly, spoiled' \in BOOLEAN, pc # "idle", tp.st \in {"done", "idle"},
         NEW l \in Label \ {"idle", "start"}, GoOn(l),
         TypeTp', TypeLoc', TypeRm', TypeLoad', tp'.st \in {"put", "idle"},
         l \in FileLabel =>
           /\ tp'.st = "put"
           /\ loc'.src = now \/ (pc \in FileLabel /\ loc'.src = loc.src /\ loc'.id = loc.id + 1),
         l \in {"md5", "delete"} => tp'.req.src = now
  PROVE  TypeOK' /\ TicketInv' /\ AnswerInv' /\ WitnessInv' /\ ResultInv'
<1>0. TypeOK /\ TypeJob /\ TypeRes /\ TicketInv /\ WitnessInv
  BY TypeParts DEF DownloadInv
<1>1. /\ pc' = l /\ job' = job /\ res' = res /\ lost' = lost /\ l # "idle"
      /\ UNCHANGED <<now, inbox, outbox, lateDir, xfer>>
  BY DEF GoOn, HostOnly, devVars
<1>2. TypeOK'
  <2>1. TypePc' /\ TypeJob' /\ TypeRes' /\ TypeHist'
    BY <1>0, <1>1, HostOnlyTypes DEF TypePc, TypeJob, TypeRes, TypeHist
  <2> QED
    BY <1>0, <2>1, TypeNext, HostOnlyTypes
<1>3. TicketInv' /\ AnswerInv'
  BY <1>0, <1>1, NextTicket DEF TypeLoc
<1>4. WitnessInv'
  <2>1. Open' = Open
    BY <1>1 DEF Open, AsRequest, Writes
  <2>2. \A q, r : Backs(q, r)' = Backs(q, r)
    BY <1>1 DEF Backs
  <2> QED
    BY <1>0, <1>1, <2>1, <2>2 DEF WitnessInv, Removes
<1>5. ResultInv'
  BY <1>1 DEF ResultInv, UploadHonest, TransferClosed, FirmwareAlone
<1> QED
  BY <1>2, <1>3, <1>4, <1>5

(* DEV_DownloadFile announces the file. *)
LEMMA ToDownload ==
  ASSUME DownloadInv, HostOnly, spoiled' \in BOOLEAN, pc \notin {"idle", "run", "ident"},
         tp.st \in {"done", "idle"},
         job.op \in {"FILE", "FIRMWARE", "MODULE", "STARTUP"},
         job.op = "MODULE" => Kind[job.name] = "NXO",
         bLoadState = "FIRMWARE" => job.ch = 0,
         Updating' => Alone /\ inbox = <<>>,
         job.data # <<>>, BeginDownload, UNCHANGED <<rm, bLoadState>>
  PROVE  DownloadInv'
<1> DEFINE r == [Packet("DOWNLOAD_REQ", now, 1) EXCEPT
                   !.ch = job.ch, !.name = job.name, !.len = Len(job.data), !.max = HostBlock]
<1>0. /\ TypeOK /\ TypeClock /\ TypeJob /\ TypeRm /\ TypeLoad /\ FlowInv /\ job \in Job
  BY TypeParts DEF DownloadInv, FlowInv
<1>1. /\ GoOn("dlReq") /\ tp' = Send(r)
      /\ loc' = [NoLoc EXCEPT !.src = now, !.id = 1, !.max = HostBlock]
  BY DEF BeginDownload
<1>2. now \in Nat /\ HostBlock \in Nat /\ Len(job.data) \in Nat /\ job.ch \in Channel
      /\ job.name \in Name
  BY <1>0, ConstFact, JobFact DEF TypeClock, Units
<1>3. /\ r \in PacketType /\ r.cmd = "DOWNLOAD_REQ" /\ r.src = now /\ r.id = 1 /\ r.ch = job.ch
      /\ r.name = job.name /\ r.len = Len(job.data)
  <2>1. /\ Packet("DOWNLOAD_REQ", now, 1) \in PacketType
        /\ Packet("DOWNLOAD_REQ", now, 1).cmd = "DOWNLOAD_REQ"
        /\ Packet("DOWNLOAD_REQ", now, 1).src = now
        /\ Packet("DOWNLOAD_REQ", now, 1).id = 1
    BY <1>2, PacketFact DEF Command
  <2> QED
    BY <1>2, <2>1 DEF PacketType
<1>4. /\ TypeTp' /\ tp'.st = "put" /\ tp'.req = r
  BY <1>1, <1>3, SendFact DEF TypeTp
<1>5. /\ TypeLoc' /\ loc'.src = now /\ loc'.id = 1 /\ loc'.max = HostBlock /\ loc'.done = 0
      /\ loc'.blk = 0
  BY <1>1, <1>2, ConstFact DEF TypeLoc, LocType, NoLoc, Ext, Result
<1>6. pc' = "dlReq" /\ job' = job /\ UNCHANGED <<now, inbox, fs, rm, bLoadState>>
  BY <1>1 DEF GoOn, HostOnly, devVars
<1>7. TypeRm' /\ TypeLoad'
  BY <1>0, <1>6 DEF TypeRm, TypeLoad
<1>8. TypeOK' /\ TicketInv' /\ AnswerInv' /\ WitnessInv' /\ ResultInv'
  BY <1>1, <1>4, <1>5, <1>6, <1>7, GoOnFact DEF Label, FileLabel, DownLabel
<1>9. FlowInv'
  BY <1>0, <1>4, <1>6 DEF FlowInv, DownLabel, UpLabel, KindLoaded, Executed
<1>10. RequestInv'
  <2> HIDE DEF r
  <2> QED
    BY <1>3, <1>4, <1>5, <1>6 DEF RequestInv, Asks
<1>11. LocalInv'
  BY <1>5, <1>6 DEF LocalInv
<1>12. QuietInv'
  BY <1>6 DEF QuietInv, Quiet, Calm
<1>13. DownInv' /\ UpInv' /\ RunInv'
  BY <1>6 DEF DownInv, UpInv, RunInv
<1>14. SweepInv'
  BY <1>6 DEF SweepInv, Alone
<1> QED
  BY <1>8, <1>9, <1>10, <1>11, <1>12, <1>13, <1>14 DEF DownloadInv

(* DEV_DownloadFile sends a block of an open transfer. *)
LEMMA ToBlock ==
  ASSUME DownloadInv, HostOnly, tp.st = "done", pc \in {"dlReq", "dlData"},
         NEW l \in LocType, l.src = loc.src, l.id = loc.id, l.done + l.send <= Len(job.data),
         DownOpen, inbox = <<>>, SendBlock(l), UNCHANGED <<rm, bLoadState, spoiled>>
  PROVE  DownloadInv'
<1> DEFINE r == [Packet("DOWNLOAD_DATA", l.src, l.id + 1) EXCEPT
                   !.ext = l.seq, !.blk = l.blk,
                   !.data = SubSeq(job.data, l.done + 1, l.done + l.send),
                   !.crc = SubSeq(job.data, 1, l.done + l.send)]
<1>0. /\ TypeOK /\ TypeJob /\ TypeRm /\ TypeLoad /\ TypeHist /\ FlowInv /\ LocalInv /\ SweepInv
      /\ job \in Job
  BY TypeParts DEF DownloadInv, FlowInv
<1>1. /\ GoOn("dlData") /\ tp' = Send(r)
      /\ loc' = [l EXCEPT !.id = @ + 1, !.blk = @ + 1]
  BY DEF SendBlock
<1>2. /\ l.src \in Nat /\ l.id \in Nat /\ l.blk \in Nat /\ l.seq \in Ext /\ l.done \in Nat
      /\ l.send \in Nat /\ l.id + 1 \in Nat
  BY DEF LocType
<1>3. SubSeq(job.data, l.done + 1, l.done + l.send) \in Units
      /\ SubSeq(job.data, 1, l.done + l.send) \in Units
  <2>1. job.data \in Units /\ l.done + l.send \in Nat /\ l.done <= l.done + l.send
    BY <1>0, <1>2, JobFact
  <2>2. SubSeq(job.data, l.done + 1, l.done + l.send) \in Units
    BY <1>2, <2>1, PrefixFact
  <2>3. SubSeq(job.data, 1, l.done + l.send) \in Units
    BY <1>2, <2>1, PrefixFact
  <2> QED
    BY <2>2, <2>3
<1>4. /\ r \in PacketType /\ r.cmd = "DOWNLOAD_DATA" /\ r.src = l.src /\ r.id = l.id + 1
      /\ r.ext = l.seq /\ r.crc = SubSeq(job.data, 1, l.done + l.send)
  <2>0. "DOWNLOAD_DATA" \in Command
    BY DEF Command
  <2>1. /\ Packet("DOWNLOAD_DATA", l.src, l.id + 1) \in PacketType
        /\ Packet("DOWNLOAD_DATA", l.src, l.id + 1).cmd = "DOWNLOAD_DATA"
        /\ Packet("DOWNLOAD_DATA", l.src, l.id + 1).src = l.src
        /\ Packet("DOWNLOAD_DATA", l.src, l.id + 1).id = l.id + 1
    BY <1>2, <2>0, PacketFact
  <2> QED
    BY <1>2, <1>3, <2>1 DEF PacketType
<1>5. TypeTp' /\ tp'.st = "put" /\ tp'.req = r
  BY <1>1, <1>4, SendFact DEF TypeTp
<1>6. /\ TypeLoc' /\ loc'.src = l.src /\ loc'.id = l.id + 1 /\ loc'.seq = l.seq
      /\ loc'.done = l.done /\ loc'.send = l.send /\ loc'.blk = l.blk + 1 /\ loc'.blk # 0
  <2>1. loc' = [l EXCEPT !.id = l.id + 1, !.blk = l.blk + 1]
    BY <1>1
  <2>2. l.id + 1 \in Nat /\ l.blk + 1 \in Nat /\ l.blk + 1 # 0
    BY <1>2
  <2>3. TypeLoc'
    BY <2>1, <2>2 DEF TypeLoc, LocType
  <2>4. /\ loc'.src = l.src /\ loc'.id = l.id + 1 /\ loc'.seq = l.seq
        /\ loc'.done = l.done /\ loc'.send = l.send /\ loc'.blk = l.blk + 1
    BY <2>1 DEF LocType
  <2> QED
    BY <2>2, <2>3, <2>4
<1>7. /\ pc' = "dlData" /\ job' = job
      /\ UNCHANGED <<now, inbox, fs, xfer, rm, bLoadState, spoiled, lateDir, eDeviceType>>
  BY <1>1 DEF GoOn, HostOnly, devVars, typeVars
<1>8. TypeRm' /\ TypeLoad' /\ spoiled' \in BOOLEAN
  BY <1>0, <1>7 DEF TypeRm, TypeLoad, TypeHist
<1>9. TypeOK' /\ TicketInv' /\ AnswerInv' /\ WitnessInv' /\ ResultInv'
  BY <1>1, <1>5, <1>6, <1>7, <1>8, GoOnFact DEF Label, FileLabel, DownLabel
<1>10. FlowInv'
  BY <1>0, <1>5, <1>7 DEF FlowInv, DownLabel, UpLabel, KindLoaded, Executed
<1>11. RequestInv'
  <2> HIDE DEF r
  <2> QED
    BY <1>4, <1>5, <1>6, <1>7 DEF RequestInv, Asks
<1>12. LocalInv'
  BY <1>0, <1>6, <1>7 DEF LocalInv
<1>13. QuietInv'
  BY <1>7 DEF QuietInv, Calm
<1>14. DownInv' /\ UpInv' /\ RunInv'
  BY <1>7 DEF DownInv, UpInv, RunInv, DownOpen
<1>15. SweepInv'
  BY <1>0, <1>7 DEF SweepInv, Alone, Updating
<1> QED
  BY <1>9, <1>10, <1>11, <1>12, <1>13, <1>14, <1>15 DEF DownloadInv

(* DEV_DownloadFile gives up. *)
LEMMA ToDownAbort ==
  ASSUME DownloadInv, HostOnly, tp.st = "done", pc \in {"dlReq", "dlData"},
         NEW e \in Result \ {"OK", "ALREADY_EXISTS"}, AbortDownload(e),
         UNCHANGED <<rm, bLoadState, spoiled>>
  PROVE  DownloadInv'
<1>0. /\ TypeOK /\ TypeLoc /\ TypeRm /\ TypeLoad /\ TypeHist /\ FlowInv /\ job \in Job
  BY TypeParts DEF DownloadInv, FlowInv
<1>1. /\ GoOn("dlAbort") /\ tp' = Send(Packet("DOWNLOAD_ABORT", loc.src, loc.id + 1))
      /\ loc' = [loc EXCEPT !.id = @ + 1, !.lRet = e]
  BY DEF AbortDownload
<1>2. /\ loc.src \in Nat /\ loc.id + 1 \in Nat
      /\ TypeLoc' /\ loc'.src = loc.src /\ loc'.id = loc.id + 1 /\ loc'.lRet = e
  <2>1. loc.src \in Nat /\ loc.id + 1 \in Nat
    BY <1>0 DEF TypeLoc, LocType
  <2>2. loc' = [loc EXCEPT !.id = loc.id + 1, !.lRet = e]
    BY <1>1
  <2>3. TypeLoc'
    BY <1>0, <2>1, <2>2 DEF TypeLoc, LocType
  <2>4. loc'.src = loc.src /\ loc'.id = loc.id + 1 /\ loc'.lRet = e
    BY <1>0, <2>2 DEF TypeLoc, LocType
  <2> QED
    BY <2>1, <2>3, <2>4
<1>3. /\ Packet("DOWNLOAD_ABORT", loc.src, loc.id + 1) \in PacketType
      /\ Packet("DOWNLOAD_ABORT", loc.src, loc.id + 1).cmd = "DOWNLOAD_ABORT"
      /\ Packet("DOWNLOAD_ABORT", loc.src, loc.id + 1).src = loc.src
      /\ Packet("DOWNLOAD_ABORT", loc.src, loc.id + 1).id = loc.id + 1
  BY <1>2, PacketFact DEF Command
<1>4. /\ TypeTp' /\ tp'.st = "put" /\ tp'.req.cmd = "DOWNLOAD_ABORT"
      /\ tp'.req.src = loc.src /\ tp'.req.id = loc.id + 1
  BY <1>1, <1>3, SendFact DEF TypeTp
<1>5. pc' = "dlAbort" /\ job' = job /\ UNCHANGED <<rm, bLoadState, spoiled>>
  BY <1>1 DEF GoOn
<1>6. TypeRm' /\ TypeLoad' /\ spoiled' \in BOOLEAN
  BY <1>0, <1>5 DEF TypeRm, TypeLoad, TypeHist
<1>7. TypeOK' /\ TicketInv' /\ AnswerInv' /\ WitnessInv' /\ ResultInv'
  BY <1>1, <1>2, <1>4, <1>5, <1>6, GoOnFact DEF Label, FileLabel, DownLabel
<1>8. FlowInv'
  BY <1>0, <1>4, <1>5 DEF FlowInv, DownLabel, UpLabel, KindLoaded, Executed
<1>9. RequestInv' /\ LocalInv'
  BY <1>2, <1>4, <1>5 DEF RequestInv, Asks, LocalInv
<1>10. QuietInv' /\ DownInv' /\ UpInv' /\ RunInv' /\ SweepInv'
  BY <1>5 DEF QuietInv, Quiet, DownInv, UpInv, RunInv, SweepInv
<1> QED
  BY <1>7, <1>8, <1>9, <1>10 DEF DownloadInv

(* DEV_UploadFile asks for the file. *)
LEMMA ToUpload ==
  ASSUME DownloadInv, HostOnly, pc = "start", job.op \in {"UPLOAD", "UPLOAD_FW"},
         BeginUpload, UNCHANGED <<rm, bLoadState, spoiled>>
  PROVE  DownloadInv'
<1> DEFINE r == [Packet("UPLOAD_REQ", now, 1) EXCEPT
                   !.ch = job.ch, !.name = job.name, !.max = HostBlock]
<1>0. /\ TypeOK /\ TypeClock /\ TypeRm /\ TypeLoad /\ TypeHist /\ FlowInv /\ job \in Job
      /\ tp.st = "idle"
  BY TypeParts DEF DownloadInv, FlowInv
<1>1. /\ GoOn("ulReq") /\ tp' = Send(r)
      /\ loc' = [NoLoc EXCEPT !.src = now, !.id = 1, !.max = HostBlock, !.len = job.buf]
  BY DEF BeginUpload
<1>2. now \in Nat /\ HostBlock \in Nat /\ job.ch \in Channel /\ job.name \in Name /\ job.buf \in Nat
  BY <1>0, ConstFact, JobFact DEF TypeClock
<1>3. /\ r \in PacketType /\ r.cmd = "UPLOAD_REQ" /\ r.src = now /\ r.id = 1 /\ r.ch = job.ch
      /\ r.name = job.name /\ r.max = HostBlock
  <2>1. /\ Packet("UPLOAD_REQ", now, 1) \in PacketType
        /\ Packet("UPLOAD_REQ", now, 1).cmd = "UPLOAD_REQ"
        /\ Packet("UPLOAD_REQ", now, 1).src = now
        /\ Packet("UPLOAD_REQ", now, 1).id = 1
    BY <1>2, PacketFact DEF Command
  <2> QED
    BY <1>2, <2>1 DEF PacketType
<1>4. TypeTp' /\ tp'.st = "put" /\ tp'.req = r
  BY <1>1, <1>3, SendFact DEF TypeTp
<1>5. /\ TypeLoc' /\ loc'.src = now /\ loc'.id = 1 /\ loc'.max = HostBlock /\ loc'.data = <<>>
  BY <1>1, <1>2, ConstFact DEF TypeLoc, LocType, NoLoc, Ext, Result
<1>6. pc' = "ulReq" /\ job' = job /\ UNCHANGED <<rm, bLoadState, spoiled>>
  BY <1>1 DEF GoOn
<1>7. TypeRm' /\ TypeLoad' /\ spoiled' \in BOOLEAN
  BY <1>0, <1>6 DEF TypeRm, TypeLoad, TypeHist
<1>8. TypeOK' /\ TicketInv' /\ AnswerInv' /\ WitnessInv' /\ ResultInv'
  BY <1>0, <1>1, <1>4, <1>5, <1>6, <1>7, GoOnFact DEF Label, FileLabel, UpLabel
<1>9. FlowInv'
  BY <1>0, <1>4, <1>6 DEF FlowInv, DownLabel, UpLabel, KindLoaded, Executed
<1>10. RequestInv'
  <2> HIDE DEF r
  <2> QED
    BY <1>3, <1>4, <1>5, <1>6 DEF RequestInv, Asks
<1>11. LocalInv' /\ QuietInv' /\ DownInv' /\ UpInv' /\ RunInv' /\ SweepInv'
  BY <1>5, <1>6 DEF LocalInv, QuietInv, Quiet, DownInv, UpInv, RunInv, SweepInv
<1> QED
  BY <1>8, <1>9, <1>10, <1>11 DEF DownloadInv

(* DEV_UploadFile asks for a block of an open transfer. *)
LEMMA ToAsk ==
  ASSUME DownloadInv, HostOnly, tp.st = "done", pc \in {"ulReq", "ulData"},
         NEW l \in LocType, l.src = loc.src, l.id = loc.id, inbox = <<>>,
         Has(job.ch, job.name), Len(l.data) + l.send = Len(File), l.send # 0, l.max # 0,
         l.data = SubSeq(File, 1, Len(l.data)), l.len = Len(l.data),
         l.seq \in {"NONE", "LAST"} <=> l.send <= l.max,
         UpOpen(Len(l.data), l.max), AskBlock(l), UNCHANGED <<rm, bLoadState, spoiled>>
  PROVE  DownloadInv'
<1> DEFINE r == [Packet("UPLOAD_DATA", l.src, l.id + 1) EXCEPT !.ext = l.seq]
<1>0. /\ TypeOK /\ TypeRm /\ TypeLoad /\ TypeHist /\ FlowInv /\ job \in Job
  BY TypeParts DEF DownloadInv, FlowInv
<1>1. /\ GoOn("ulData") /\ tp' = Send(r) /\ loc' = [l EXCEPT !.id = l.id + 1]
  BY DEF AskBlock
<1>2. l.src \in Nat /\ l.id + 1 \in Nat /\ l.seq \in Ext
  BY DEF LocType
<1>3. /\ r \in PacketType /\ r.cmd = "UPLOAD_DATA" /\ r.src = l.src /\ r.id = l.id + 1
      /\ r.ext = l.seq
  <2>0. "UPLOAD_DATA" \in Command
    BY DEF Command
  <2>1. /\ Packet("UPLOAD_DATA", l.src, l.id + 1) \in PacketType
        /\ Packet("UPLOAD_DATA", l.src, l.id + 1).cmd = "UPLOAD_DATA"
        /\ Packet("UPLOAD_DATA", l.src, l.id + 1).src = l.src
        /\ Packet("UPLOAD_DATA", l.src, l.id + 1).id = l.id + 1
    BY <1>2, <2>0, PacketFact
  <2> QED
    BY <1>2, <2>1 DEF PacketType
<1>4. TypeTp' /\ tp'.st = "put" /\ tp'.req = r
  BY <1>1, <1>3, SendFact DEF TypeTp
<1>5. TypeLoc'
  BY <1>1, <1>2 DEF TypeLoc, LocType
<1>6. /\ loc'.src = l.src /\ loc'.id = l.id + 1 /\ loc'.seq = l.seq /\ loc'.data = l.data
      /\ loc'.send = l.send /\ loc'.max = l.max /\ loc'.len = l.len
  BY <1>1 DEF LocType
<1>7. /\ pc' = "ulData" /\ job' = job /\ UNCHANGED <<inbox, fs, xfer, rm, bLoadState, spoiled>>
  BY <1>1 DEF GoOn, HostOnly, devVars
<1>8. TypeRm' /\ TypeLoad' /\ spoiled' \in BOOLEAN
  BY <1>0, <1>7 DEF TypeRm, TypeLoad, TypeHist
<1>9. TypeOK' /\ TicketInv' /\ AnswerInv' /\ WitnessInv' /\ ResultInv'
  BY <1>1, <1>4, <1>5, <1>6, <1>7, <1>8, GoOnFact DEF Label, FileLabel, UpLabel
<1>10. FlowInv'
  BY <1>0, <1>4, <1>7 DEF FlowInv, DownLabel, UpLabel, KindLoaded, Executed
<1>11. RequestInv'
  <2> HIDE DEF r
  <2> QED
    BY <1>3, <1>4, <1>6, <1>7 DEF RequestInv, Asks
<1>12. LocalInv' /\ QuietInv' /\ DownInv' /\ RunInv' /\ SweepInv'
  BY <1>7 DEF LocalInv, QuietInv, Calm, DownInv, RunInv, SweepInv
<1>13. UpInv'
  <2>1. File' = File /\ Has(job.ch, job.name)'
    BY <1>7 DEF File, Has
  <2> QED
    BY <1>6, <1>7, <2>1 DEF UpInv, UpOpen
<1> QED
  BY <1>9, <1>10, <1>11, <1>12, <1>13 DEF DownloadInv

(* DEV_UploadFile gives up, or has found an empty file. *)
LEMMA ToUpAbort ==
  ASSUME DownloadInv, HostOnly, tp.st = "done", pc \in {"ulReq", "ulData"},
         NEW e \in Result, NEW len \in Nat,
         e = "OK" => /\ Has(job.ch, job.name) /\ File = <<>> /\ loc.data = <<>> /\ len = 0
                     /\ inbox = <<>>,
         AbortUpload(e, len), UNCHANGED <<rm, bLoadState, spoiled>>
  PROVE  DownloadInv'
<1>0. /\ TypeOK /\ TypeLoc /\ TypeRm /\ TypeLoad /\ TypeHist /\ FlowInv /\ job \in Job
  BY TypeParts DEF DownloadInv, FlowInv
<1>1. /\ GoOn("ulAbort") /\ tp' = Send(Packet("UPLOAD_ABORT", loc.src, loc.id + 1))
      /\ loc' = [loc EXCEPT !.id = loc.id + 1, !.lRet = e, !.len = len]
  BY DEF AbortUpload
<1>2. /\ loc.src \in Nat /\ loc.id + 1 \in Nat
      /\ TypeLoc' /\ loc'.src = loc.src /\ loc'.id = loc.id + 1 /\ loc'.lRet = e
      /\ loc'.data = loc.data /\ loc'.len = len
  <2>1. loc.src \in Nat /\ loc.id + 1 \in Nat
    BY <1>0 DEF TypeLoc, LocType
  <2>3. TypeLoc'
    BY <1>0, <1>1, <2>1 DEF TypeLoc, LocType
  <2>4. /\ loc'.src = loc.src /\ loc'.id = loc.id + 1 /\ loc'.lRet = e
        /\ loc'.data = loc.data /\ loc'.len = len
    BY <1>0, <1>1 DEF TypeLoc, LocType
  <2> QED
    BY <2>1, <2>3, <2>4
<1>3. /\ Packet("UPLOAD_ABORT", loc.src, loc.id + 1) \in PacketType
      /\ Packet("UPLOAD_ABORT", loc.src, loc.id + 1).cmd = "UPLOAD_ABORT"
      /\ Packet("UPLOAD_ABORT", loc.src, loc.id + 1).src = loc.src
      /\ Packet("UPLOAD_ABORT", loc.src, loc.id + 1).id = loc.id + 1
  BY <1>2, PacketFact DEF Command
<1>4. /\ TypeTp' /\ tp'.st = "put" /\ tp'.req.cmd = "UPLOAD_ABORT"
      /\ tp'.req.src = loc.src /\ tp'.req.id = loc.id + 1
  BY <1>1, <1>3, SendFact DEF TypeTp
<1>5. pc' = "ulAbort" /\ job' = job /\ UNCHANGED <<rm, bLoadState, spoiled, inbox, fs>>
  BY <1>1 DEF GoOn, HostOnly, devVars
<1>6. TypeRm' /\ TypeLoad' /\ spoiled' \in BOOLEAN
  BY <1>0, <1>5 DEF TypeRm, TypeLoad, TypeHist
<1>7. TypeOK' /\ TicketInv' /\ AnswerInv' /\ WitnessInv' /\ ResultInv'
  BY <1>1, <1>2, <1>4, <1>5, <1>6, GoOnFact DEF Label, FileLabel, UpLabel
<1>8. FlowInv'
  BY <1>0, <1>4, <1>5 DEF FlowInv, DownLabel, UpLabel, KindLoaded, Executed
<1>9. RequestInv' /\ LocalInv'
  BY <1>2, <1>4, <1>5 DEF RequestInv, Asks, LocalInv
<1>10. QuietInv' /\ DownInv' /\ RunInv' /\ SweepInv'
  BY <1>2, <1>5 DEF QuietInv, Quiet, Calm, DownInv, RunInv, SweepInv
<1>11. UpInv'
  BY <1>2, <1>5 DEF UpInv, Has, File
<1> QED
  BY <1>7, <1>8, <1>9, <1>10, <1>11 DEF DownloadInv

(* DEV_RemoveChannelFiles searches for a file. *)
LEMMA ToFind ==
  ASSUME DownloadInv, HostOnly, spoiled' \in BOOLEAN, pc # "idle", tp.st \in {"done", "idle"},
         job.op \in {"MODULE", "STARTUP", "FIND"}, job.op = "MODULE" => Kind[job.name] = "NXO",
         NEW x \in RmType, x.ch <= x.last,
         x.except = "none" /\ job.op # "FIND" =>
           job.ch = 0 /\ Kind[job.name] = "NXF" /\ x.last = MaxCh - 1,
         x.except = "NXF" => x.ch = job.ch /\ x.last = job.ch /\ Kind[job.name] = "NXO",
         Updating' => /\ inbox = <<>> /\ \A c \in Channel : c < x.ch => Swept(c)
                      /\ ~x.first => \A n \in DOMAIN fs[x.ch] :
                                       Index(n) <= Index(x.name) => Kind[n] = "short",
         bLoadState' \in {"none", "FIRMWARE", "MODULE"},
         bLoadState' # "none" => bLoadState' = KindLoaded, bLoadState' = "FIRMWARE" => job.ch = 0,
         Find(x), UNCHANGED loc
  PROVE  DownloadInv'
<1> DEFINE n0 == IF x.first THEN NoName ELSE x.name
           r == [Packet("DIR_LIST", PhysAddr, 0) EXCEPT !.ch = x.ch, !.name = n0]
<1>0. TypeOK /\ TypeLoc /\ FlowInv /\ job \in Job
  BY TypeParts DEF DownloadInv, FlowInv
<1>1. GoOn("find") /\ tp' = Send(r) /\ rm' = x
  BY DEF Find
<1>2. x.ch \in Channel /\ n0 \in AnyName /\ PhysAddr = 0
  BY DEF RmType, AnyName, PhysAddr
<1>3. /\ r \in PacketType /\ r.cmd = "DIR_LIST" /\ r.src = 0 /\ r.id = 0
      /\ r.ch = x.ch /\ r.name = n0
  <2> HIDE DEF n0
  <2>1. /\ Packet("DIR_LIST", 0, 0) \in PacketType
        /\ Packet("DIR_LIST", 0, 0).cmd = "DIR_LIST"
        /\ Packet("DIR_LIST", 0, 0).src = 0
        /\ Packet("DIR_LIST", 0, 0).id = 0
    BY PacketFact DEF Command
  <2>2. r = [Packet("DIR_LIST", 0, 0) EXCEPT !.ch = x.ch, !.name = n0]
    BY <1>2
  <2> QED
    BY <1>2, <2>1, <2>2 DEF PacketType, AnyName
<1>4. TypeTp' /\ tp'.st = "put" /\ tp'.req = r
  BY <1>1, <1>3, SendFact DEF TypeTp
<1>5. pc' = "find" /\ job' = job /\ UNCHANGED <<inbox, fs>>
  BY <1>1 DEF GoOn, HostOnly, devVars
<1>6. TypeRm' /\ TypeLoad' /\ TypeLoc'
  BY <1>0, <1>1 DEF TypeRm, TypeLoad, TypeLoc, LoadState
<1>7. TypeOK' /\ TicketInv' /\ AnswerInv' /\ WitnessInv' /\ ResultInv'
  BY <1>1, <1>4, <1>5, <1>6, GoOnFact DEF Label, FileLabel, UpLabel, DownLabel
<1>8. FlowInv'
  BY <1>0, <1>4, <1>5 DEF FlowInv, DownLabel, UpLabel, KindLoaded
<1>9. RequestInv'
  <2> HIDE DEF r
  <2> QED
    BY <1>1, <1>2, <1>3, <1>4, <1>5 DEF RequestInv, Asks
<1>10. LocalInv'
  BY <1>1, <1>5 DEF LocalInv
<1>11. QuietInv' /\ DownInv' /\ UpInv' /\ RunInv'
  BY <1>5 DEF QuietInv, Quiet, Calm, DownInv, UpInv, RunInv
<1>12. SweepInv'
  BY <1>1, <1>5 DEF SweepInv, Swept
<1> QED
  BY <1>7, <1>8, <1>9, <1>10, <1>11, <1>12 DEF DownloadInv

(* DEV_RemoveChannelFiles deletes the file it has found. *)
LEMMA ToDelete ==
  ASSUME DownloadInv, HostOnly, spoiled' \in BOOLEAN, pc = "find", tp.st = "done",
         job.op # "FIND", NEW n \in AnyName, ~Exempt(n), Updating' => Updating /\ inbox = <<>>,
         GoOn("delete"), rm' = [rm EXCEPT !.name = n], UNCHANGED <<loc, bLoadState>>,
         tp' = Send([Packet("FILE_DELETE", now, 0) EXCEPT !.ch = rm.ch, !.name = n])
  PROVE  DownloadInv'
<1> DEFINE r == [Packet("FILE_DELETE", now, 0) EXCEPT !.ch = rm.ch, !.name = n]
<1>0. /\ TypeOK /\ TypeLoc /\ TypeRm /\ TypeLoad /\ TypeClock /\ FlowInv /\ LocalInv /\ SweepInv
      /\ job \in Job
  BY TypeParts DEF DownloadInv, FlowInv
<1>1. rm.ch \in Channel /\ now \in Nat
  BY <1>0 DEF TypeRm, RmType, TypeClock
<1>2. /\ r \in PacketType /\ r.cmd = "FILE_DELETE" /\ r.src = now /\ r.ch = rm.ch /\ r.name = n
  <2>1. /\ Packet("FILE_DELETE", now, 0) \in PacketType
        /\ Packet("FILE_DELETE", now, 0).cmd = "FILE_DELETE"
        /\ Packet("FILE_DELETE", now, 0).src = now
    BY <1>1, PacketFact DEF Command
  <2> QED
    BY <1>1, <2>1 DEF PacketType, AnyName
<1>3. TypeTp' /\ tp'.st = "put" /\ tp'.req = r
  BY <1>2, SendFact DEF TypeTp
<1>4. /\ TypeRm' /\ rm'.ch = rm.ch /\ rm'.last = rm.last /\ rm'.except = rm.except
      /\ rm'.name = n
  BY <1>0 DEF TypeRm, RmType
<1>5. pc' = "delete" /\ job' = job /\ UNCHANGED <<inbox, fs>>
  BY DEF GoOn, HostOnly, devVars
<1>6. TypeLoad' /\ TypeLoc'
  BY <1>0 DEF TypeLoad, TypeLoc
<1>7. TypeOK' /\ TicketInv' /\ AnswerInv' /\ WitnessInv' /\ ResultInv'
  BY <1>2, <1>3, <1>4, <1>5, <1>6, GoOnFact DEF Label, FileLabel, UpLabel, DownLabel
<1>8. FlowInv'
  BY <1>0, <1>3, <1>5 DEF FlowInv, DownLabel, UpLabel, KindLoaded, Executed
<1>9. RequestInv'
  <2> HIDE DEF r
  <2> QED
    BY <1>2, <1>3, <1>4, <1>5 DEF RequestInv
<1>10. LocalInv'
  BY <1>0, <1>4, <1>5 DEF LocalInv, Exempt
<1>11. QuietInv' /\ DownInv' /\ UpInv' /\ RunInv'
  BY <1>5 DEF QuietInv, Quiet, Calm, DownInv, UpInv, RunInv
<1>12. SweepInv'
  BY <1>0, <1>4, <1>5 DEF SweepInv, Swept
<1> QED
  BY <1>7, <1>8, <1>9, <1>10, <1>11, <1>12 DEF DownloadInv

(* DEV_CheckForDownload asks for the checksum of the file. *)
LEMMA ToMd5 ==
  ASSUME DownloadInv, HostOnly, UNCHANGED spoiled, pc = "start", job.op \in {"MODULE", "STARTUP"},
         job.op = "MODULE" => Kind[job.name] = "NXO",
         GoOn("md5"), UNCHANGED <<loc, rm, bLoadState>>,
         tp' = Send([Packet("GET_MD5", now, 0) EXCEPT !.ch = job.ch, !.name = job.name])
  PROVE  DownloadInv'
<1> DEFINE r == [Packet("GET_MD5", now, 0) EXCEPT !.ch = job.ch, !.name = job.name]
<1>0. /\ TypeOK /\ TypeLoc /\ TypeRm /\ TypeLoad /\ TypeClock /\ TypeHist /\ FlowInv
      /\ job \in Job /\ tp.st = "idle"
  BY TypeParts DEF DownloadInv, FlowInv
<1>1. job.ch \in Channel /\ job.name \in Name /\ now \in Nat
  BY <1>0, JobFact DEF TypeClock
<1>2. /\ r \in PacketType /\ r.cmd = "GET_MD5" /\ r.src = now /\ r.ch = job.ch
      /\ r.name = job.name
  <2>1. /\ Packet("GET_MD5", now, 0) \in PacketType
        /\ Packet("GET_MD5", now, 0).cmd = "GET_MD5"
        /\ Packet("GET_MD5", now, 0).src = now
    BY <1>1, PacketFact DEF Command
  <2> QED
    BY <1>1, <2>1 DEF PacketType
<1>3. TypeTp' /\ tp'.st = "put" /\ tp'.req = r
  BY <1>2, SendFact DEF TypeTp
<1>4. pc' = "md5" /\ job' = job
  BY DEF GoOn
<1>5. TypeLoad' /\ TypeLoc' /\ TypeRm' /\ spoiled' \in BOOLEAN
  BY <1>0 DEF TypeLoad, TypeLoc, TypeRm, TypeHist
<1>6. TypeOK' /\ TicketInv' /\ AnswerInv' /\ WitnessInv' /\ ResultInv'
  BY <1>0, <1>2, <1>3, <1>4, <1>5, GoOnFact DEF Label, FileLabel, UpLabel, DownLabel
<1>7. FlowInv'
  BY <1>0, <1>3, <1>4 DEF FlowInv, DownLabel, UpLabel, KindLoaded, Executed
<1>8. RequestInv'
  <2> HIDE DEF r
  <2> QED
    BY <1>2, <1>3, <1>4 DEF RequestInv
<1>9. LocalInv' /\ QuietInv' /\ DownInv' /\ UpInv' /\ RunInv' /\ SweepInv'
  BY <1>4 DEF LocalInv, QuietInv, Quiet, DownInv, UpInv, RunInv, SweepInv
<1> QED
  BY <1>6, <1>7, <1>8, <1>9 DEF DownloadInv

(* cifXStartModule starts the module, whose file is in place. *)
LEMMA ToRun ==
  ASSUME DownloadInv, HostOnly, UNCHANGED spoiled, pc \in {"dlData", "md5"}, tp.st = "done",
         job.op = "MODULE", InPlace, inbox = <<>>,
         NEW load \in LoadState, load = "MODULE+" => xfer.dir # "down",
         load # "none" => load \in {KindLoaded, Executed(KindLoaded)}, RunModule(load)
  PROVE  DownloadInv'
<1> DEFINE r == [Packet("RUN_MODULE", PhysAddr, 0) EXCEPT !.ch = job.ch, !.name = job.name]
<1>0. /\ TypeOK /\ TypeLoc /\ TypeRm /\ TypeLoad /\ TypeHist /\ FlowInv /\ job \in Job
  BY TypeParts DEF DownloadInv, FlowInv
<1>1. job.ch \in Channel /\ job.name \in Name /\ PhysAddr = 0
  BY <1>0, JobFact DEF PhysAddr
<1>2. GoOn("run") /\ tp' = Send(r) /\ bLoadState' = load /\ UNCHANGED <<loc, rm>>
  BY DEF RunModule
<1>3. r \in PacketType /\ r.cmd = "RUN_MODULE" /\ r.src = 0
  <2>1. /\ Packet("RUN_MODULE", 0, 0) \in PacketType
        /\ Packet("RUN_MODULE", 0, 0).cmd = "RUN_MODULE"
        /\ Packet("RUN_MODULE", 0, 0).src = 0
    BY PacketFact DEF Command
  <2>2. r = [Packet("RUN_MODULE", 0, 0) EXCEPT !.ch = job.ch, !.name = job.name]
    BY <1>1
  <2> QED
    BY <1>1, <2>1, <2>2 DEF PacketType
<1>4. TypeTp' /\ tp'.st = "put" /\ tp'.req = r
  BY <1>2, <1>3, SendFact DEF TypeTp
<1>5. pc' = "run" /\ job' = job /\ UNCHANGED <<inbox, fs, xfer>>
  BY <1>2 DEF GoOn, HostOnly, devVars
<1>6. TypeLoad' /\ TypeLoc' /\ TypeRm' /\ spoiled' \in BOOLEAN
  BY <1>0, <1>2 DEF TypeLoad, TypeLoc, TypeRm, TypeHist
<1>7. TypeOK' /\ TicketInv' /\ AnswerInv' /\ WitnessInv' /\ ResultInv'
  BY <1>0, <1>2, <1>3, <1>4, <1>5, <1>6, GoOnFact DEF Label, FileLabel, UpLabel, DownLabel
<1>8. FlowInv'
  BY <1>0, <1>2, <1>4, <1>5 DEF FlowInv, DownLabel, UpLabel, KindLoaded, Executed
<1>9. RequestInv'
  <2> HIDE DEF r
  <2> QED
    BY <1>1, <1>3, <1>4, <1>5 DEF RequestInv
<1>10. LocalInv' /\ QuietInv' /\ DownInv' /\ UpInv' /\ SweepInv'
  BY <1>5 DEF LocalInv, QuietInv, Quiet, Calm, DownInv, UpInv, SweepInv
<1>11. RunInv'
  BY <1>2, <1>5 DEF RunInv, InPlace, File, Has
<1> QED
  BY <1>7, <1>8, <1>9, <1>10, <1>11 DEF DownloadInv

(* The started module runs; its identification is read. *)
LEMMA ToIdent ==
  ASSUME DownloadInv, HostOnly, UNCHANGED spoiled, pc = "run", tp.st = "done",
         GoOn("ident"), tp' = Idle, UNCHANGED <<loc, rm, bLoadState>>
  PROVE  DownloadInv'
<1>0. /\ TypeOK /\ TypeLoc /\ TypeRm /\ TypeLoad /\ TypeHist /\ FlowInv /\ RequestInv /\ QuietInv
      /\ RunInv
  BY TypeParts DEF DownloadInv
<1>1. TypeTp' /\ tp'.st = "idle"
  BY IdleFact DEF TypeTp
<1>2. pc' = "ident" /\ job' = job /\ UNCHANGED <<inbox, fs, xfer>>
  BY DEF GoOn, HostOnly, devVars
<1>3. TypeLoad' /\ TypeLoc' /\ TypeRm' /\ spoiled' \in BOOLEAN
  BY <1>0 DEF TypeLoad, TypeLoc, TypeRm, TypeHist
<1>4. TypeOK' /\ TicketInv' /\ AnswerInv' /\ WitnessInv' /\ ResultInv'
  BY <1>0, <1>1, <1>2, <1>3, GoOnFact DEF Label, FileLabel, UpLabel, DownLabel
<1>5. FlowInv'
  BY <1>0, <1>1, <1>2 DEF FlowInv, DownLabel, UpLabel, KindLoaded, Executed
<1>6. RequestInv' /\ LocalInv' /\ DownInv' /\ UpInv' /\ SweepInv'
  BY <1>2 DEF RequestInv, LocalInv, DownInv, UpInv, SweepInv
<1>7. QuietInv'
  <2>1. inbox = <<tp.req>> => Head(inbox).cmd = "RUN_MODULE"
    BY <1>0 DEF RequestInv
  <2> QED
    BY <1>0, <1>2, <2>1 DEF QuietInv, Quiet, Calm
<1>8. RunInv'
  BY <1>0, <1>2 DEF RunInv, InPlace, File, Has
<1> QED
  BY <1>4, <1>5, <1>6, <1>7, <1>8 DEF DownloadInv

-----------------------------------------------------------------------------
(* The end and the beginning of a call.                                     *)

(* A call returns what the state of the device bears out. *)
LEMMA ToIdle ==
  ASSUME DownloadInv, pc # "idle", tp.st \in {"done", "idle"}, TypeBound', spoiled' \in BOOLEAN,
         UNCHANGED <<now, typeVars, devVars, lateDir>>,
         NEW e \in Result, NEW abort \in Result \cup {"none"}, NEW data \in Units, NEW len \in Nat,
         NEW load \in LoadState, Return(e, abort, data, len, load),
         Writes(job) /\ Succeeds(e, load) => Calm,
         job.op \in {"UPLOAD", "UPLOAD_FW"} /\ e = "OK" =>
           Has(job.ch, job.name) /\ File = data /\ len = Len(data),
         (e = "OK" \/ abort = "OK") /\ Direction(res') # "neither" =>
           Calm /\ xfer.dir # Direction(res'),
         load = "FIRMWARE+" /\ e = "OK" /\ eDeviceType = "FLASH" /\ ~spoiled' /\ ~lateDir => Alone
  PROVE  DownloadInv'
<1>0. /\ TypeOK /\ TypeLoc /\ TypeRm /\ TypeJob /\ TypeHist /\ TypeXfer /\ TicketInv
      /\ FlowInv /\ WitnessInv /\ job \in Job
  BY TypeParts DEF DownloadInv, FlowInv
<1>1. /\ pc' = "idle" /\ tp' = Idle /\ job' = job /\ loc' = loc /\ rm' = rm /\ bLoadState' = load
      /\ res' = [op |-> job.op, ch |-> job.ch, name |-> job.name, lRet |-> e, abort |-> abort,
                 data |-> data, len |-> len, load |-> load]
      /\ lost' = IF Succeeds(e, load) THEN lost ELSE lost \cup {AsRequest(job)}
  BY DEF Return
<1>2. UNCHANGED <<now, eDeviceType, fModuleLoad, inbox, outbox, fs, xfer, running, lateDir>>
  BY DEF typeVars, devVars
<1>3. TypeTp' /\ tp'.st = "idle"
  BY <1>1, IdleFact DEF TypeTp
<1>4. /\ res'.op = job.op /\ res'.ch = job.ch /\ res'.name = job.name /\ res'.lRet = e
      /\ res'.abort = abort /\ res'.data = data /\ res'.len = len /\ res'.load = load
  BY <1>1
<1>5. TypeOK'
  <2>1. TypePc' /\ TypeJob' /\ TypeLoc' /\ TypeRm' /\ TypeLoad'
    BY <1>0, <1>1 DEF TypePc, Label, TypeJob, TypeLoc, TypeRm, TypeLoad
  <2>2. TypeRes'
    BY <1>0, <1>1 DEF TypeRes, ResType, TypeJob, JobType
  <2>3. /\ TypeClock' /\ TypeDevice' /\ TypeIn' /\ TypeOut' /\ TypeFs' /\ TypeXfer'
        /\ TypeRunning' /\ TypeHist'
    BY <1>0, <1>2, TypeParts DEF TypeClock, TypeDevice, TypeIn, TypeOut, TypeFs, TypeXfer,
       TypeRunning, TypeHist
  <2> QED
    BY <1>3, <2>1, <2>2, <2>3, TypeNext
<1>6. TicketInv' /\ AnswerInv'
  BY <1>0, <1>1, <1>2, <1>3, NextTicket DEF FileLabel, DownLabel, UpLabel, TypeLoc
<1>7. FlowInv'
  BY <1>1, <1>3 DEF FlowInv, DownLabel, UpLabel
<1>8. RequestInv' /\ LocalInv' /\ DownInv' /\ UpInv' /\ RunInv' /\ SweepInv'
  BY <1>1 DEF RequestInv, LocalInv, DownInv, UpInv, RunInv, SweepInv
<1>9. QuietInv'
  BY <1>1, <1>2, <1>4 DEF QuietInv, Quiet, Settled, Calm
<1>10. WitnessInv'
  <2>1. \A q, r : Backs(q, r)' <=> Backs(q, r)
    BY <1>2 DEF Backs
  <2>2. lost \subseteq lost' /\ Open = {AsRequest(job)} /\ Open' = {}
    BY <1>1 DEF Open
  <2>3. CASE Succeeds(e, load) /\ Writes(job)
    BY <1>2, <2>3 DEF Calm, WitnessInv
  <2>4. CASE ~Succeeds(e, load)
    BY <1>0, <1>1, <1>2, <2>1, <2>2, <2>4 DEF WitnessInv
  <2>5. CASE Succeeds(e, load) /\ ~Writes(job)
    <3>1. AsRequest(job).kind = "read" /\ AsRequest(job).op = job.op
      BY <2>5 DEF AsRequest
    <3>2. job.op \notin {"MODULE", "STARTUP"}
      BY <2>5 DEF Writes
    <3>3. \A r : ~Backs(AsRequest(job), r)
      BY <3>1 DEF Backs
    <3>4. \A c, n : ~Removes(AsRequest(job), c, n)
      BY <3>1, <3>2 DEF Removes
    <3> QED
      BY <1>0, <1>2, <2>1, <2>2, <3>3, <3>4 DEF WitnessInv
  <2> QED
    BY <2>3, <2>4, <2>5
<1>11. UploadHonest'
  BY <1>1, <1>2, <1>4 DEF UploadHonest, Has, File
<1>12. TransferClosed'
  <2>1. xfer.dir # "neither"
    BY <1>0 DEF TypeXfer, XferType
  <2> QED
    BY <1>2, <1>4, <2>1 DEF TransferClosed
<1>13. FirmwareAlone'
  BY <1>1, <1>2, <1>4 DEF FirmwareAlone, Alone
<1> QED
  BY <1>5, <1>6, <1>7, <1>8, <1>9, <1>10, <1>11, <1>12, <1>13 DEF DownloadInv, ResultInv

(* A call begins. *)
LEMMA CallStep ==
  ASSUME DownloadInv, Call
  PROVE  DownloadInv'
<1>0. TypeOK /\ TypeHist /\ TypeTp /\ TicketInv /\ FlowInv /\ WitnessInv /\ pc = "idle"
      /\ tp.st = "idle"
  BY TypeParts DEF DownloadInv, FlowInv, Call
<1>1. /\ job' \in Job /\ pc' = "start" /\ res' = NoRes /\ spoiled' = FALSE
      /\ bLoadState' = "none" /\ loc' = NoLoc /\ rm' = NoRm /\ tp' = tp
      /\ calls' = calls + 1
      /\ UNCHANGED <<now, eDeviceType, fModuleLoad, inbox, outbox, fs, xfer, running, faults,
                     foreign, lateDir, lost>>
  BY DEF Call, typeVars, devVars
<1>2. TypeOK'
  <2>1. TypePc' /\ TypeJob' /\ TypeLoad' /\ TypeTp' /\ TypeHist'
    BY <1>0, <1>1, JobFact DEF TypePc, Label, TypeJob, TypeLoad, LoadState, TypeTp, TypeHist
  <2>2. TypeLoc' /\ TypeRm' /\ TypeRes'
    BY <1>1, ConstFact DEF TypeLoc, LocType, NoLoc, Ext, Result, TypeRm, RmType, NoRm, AnyName,
       TypeRes, ResType, NoRes, AnyOp, LoadState
  <2>3. /\ TypeClock' /\ TypeDevice' /\ TypeIn' /\ TypeOut' /\ TypeFs' /\ TypeXfer'
        /\ TypeRunning' /\ TypeBound'
    BY <1>0, <1>1, TypeParts DEF TypeClock, TypeDevice, TypeIn, TypeOut, TypeFs, TypeXfer,
       TypeRunning, TypeBound
  <2> QED
    BY <2>1, <2>2, <2>3, TypeNext
<1>3. TicketInv' /\ AnswerInv'
  <2>1. loc' \in LocType
    BY <1>1, ConstFact DEF LocType, NoLoc, Ext, Result
  <2> QED
    BY <1>0, <1>1, <2>1, NextTicket DEF FileLabel, DownLabel, UpLabel
<1>4. FlowInv'
  BY <1>0, <1>1 DEF FlowInv, DownLabel, UpLabel
<1>5. RequestInv' /\ LocalInv' /\ QuietInv' /\ DownInv' /\ UpInv' /\ RunInv' /\ SweepInv'
  BY <1>1 DEF RequestInv, LocalInv, QuietInv, Quiet, DownInv, UpInv, RunInv, SweepInv
<1>6. WitnessInv'
  <2>1. \A q, r : Backs(q, r)' <=> Backs(q, r)
    BY <1>1 DEF Backs
  <2>2. Open = {} /\ lost' = lost
    BY <1>0, <1>1 DEF Open
  <2> QED
    BY <1>0, <1>1, <2>1, <2>2 DEF WitnessInv
<1>7. ResultInv'
  BY <1>1 DEF ResultInv, UploadHonest, TransferClosed, FirmwareAlone
<1> QED
  BY <1>2, <1>3, <1>4, <1>5, <1>6, <1>7 DEF DownloadInv


-----------------------------------------------------------------------------
(* The steps of the thread.                                                 *)

(* What a call returns when no file was transferred says nothing about the  *)
(* device.                                                                  *)
LEMMA ToPlainEnd ==
  ASSUME DownloadInv, HostOnly, spoiled' \in BOOLEAN, pc # "idle", tp.st \in {"done", "idle"},
         NEW e \in Result \ {"ALREADY_EXISTS"}, NEW load \in LoadState,
         e = "OK" => load = "none" /\ job.op \in {"MODULE", "STARTUP", "FIND"}, Finish(e, load)
  PROVE  DownloadInv'
<1>1. Return(e, "none", <<>>, 0, load)
  BY DEF Finish
<1>2. TypeBound' /\ UNCHANGED <<now, typeVars, devVars, lateDir>>
  BY HostOnlyTypes DEF DownloadInv, HostOnly
<1>3. ~(Writes(job) /\ Succeeds(e, load))
  BY DEF Writes, Succeeds
<1>4. res'.op = job.op /\ res'.load = load
  BY <1>1 DEF Return
<1>5. e = "OK" => Direction(res') = "neither"
  BY <1>4 DEF Direction
<1>6. ~(job.op \in {"UPLOAD", "UPLOAD_FW"} /\ e = "OK") /\ ~(load = "FIRMWARE+" /\ e = "OK")
  OBVIOUS
<1> QED
  BY <1>1, <1>2, <1>3, <1>5, <1>6, ConstFact, ToIdle

(* The answer the thread has taken is the one to its request, and what it   *)
(* says still holds.                                                        *)
LEMMA AnswerFact ==
  ASSUME DownloadInv, Tracked, tp.st = "done", tp.lRet = "OK"
  PROVE  inbox = <<>> /\ Content(tp.ans)
  BY DEF DownloadInv, TicketInv, AnswerInv

(* The API function checks its parameters. *)
LEMMA StartStep ==
  ASSUME DownloadInv, Start
  PROVE  DownloadInv'
<1>0. /\ TypeOK /\ TypeHist /\ FlowInv /\ pc = "start" /\ job \in Job /\ bLoadState = "none"
      /\ tp.st = "idle" /\ HostOnly /\ spoiled' = spoiled /\ spoiled' \in BOOLEAN
  BY TypeParts DEF DownloadInv, FlowInv, Start, TypeHist
<1>1. bLoadState \in LoadState
  BY <1>0 DEF LoadState
<1>2. ASSUME NEW e \in Result \ {"OK", "ALREADY_EXISTS"}, Fail(e) PROVE DownloadInv'
  BY <1>0, <1>1, <1>2, ToPlainEnd DEF Fail
<1>3. ASSUME BeginDownload, UNCHANGED <<rm, bLoadState>>,
             job.op \in {"FILE", "FIRMWARE", "MODULE", "STARTUP"},
             job.op = "MODULE" => Kind[job.name] = "NXO"
      PROVE  DownloadInv'
  <2>1. CASE job.data = <<>>
    <3>1. Fail("INVALID_PARAMETER")
      BY <1>3, <2>1 DEF BeginDownload
    <3> QED
      BY <1>2, <3>1 DEF Result
  <2>2. CASE job.data # <<>>
    <3>1. ~Updating' /\ bLoadState # "FIRMWARE"
      BY <1>0, <1>3 DEF Updating
    <3> QED
      BY <1>0, <1>3, <2>2, <3>1, ToDownload
  <2> QED
    BY <2>1, <2>2
<1>4. CASE job.op \in {"FIRMWARE", "UPLOAD_FW"} /\ FileTypeError # "OK" /\ Fail(FileTypeError)
  <2>1. FileTypeError \in Result \ {"OK", "ALREADY_EXISTS"}
    BY <1>4 DEF FileTypeError, Result
  <2> QED
    BY <1>2, <1>4, <2>1
<1>5. CASE /\ job.op = "FILE" \/ (job.op = "FIRMWARE" /\ FileTypeError = "OK")
           /\ BeginDownload /\ UNCHANGED <<rm, bLoadState>>
  BY <1>3, <1>5
<1>6. CASE /\ job.op = "UPLOAD" \/ (job.op = "UPLOAD_FW" /\ FileTypeError = "OK")
           /\ BeginUpload /\ UNCHANGED <<rm, bLoadState>>
  BY <1>0, <1>6, ToUpload
<1>7. CASE job.op = "MODULE" /\ ModuleError # "OK" /\ Fail(ModuleError)
  <2>1. ModuleError \in Result \ {"OK", "ALREADY_EXISTS"}
    BY <1>7 DEF ModuleError, Result
  <2> QED
    BY <1>2, <1>7, <2>1
<1>8. CASE /\ job.op = "STARTUP" \/ (job.op = "MODULE" /\ ModuleError = "OK")
           /\ ProcessFWDownload
  <2>1. job.op \in {"MODULE", "STARTUP"} /\ (job.op = "MODULE" => Kind[job.name] = "NXO")
    BY <1>8 DEF ModuleError
  <2>2. CASE Finish("OK", "none")
    BY <1>0, <2>1, <2>2, ToPlainEnd DEF Result, LoadState
  <2>3. CASE BeginDownload /\ UNCHANGED <<rm, bLoadState>>
    BY <1>3, <2>1, <2>3
  <2>4. CASE /\ GoOn("md5") /\ UNCHANGED <<loc, rm, bLoadState>>
             /\ tp' = Send([Packet("GET_MD5", now, 0) EXCEPT !.ch = job.ch, !.name = job.name])
    BY <1>0, <2>1, <2>4, ToMd5
  <2> QED
    BY <1>8, <2>2, <2>3, <2>4 DEF ProcessFWDownload
<1>9. CASE job.op = "FIND" /\ BeginRemoval(job.ch, job.ch, "none") /\ UNCHANGED <<loc, bLoadState>>
  <2> DEFINE x == [NoRm EXCEPT !.ch = job.ch, !.last = job.ch, !.except = "none"]
  <2>1. job.ch \in Channel /\ job.ch \in Nat
    BY <1>0, JobFact, ConstFact
  <2>2. x \in RmType /\ x.ch = job.ch /\ x.last = job.ch /\ x.except = "none"
    BY <2>1, ConstFact DEF RmType, NoRm, AnyName
  <2>3. Find(x)
    BY <1>9 DEF BeginRemoval
  <2>4. ~Updating' /\ bLoadState' = "none" /\ x.ch <= x.last
    BY <1>0, <1>9, <2>1, <2>2 DEF Updating
  <2> HIDE DEF x
  <2> QED
    BY <1>0, <1>9, <2>2, <2>3, <2>4, ToFind
<1> QED
  BY <1>4, <1>5, <1>6, <1>7, <1>8, <1>9 DEF Start

(* The device has answered the announcement of a file. *)
LEMMA DownloadReqStep ==
  ASSUME DownloadInv, DownloadReqAnswer
  PROVE  DownloadInv'
<1>0. /\ TypeOK /\ TypeTp /\ TypeLoc /\ FlowInv /\ LocalInv /\ pc = "dlReq" /\ tp.st = "done"
      /\ HostOnly /\ job \in Job /\ UNCHANGED <<rm, bLoadState, spoiled>>
  BY TypeParts DEF DownloadInv, FlowInv, DownloadReqAnswer
<1>1. CASE Status # "OK" /\ AbortDownload(Status)
  <2>1. Status \in Result \ {"OK", "ALREADY_EXISTS"}
    BY <1>0, <1>1, StatusFact DEF Result
  <2> QED
    BY <1>0, <1>1, <2>1, ToDownAbort
<1>2. CASE AbortDownload("INVALID_ACCESS_SIZE")
  BY <1>0, <1>2, ToDownAbort DEF Result
<1> DEFINE max == Least(loc.max, tp.ans.max)
           one == Len(job.data) <= max
           l == [loc EXCEPT !.max = max, !.send = IF one THEN Len(job.data) ELSE max,
                            !.seq = IF one THEN "NONE" ELSE "FIRST"]
<1>3. CASE Status = "OK" /\ SendBlock(l)
  <2>1. Content(tp.ans) /\ tp.ans.sta = "OK" /\ inbox = <<>>
    <3>1. Tracked
      BY <1>0 DEF Tracked
    <3> QED
      BY <1>0, <1>3, <3>1, StatusFact, AnswerFact
  <2>2. DownOpen
    BY <1>0, <2>1 DEF Content
  <2>3. max \in Nat /\ Len(job.data) \in Nat
    <3>1. loc.max \in Nat
      BY <1>0 DEF TypeLoc, LocType
    <3>2. tp.ans.max \in Nat
      BY <1>0 DEF TypeTp, TpType, PacketType
    <3>3. Len(job.data) \in Nat
      BY <1>0, JobFact DEF Units
    <3> QED
      BY <3>1, <3>2, <3>3 DEF Least
  <2>4. l \in LocType
    BY <1>0, <2>3 DEF TypeLoc, LocType, Ext
  <2>5. /\ l.src = loc.src /\ l.id = loc.id /\ l.done = 0
        /\ l.send = IF one THEN Len(job.data) ELSE max
    BY <1>0 DEF TypeLoc, LocType, LocalInv
  <2>6. l.done + l.send <= Len(job.data)
    BY <2>3, <2>5
  <2> HIDE DEF l
  <2> QED
    BY <1>0, <1>3, <2>1, <2>2, <2>4, <2>5, <2>6, ToBlock
<1> QED
  BY <1>1, <1>2, <1>3 DEF DownloadReqAnswer

(* The device has answered a block: the next one, or the end of the call. *)
LEMMA DownloadDataStep ==
  ASSUME DownloadInv, DownloadDataAnswer
  PROVE  DownloadInv'
<1>0. /\ TypeOK /\ TypeTp /\ TypeLoc /\ TypeHist /\ TypeLoad /\ FlowInv /\ LocalInv /\ SweepInv
      /\ pc = "dlData" /\ tp.st = "done" /\ HostOnly /\ job \in Job /\ spoiled' = spoiled
      /\ spoiled' \in BOOLEAN
  BY TypeParts DEF DownloadInv, FlowInv, DownloadDataAnswer, TypeHist
<1>1. CASE Status # "OK" /\ AbortDownload(Status) /\ UNCHANGED <<rm, bLoadState>>
  <2>1. Status \in Result \ {"OK", "ALREADY_EXISTS"}
    BY <1>0, <1>1, StatusFact DEF Result
  <2> QED
    BY <1>0, <1>1, <2>1, ToDownAbort
<1>2. ASSUME Status = "OK" PROVE Content(tp.ans) /\ tp.ans.sta = "OK" /\ inbox = <<>>
  <2>1. Tracked
    BY <1>0 DEF Tracked
  <2> QED
    BY <1>0, <1>2, <2>1, StatusFact, AnswerFact
<1> DEFINE done == loc.done + loc.send
           last == Len(job.data) <= loc.send + done
           l == [loc EXCEPT !.done = done,
                            !.send = IF last THEN Len(job.data) - done ELSE loc.send,
                            !.seq = IF last THEN "LAST" ELSE "MIDDLE"]
<1>3. CASE Status = "OK" /\ loc.seq \notin {"LAST", "NONE"} /\ SendBlock(l)
           /\ UNCHANGED <<rm, bLoadState>>
  <2>1. DownOpen /\ inbox = <<>>
    BY <1>0, <1>2, <1>3 DEF Content
  <2>2. /\ loc.done \in Nat /\ loc.send \in Nat /\ Len(job.data) \in Nat
        /\ loc.done + loc.send <= Len(job.data)
    BY <1>0, JobFact DEF TypeLoc, LocType, LocalInv, Units
  <2>3. done \in Nat /\ (IF last THEN Len(job.data) - done ELSE loc.send) \in Nat
    BY <2>2
  <2>4. l \in LocType
    BY <1>0, <2>3 DEF TypeLoc, LocType, Ext
  <2>5. /\ l.src = loc.src /\ l.id = loc.id /\ l.done = done
        /\ l.send = IF last THEN Len(job.data) - done ELSE loc.send
    BY <1>0 DEF TypeLoc, LocType
  <2>6. l.done + l.send <= Len(job.data)
    BY <2>2, <2>5
  <2> HIDE DEF l
  <2> QED
    BY <1>0, <1>3, <2>1, <2>4, <2>5, <2>6, ToBlock
<1>4. ASSUME Status = "OK", loc.seq \in {"LAST", "NONE"}
      PROVE  InPlace /\ xfer.dir = "none" /\ inbox = <<>>
  BY <1>0, <1>2, <1>4 DEF Content
<1>5. /\ LoadAfter \in LoadState
      /\ LoadAfter # "none" => LoadAfter \in {KindLoaded, Executed(KindLoaded)}
      /\ LoadAfter = "FIRMWARE+" /\ eDeviceType = "FLASH" => bLoadState = "FIRMWARE"
  <2>1. KindLoaded \in {"FIRMWARE", "MODULE", "none"}
    BY DEF KindLoaded
  <2>2. bLoadState \in {"none", "FIRMWARE", "MODULE"}
    BY <1>0 DEF FlowInv
  <2>3. bLoadState # "none" => bLoadState \in {KindLoaded, Executed(KindLoaded)}
    BY <1>0 DEF FlowInv
  <2> QED
    BY <2>1, <2>2, <2>3 DEF LoadAfter, Executed, LoadState
<1>6. CASE /\ Status = "OK" /\ loc.seq \in {"LAST", "NONE"} /\ job.op = "MODULE"
           /\ RunModule(LoadAfter)
  BY <1>0, <1>4, <1>5, <1>6, ToRun
<1>7. CASE /\ Status = "OK" /\ loc.seq \in {"LAST", "NONE"}
           /\ Return("OK", "none", <<>>, 0, LoadAfter)
  <2>1. TypeBound' /\ UNCHANGED <<now, typeVars, devVars, lateDir>>
    BY <1>0, HostOnlyTypes DEF HostOnly
  <2>2. job.op \in {"FILE", "FIRMWARE", "MODULE", "STARTUP"}
    BY <1>0 DEF FlowInv, DownLabel
  <2>3. xfer.dir # Direction(res') /\ Calm
    BY <1>4, <1>7 DEF Direction, Calm
  <2>4. LoadAfter = "FIRMWARE+" /\ eDeviceType = "FLASH" /\ ~spoiled' /\ ~lateDir => Alone
    BY <1>0, <1>5 DEF Updating, SweepInv
  <2>5. "OK" \in Result
    BY DEF Result
  <2> HIDE DEF LoadAfter
  <2> QED
    BY <1>0, <1>5, <1>7, <2>1, <2>2, <2>3, <2>4, <2>5, ConstFact, ToIdle
<1> QED
  BY <1>1, <1>3, <1>6, <1>7 DEF DownloadDataAnswer

(* The abort of a download is over. *)
LEMMA DownloadAbortStep ==
  ASSUME DownloadInv, DownloadAbortAnswer
  PROVE  DownloadInv'
<1>0. /\ TypeOK /\ TypeTp /\ TypeLoc /\ TypeHist /\ TypeLoad /\ FlowInv /\ LocalInv
      /\ pc = "dlAbort" /\ tp.st = "done" /\ HostOnly /\ spoiled' = spoiled /\ spoiled' \in BOOLEAN
      /\ Return(loc.lRet, Status, <<>>, 0, bLoadState)
  BY TypeParts DEF DownloadInv, DownloadAbortAnswer, TypeHist
<1>1. TypeBound' /\ UNCHANGED <<now, typeVars, devVars, lateDir>>
  BY <1>0, HostOnlyTypes DEF HostOnly
<1>2. /\ loc.lRet \in Result /\ loc.lRet \notin {"OK", "ALREADY_EXISTS"}
      /\ bLoadState \in LoadState
  BY <1>0 DEF TypeLoc, LocType, LocalInv, TypeLoad
<1>3. Status \in Result
  BY <1>0, StatusFact DEF Result
<1>4. Status = "OK" => Calm /\ xfer.dir # "down"
  <2>1. Tracked
    BY <1>0 DEF Tracked
  <2> QED
    BY <1>0, <2>1, StatusFact, AnswerFact DEF Content, Calm
<1>5. job.op \in {"FILE", "FIRMWARE", "MODULE", "STARTUP"}
  BY <1>0 DEF FlowInv, DownLabel
<1>6. Direction(res') \in {"down", "neither"}
  <2>1. res'.op = job.op
    BY <1>0 DEF Return
  <2> QED
    BY <1>5, <2>1 DEF Direction
<1>7. ~Succeeds(loc.lRet, bLoadState)
  BY <1>2 DEF Succeeds
<1> QED
  BY <1>0, <1>1, <1>2, <1>3, <1>4, <1>5, <1>6, <1>7, ConstFact, ToIdle

(* The device has answered the request for a file. *)
LEMMA UploadReqStep ==
  ASSUME DownloadInv, UploadReqAnswer
  PROVE  DownloadInv'
<1>0. /\ TypeOK /\ TypeTp /\ TypeLoc /\ TypeFs /\ FlowInv /\ LocalInv /\ pc = "ulReq"
      /\ tp.st = "done" /\ HostOnly /\ job \in Job /\ UNCHANGED <<rm, bLoadState, spoiled>>
  BY TypeParts DEF DownloadInv, FlowInv, UploadReqAnswer
<1>1. Status \in Result
  BY <1>0, StatusFact DEF Result
<1>2. ASSUME Status = "OK"
      PROVE  /\ inbox = <<>> /\ Has(job.ch, job.name) /\ tp.ans.len = Len(File)
             /\ tp.ans.max # 0 /\ UpOpen(0, Least(HostBlock, tp.ans.max))
             /\ File \in Units
  <2>1. Tracked
    BY <1>0 DEF Tracked
  <2>2. Content(tp.ans) /\ tp.ans.sta = "OK" /\ inbox = <<>>
    BY <1>0, <1>2, <2>1, StatusFact, AnswerFact
  <2>3. Has(job.ch, job.name) /\ job.ch \in Channel
    BY <1>0, <2>2, JobFact DEF Content
  <2>4. File \in Units
    BY <1>0, <2>3 DEF TypeFs, Has, File
  <2> QED
    BY <1>0, <2>2, <2>4 DEF Content
<1>3. CASE (Status # "OK" \/ tp.ans.len = 0) /\ AbortUpload(Status, 0)
  <2>1. ASSUME Status = "OK"
        PROVE  Has(job.ch, job.name) /\ File = <<>> /\ loc.data = <<>> /\ inbox = <<>>
    BY <1>0, <1>2, <1>3, <2>1 DEF LocalInv, Units
  <2> QED
    BY <1>0, <1>1, <1>3, <2>1, ToUpAbort
<1>4. CASE AbortUpload("INVALID_BUFFERSIZE", job.buf)
  BY <1>0, <1>4, JobFact, ToUpAbort DEF Result
<1> DEFINE max == Least(loc.max, tp.ans.max)
           l == [loc EXCEPT !.max = max, !.send = tp.ans.len, !.len = 0,
                            !.seq = IF tp.ans.len <= max THEN "NONE" ELSE "FIRST"]
<1>5. CASE Status = "OK" /\ tp.ans.len # 0 /\ AskBlock(l)
  <2>1. loc.max \in Nat \ {0} /\ loc.max = HostBlock /\ loc.data = <<>>
    BY <1>0, ConstFact DEF LocalInv
  <2>2. tp.ans.max \in Nat /\ tp.ans.len \in Nat
    BY <1>0 DEF TypeTp, TpType, PacketType
  <2>3. max \in Nat \ {0} /\ UpOpen(0, max)
    BY <1>2, <1>5, <2>1, <2>2 DEF Least
  <2>4. l \in LocType
    BY <1>0, <2>2, <2>3 DEF TypeLoc, LocType, Ext
  <2>5. /\ l.src = loc.src /\ l.id = loc.id /\ l.max = max /\ l.send = tp.ans.len
        /\ l.len = 0 /\ l.data = <<>> /\ l.seq = IF tp.ans.len <= max THEN "NONE" ELSE "FIRST"
    BY <1>0, <2>1 DEF TypeLoc, LocType
  <2>6. Len(l.data) = 0 /\ l.data = SubSeq(File, 1, Len(l.data))
    <3>1. Len(File) \in Nat /\ Len(l.data) = 0
      BY <1>2, <1>5, <2>5 DEF Units
    <3>2. Len(SubSeq(File, 1, 0)) = 0 /\ SubSeq(File, 1, 0) \in Units
      BY <1>2, <1>5, <3>1, PrefixFact
    <3>3. SubSeq(File, 1, 0) = <<>>
      BY <3>2 DEF Units
    <3> QED
      BY <2>5, <3>1, <3>3
  <2>7. /\ Len(l.data) + l.send = Len(File) /\ l.send # 0 /\ l.max # 0 /\ l.len = Len(l.data)
        /\ l.seq \in {"NONE", "LAST"} <=> l.send <= l.max
        /\ UpOpen(Len(l.data), l.max)
    BY <1>2, <1>5, <2>2, <2>3, <2>5, <2>6
  <2> HIDE DEF l
  <2> QED
    BY <1>0, <1>2, <1>5, <2>4, <2>5, <2>6, <2>7, ToAsk
<1> QED
  BY <1>2, <1>3, <1>4, <1>5 DEF UploadReqAnswer

(* What is outstanding after a block. *)
LEMMA BlockFact ==
  ASSUME NEW s \in Nat, NEW m \in Nat
  PROVE  Least(m, s) \in Nat /\ s - Least(m, s) \in Nat /\ (s - Least(m, s) = 0 <=> s <= m)
  BY DEF Least

(* The device has sent a block: the next one, or the end of the call. *)
LEMMA UploadDataStep ==
  ASSUME DownloadInv, UploadDataAnswer
  PROVE  DownloadInv'
<1> DEFINE data == loc.data \o tp.ans.data
           rest == loc.send - Len(tp.ans.data)
<1>0. /\ TypeOK /\ TypeTp /\ TypeLoc /\ TypeFs /\ TypeHist /\ FlowInv /\ UpInv /\ pc = "ulData"
      /\ tp.st = "done" /\ HostOnly /\ job \in Job /\ spoiled' = spoiled /\ spoiled' \in BOOLEAN
  BY TypeParts DEF DownloadInv, FlowInv, UploadDataAnswer, TypeHist
<1>1. Status \in Result
  BY <1>0, StatusFact DEF Result
<1>2. /\ loc.len \in Nat /\ loc.data \in Units /\ loc.send \in Nat /\ loc.max \in Nat
      /\ loc.seq \in Ext
  BY <1>0 DEF TypeLoc, LocType
<1>3. tp.ans.data \in Units /\ Len(tp.ans.data) \in Nat /\ Len(loc.data) \in Nat
  <2>1. tp.ans.data \in Units
    BY <1>0 DEF TypeTp, TpType, PacketType
  <2> QED
    BY <1>2, <2>1 DEF Units
<1>4. CASE Status # "OK" /\ AbortUpload(Status, loc.len) /\ UNCHANGED <<rm, bLoadState>>
  BY <1>0, <1>1, <1>2, <1>4, ToUpAbort
<1>5. CASE AbortUpload("FILE_CHECKSUM_ERROR", loc.len) /\ UNCHANGED <<rm, bLoadState>>
  BY <1>0, <1>2, <1>5, ToUpAbort DEF Result
<1>6. ASSUME Status = "OK", ChecksumOk(data)
      PROVE  /\ inbox = <<>> /\ Has(job.ch, job.name) /\ File \in Units
             /\ data \in Units /\ Len(data) = Len(loc.data) + Least(loc.max, loc.send)
             /\ data = SubSeq(File, 1, Len(data))
             /\ Len(data) + rest = Len(File) /\ rest \in Nat /\ loc.max # 0
             /\ rest = 0 <=> loc.seq \in {"NONE", "LAST"}
             /\ IF rest = 0 THEN xfer.dir = "none" ELSE UpOpen(Len(data), loc.max)
  <2>1. Tracked
    BY <1>0 DEF Tracked
  <2>2. Content(tp.ans) /\ tp.ans.sta = "OK" /\ inbox = <<>>
    BY <1>0, <1>6, <2>1, StatusFact, AnswerFact
  <2>3. /\ Has(job.ch, job.name) /\ job.ch \in Channel
        /\ Len(loc.data) + loc.send = Len(File) /\ loc.send # 0 /\ loc.max # 0
        /\ loc.seq \in {"NONE", "LAST"} <=> loc.send <= loc.max
    BY <1>0, JobFact DEF UpInv
  <2>4. File \in Units
    BY <1>0, <2>3 DEF TypeFs, Has, File
  <2> DEFINE k == Len(loc.data) + Least(loc.max, loc.send)
  <2>5. /\ tp.ans.crc = SubSeq(File, 1, k) /\ Len(loc.data) + Len(tp.ans.data) = k
        /\ IF loc.seq \in {"NONE", "LAST"} THEN xfer.dir = "none" ELSE UpOpen(k, loc.max)
    BY <1>0, <2>2 DEF Content
  <2>6. data \in Units /\ Len(data) = k
    <3>1. data \in Units /\ Len(data) = Len(loc.data) + Len(tp.ans.data)
      BY <1>2, <1>3, ConcatProperties DEF Units
    <3> HIDE DEF data
    <3> QED
      BY <2>5, <3>1
  <2>7. data = SubSeq(File, 1, k)
    BY <1>6, <2>5 DEF ChecksumOk
  <2>8. Len(data) + rest = Len(File) /\ rest \in Nat /\ (rest = 0 <=> loc.send <= loc.max)
    <3> DEFINE a == Len(loc.data)
               b == Len(tp.ans.data)
               s == loc.send
               m == loc.max
               c == Least(m, s)
    <3>1. a \in Nat /\ b \in Nat /\ s \in Nat /\ m \in Nat
      BY <1>2, <1>3
    <3>2. a + b = a + c /\ a + s = Len(File) /\ Len(data) = a + b /\ rest = s - b
      BY <2>3, <2>5, <2>6
    <3> HIDE DEF a, b, s, m, k, data, rest
    <3>3. c \in Nat /\ s - c \in Nat /\ (s - c = 0 <=> s <= m)
      BY <3>1, BlockFact
    <3> HIDE DEF c
    <3>4. b = c
      BY <3>1, <3>2, <3>3
    <3>5. Len(data) + rest = Len(File) /\ rest \in Nat /\ (rest = 0 <=> s <= m)
      BY <3>1, <3>2, <3>3, <3>4
    <3> QED
      BY <3>5 DEF s, m
  <2> HIDE DEF data, rest
  <2> QED
    BY <2>2, <2>3, <2>4, <2>5, <2>6, <2>7, <2>8
<1> DEFINE l == [loc EXCEPT !.send = rest, !.data = data, !.len = Len(data),
                            !.seq = IF rest <= loc.max THEN "LAST" ELSE "MIDDLE"]
<1>7. CASE /\ Status = "OK" /\ ChecksumOk(data) /\ rest # 0 /\ AskBlock(l)
           /\ UNCHANGED <<rm, bLoadState>>
  <2> HIDE DEF data, rest
  <2>1. /\ rest \in Nat /\ data \in Units /\ Len(data) \in Nat
    BY <1>6, <1>7 DEF Units
  <2>2. l \in LocType
    BY <1>0, <2>1 DEF TypeLoc, LocType, Ext
  <2>3. /\ l.src = loc.src /\ l.id = loc.id /\ l.max = loc.max /\ l.send = rest /\ l.data = data
        /\ l.len = Len(data) /\ l.seq = IF rest <= loc.max THEN "LAST" ELSE "MIDDLE"
    BY <1>0 DEF TypeLoc, LocType
  <2>4. l.seq \in {"NONE", "LAST"} <=> l.send <= l.max
    BY <2>3
  <2> HIDE DEF l
  <2> QED
    BY <1>0, <1>6, <1>7, <2>2, <2>3, <2>4, ToAsk
<1>8. CASE /\ Status = "OK" /\ ChecksumOk(data) /\ rest = 0
           /\ Return("OK", "none", data, Len(data), "none")
  <2>1. TypeBound' /\ UNCHANGED <<now, typeVars, devVars, lateDir>>
    BY <1>0, HostOnlyTypes DEF HostOnly
  <2>2. job.op \in {"UPLOAD", "UPLOAD_FW"}
    BY <1>0 DEF FlowInv, UpLabel
  <2> HIDE DEF data, rest
  <2>3. File = data /\ Len(data) \in Nat
    <3>1. Len(data) = Len(File) /\ Len(data) \in Nat
      BY <1>6, <1>8 DEF Units
    <3> QED
      BY <1>6, <1>8, <3>1, PrefixFact
  <2>4. xfer.dir # Direction(res') /\ Calm
    BY <1>6, <1>8 DEF Direction, Calm
  <2>5. "OK" \in Result /\ "none" \in LoadState
    BY DEF Result, LoadState
  <2> QED
    BY <1>0, <1>6, <1>8, <2>1, <2>2, <2>3, <2>4, <2>5, ToIdle
<1> QED
  BY <1>4, <1>5, <1>7, <1>8 DEF UploadDataAnswer

(* The abort of an upload is over. *)
LEMMA UploadAbortStep ==
  ASSUME DownloadInv, UploadAbortAnswer
  PROVE  DownloadInv'
<1> DEFINE e == IF loc.lRet # "OK" THEN loc.lRet ELSE Status
<1>0. /\ TypeOK /\ TypeTp /\ TypeLoc /\ TypeHist /\ FlowInv /\ UpInv
      /\ pc = "ulAbort" /\ tp.st = "done" /\ HostOnly /\ spoiled' = spoiled /\ spoiled' \in BOOLEAN
      /\ Return(e, Status, loc.data, loc.len, "none")
  BY TypeParts DEF DownloadInv, UploadAbortAnswer, TypeHist
<1>1. TypeBound' /\ UNCHANGED <<now, typeVars, devVars, lateDir>>
  BY <1>0, HostOnlyTypes DEF HostOnly
<1>2. loc.lRet \in Result /\ loc.data \in Units /\ loc.len \in Nat /\ "none" \in LoadState
  BY <1>0 DEF TypeLoc, LocType, LoadState
<1>3. Status \in Result
  BY <1>0, StatusFact DEF Result
<1>4. Status = "OK" => Calm /\ xfer.dir # "up"
  <2>1. Tracked
    BY <1>0 DEF Tracked
  <2> QED
    BY <1>0, <2>1, StatusFact, AnswerFact DEF Content, Calm
<1>5. job.op \in {"UPLOAD", "UPLOAD_FW"}
  BY <1>0 DEF FlowInv, UpLabel
<1>6. Direction(res') = "up"
  <2>1. res'.op = job.op /\ res'.load = "none"
    BY <1>0 DEF Return
  <2> QED
    BY <1>5, <2>1 DEF Direction
<1>7. e = "OK" => Status = "OK" /\ Has(job.ch, job.name) /\ File = loc.data /\ loc.len = Len(loc.data)
  BY <1>0 DEF UpInv
<1>8. ~Writes(job) /\ e \in Result
  BY <1>2, <1>3, <1>5 DEF Writes
<1> HIDE DEF e
<1> QED
  BY <1>0, <1>1, <1>2, <1>3, <1>4, <1>5, <1>6, <1>7, <1>8, ToIdle

(* The place of a name in the directory. *)
LEMMA IndexFact ==
  /\ Index(NoName) = 0
  /\ \A n \in Name : Index(n) \in Nat /\ Index(n) # 0
  /\ \A m, n \in Name : Index(m) = Index(n) => m = n
<1>1. DOMAIN Dir \subseteq Nat \ {0}
  BY DownloadAssumption
<1>2. ASSUME NEW n \in Name PROVE Index(n) \in DOMAIN Dir /\ Dir[Index(n)] = n
  <2>1. n # NoName
    BY ConstFact
  <2>2. \E i \in DOMAIN Dir : Dir[i] = n
    BY DEF Name
  <2> QED
    BY <2>1, <2>2 DEF Index
<1> QED
  BY <1>1, <1>2 DEF Index

(* A directory search that reached its end has left nothing of the channel  *)
(* but files with unusable names.                                           *)
LEMMA SweptFact ==
  ASSUME DownloadInv, pc = "find", tp.st = "done", Status = "OK", tp.ans.ext = "LAST", Updating
  PROVE  Swept(rm.ch)
<1>0. /\ TypeOK /\ TypeTp /\ TypeRm /\ TypeFs /\ FlowInv /\ RequestInv /\ SweepInv
  BY TypeParts DEF DownloadInv
<1>1. Tracked
  BY DEF Tracked, Updating
<1>2. Content(tp.ans) /\ tp.ans.sta = "OK"
  BY <1>0, <1>1, StatusFact, AnswerFact
<1>3. \A n \in DOMAIN fs[rm.ch] : Index(n) <= Index(tp.req.name)
  BY <1>2 DEF Content
<1>4. rm.ch \in Channel /\ DOMAIN fs[rm.ch] \subseteq Name
  BY <1>0 DEF TypeRm, RmType, TypeFs
<1>5. CASE rm.first
  <2>1. tp.req.name = NoName
    BY <1>0, <1>5 DEF RequestInv
  <2>2. \A n \in DOMAIN fs[rm.ch] : FALSE
    BY <1>3, <1>4, <2>1, IndexFact
  <2> QED
    BY <2>2 DEF Swept
<1>6. CASE ~rm.first
  <2>1. tp.req.name = rm.name
    BY <1>0, <1>6 DEF RequestInv
  <2> QED
    BY <1>0, <1>3, <1>6, <2>1 DEF SweepInv, Swept
<1> QED
  BY <1>5, <1>6

(* The device has answered a directory request: delete the file, pass over  *)
(* it, go on with the next channel, or load the new file.                   *)
LEMMA FindStep ==
  ASSUME DownloadInv, FindAnswer
  PROVE  DownloadInv'
<1> DEFINE n == tp.ans.name
           over == Status # "OK" \/ tp.ans.ext = "LAST"
<1>0. /\ TypeOK /\ TypeTp /\ TypeRm /\ TypeFs /\ TypeHist /\ FlowInv /\ RequestInv /\ SweepInv
      /\ LocalInv /\ pc = "find" /\ tp.st = "done" /\ HostOnly /\ job \in Job
      /\ spoiled' = (spoiled \/ Status # "OK")
  BY TypeParts DEF DownloadInv, FlowInv, FindAnswer
<1>1. spoiled' \in BOOLEAN /\ (~spoiled' => ~spoiled /\ Status = "OK")
  BY <1>0, Zenon
<1>2. Status \in Result \ {"ALREADY_EXISTS"} /\ "none" \in LoadState
  BY <1>0, StatusFact DEF Result, LoadState
<1>3. CASE /\ job.op = "FIND"
           /\ Finish(IF Status = "OK" /\ over THEN "NO_MORE_ENTRIES" ELSE Status, "none")
  <2> DEFINE e == IF Status = "OK" /\ over THEN "NO_MORE_ENTRIES" ELSE Status
  <2>1. e \in Result \ {"ALREADY_EXISTS"} /\ Finish(e, "none")
    BY <1>2, <1>3 DEF Result
  <2> HIDE DEF e
  <2> QED
    BY <1>0, <1>1, <1>2, <1>3, <2>1, ToPlainEnd
<1>4. ASSUME Updating', UNCHANGED bLoadState
      PROVE  /\ Updating /\ Status = "OK" /\ inbox = <<>> /\ Content(tp.ans) /\ tp.ans.sta = "OK"
             /\ \A c \in Channel : c < rm.ch => Swept(c)
             /\ ~rm.first => \A m \in DOMAIN fs[rm.ch] : Index(m) <= Index(rm.name) => Kind[m] = "short"
             /\ tp.ans.ext = "LAST" => Swept(rm.ch)
  <2>1. eDeviceType' = eDeviceType /\ lateDir' = lateDir
    BY <1>0 DEF HostOnly, typeVars
  <2>2. Updating /\ Status = "OK"
    BY <1>1, <1>4, <2>1 DEF Updating
  <2>3. Tracked
    BY <1>0, <2>2 DEF Tracked, Updating
  <2>4. inbox = <<>> /\ Content(tp.ans) /\ tp.ans.sta = "OK"
    BY <1>0, <2>2, <2>3, StatusFact, AnswerFact
  <2>5. /\ \A c \in Channel : c < rm.ch => Swept(c)
        /\ ~rm.first => \A m \in DOMAIN fs[rm.ch] : Index(m) <= Index(rm.name) => Kind[m] = "short"
    BY <1>0, <2>2 DEF SweepInv
  <2>6. tp.ans.ext = "LAST" => Swept(rm.ch)
    BY <1>0, <2>2, SweptFact
  <2> QED
    BY <2>2, <2>4, <2>5, <2>6
<1>5. /\ rm.ch \in Channel /\ rm.last \in Channel /\ rm.ch \in Nat /\ rm.last \in Nat
      /\ rm.ch <= rm.last /\ n \in AnyName /\ MaxCh \in Nat
      /\ bLoadState \in {"none", "FIRMWARE", "MODULE"}
      /\ bLoadState # "none" => bLoadState = KindLoaded
      /\ bLoadState = "FIRMWARE" => job.ch = 0 /\ Kind[job.name] = "NXF"
  <2>1. rm.ch \in Channel /\ rm.last \in Channel /\ rm.ch \in Nat /\ rm.last \in Nat
    BY <1>0, ConstFact DEF TypeRm, RmType
  <2>2. n \in AnyName
    BY <1>0 DEF TypeTp, TpType, PacketType, AnyName
  <2>3. /\ bLoadState \in {"none", "FIRMWARE", "MODULE"}
        /\ bLoadState # "none" => bLoadState \in {KindLoaded, Executed(KindLoaded)}
    BY <1>0 DEF FlowInv
  <2>4. KindLoaded \in {"FIRMWARE", "MODULE", "none"}
    BY DEF KindLoaded
  <2>5. bLoadState # "none" => bLoadState = KindLoaded
    BY <2>3, <2>4 DEF Executed
  <2>6. bLoadState = "FIRMWARE" => job.ch = 0 /\ Kind[job.name] = "NXF"
    BY <1>0, <2>5 DEF LocalInv, KindLoaded
  <2> QED
    BY <1>0, <2>1, <2>2, <2>3, <2>5, <2>6, ConstFact DEF LocalInv
<1>6. CASE job.op # "FIND" /\ over /\ rm.ch = rm.last /\ BeginDownload /\ UNCHANGED <<rm, bLoadState>>
  <2>1. CASE job.data = <<>>
    <3>1. Finish("INVALID_PARAMETER", bLoadState)
      BY <1>6, <2>1 DEF BeginDownload, Fail
    <3>2. bLoadState \in LoadState /\ "INVALID_PARAMETER" \in Result
      BY <1>5 DEF LoadState, Result
    <3> QED
      BY <1>0, <1>1, <3>1, <3>2, ToPlainEnd
  <2>2. CASE job.data # <<>>
    <3>1. job.op \in {"MODULE", "STARTUP"} /\ (job.op = "MODULE" => Kind[job.name] = "NXO")
      BY <1>0, <1>6 DEF FlowInv
    <3>2. ASSUME Updating' PROVE Alone /\ inbox = <<>>
      <4>1. /\ inbox = <<>> /\ Updating /\ Status = "OK" /\ (\A c \in Channel : c < rm.ch => Swept(c))
            /\ (tp.ans.ext = "LAST" => Swept(rm.ch))
        BY <1>4, <1>6, <3>2
      <4>2. Swept(rm.ch)
        BY <1>6, <4>1
      <4>3. rm.except = "none"
        <5>1. rm.except \in {"none", "NXF"}
          BY <1>0 DEF TypeRm, RmType
        <5>2. Kind[job.name] = "NXF"
          BY <1>5, <4>1 DEF Updating
        <5> QED
          BY <1>0, <5>1, <5>2 DEF LocalInv
      <4>4. rm.ch = MaxCh - 1
        BY <1>0, <1>6, <4>3 DEF LocalInv
      <4>5. \A c \in Channel : Swept(c)
        BY <1>5, <4>1, <4>2, <4>4 DEF Channel
      <4> QED
        BY <4>1, <4>5 DEF Alone, Swept
    <3> QED
      BY <1>0, <1>1, <1>5, <1>6, <2>2, <3>1, <3>2, ToDownload
  <2> QED
    BY <2>1, <2>2
<1>7. ASSUME job.op # "FIND", UNCHANGED <<loc, bLoadState>>, NEW x \in RmType, Find(x),
             x.except = rm.except, x.last = rm.last,
             x.ch = rm.ch \/ (x.ch = rm.ch + 1 /\ rm.ch # rm.last),
             Updating' => /\ \A c \in Channel : c < x.ch => Swept(c)
                          /\ ~x.first => \A m \in DOMAIN fs[x.ch] :
                                           Index(m) <= Index(x.name) => Kind[m] = "short"
      PROVE  DownloadInv'
  <2>1. job.op \in {"MODULE", "STARTUP", "FIND"} /\ (job.op = "MODULE" => Kind[job.name] = "NXO")
    BY <1>0 DEF FlowInv
  <2>2. x.ch <= x.last
    BY <1>5, <1>7
  <2>3. /\ x.except = "none" /\ job.op # "FIND" =>
             job.ch = 0 /\ Kind[job.name] = "NXF" /\ x.last = MaxCh - 1
        /\ x.except = "NXF" => x.ch = job.ch /\ x.last = job.ch /\ Kind[job.name] = "NXO"
    BY <1>0, <1>7 DEF LocalInv
  <2>4. Updating' => inbox = <<>>
    BY <1>4, <1>7
  <2>5. /\ bLoadState' \in {"none", "FIRMWARE", "MODULE"}
        /\ bLoadState' # "none" => bLoadState' = KindLoaded
        /\ bLoadState' = "FIRMWARE" => job.ch = 0
    BY <1>5, <1>7
  <2> QED
    BY <1>0, <1>1, <1>7, <2>1, <2>2, <2>3, <2>4, <2>5, ToFind
<1>8. CASE /\ job.op # "FIND" /\ over /\ rm.ch # rm.last /\ UNCHANGED <<loc, bLoadState>>
           /\ Find([rm EXCEPT !.ch = rm.ch + 1, !.first = TRUE])
  <2> DEFINE x == [rm EXCEPT !.ch = rm.ch + 1, !.first = TRUE]
  <2>1. rm.ch + 1 \in Channel
    BY <1>5, <1>8 DEF Channel
  <2>2. x \in RmType
    BY <1>0, <2>1 DEF TypeRm, RmType
  <2>3. x.except = rm.except /\ x.last = rm.last /\ x.ch = rm.ch + 1 /\ x.first
    BY <1>0 DEF TypeRm, RmType
  <2>4. ASSUME Updating', NEW c \in Channel, c < rm.ch + 1 PROVE Swept(c)
    <3>1. Swept(rm.ch) /\ (c < rm.ch => Swept(c))
      BY <1>4, <1>8, <2>4
    <3>2. c \in Nat
      BY ConstFact
    <3>3. c < rm.ch \/ c = rm.ch
      BY <1>5, <2>4, <3>2
    <3> QED
      BY <3>1, <3>3
  <2> HIDE DEF x
  <2>5. Find(x)
    BY <1>8 DEF x
  <2> QED
    BY <1>7, <1>8, <2>2, <2>3, <2>4, <2>5
<1>9. CASE /\ job.op # "FIND" /\ ~over /\ UNCHANGED <<loc, bLoadState>> /\ Kind[n] = "short"
           /\ Find(SkipFile(n))
  <2> DEFINE x == SkipFile(n)
  <2>1. x \in RmType
    BY <1>0, <1>5 DEF TypeRm, RmType, SkipFile
  <2>2. x.except = rm.except /\ x.last = rm.last /\ x.ch = rm.ch /\ x.name = n
    BY <1>0 DEF TypeRm, RmType, SkipFile
  <2>3. ASSUME Updating'
        PROVE  \A m \in DOMAIN fs[rm.ch] : Index(m) <= Index(n) => Kind[m] = "short"
    <3>1. TAKE m \in DOMAIN fs[rm.ch]
    <3>2. HAVE Index(m) <= Index(n)
    <3>3. Content(tp.ans) /\ tp.ans.sta = "OK" /\ tp.ans.ext # "LAST"
      BY <1>4, <1>9, <2>3
    <3>4. n \in DOMAIN fs[rm.ch] /\ (Index(m) <= Index(tp.req.name) \/ Index(n) <= Index(m))
      BY <1>0, <3>3 DEF Content
    <3>5. m \in Name /\ n \in Name
      BY <1>0, <1>5, <3>4 DEF TypeFs
    <3>6. CASE Index(m) <= Index(tp.req.name)
      <4>1. tp.req.name = IF rm.first THEN NoName ELSE rm.name
        BY <1>0 DEF RequestInv
      <4>2. ~rm.first
        BY <3>5, <3>6, <4>1, IndexFact
      <4> QED
        BY <1>4, <1>9, <2>3, <3>6, <4>1, <4>2
    <3>7. CASE Index(n) <= Index(m)
      <4>1. Index(n) = Index(m)
        BY <3>2, <3>5, <3>7, IndexFact
      <4>2. n = m
        BY <3>5, <4>1, IndexFact
      <4> QED
        BY <1>9, <4>2
    <3> QED
      BY <3>4, <3>6, <3>7
  <2>4. Updating' => \A c \in Channel : c < rm.ch => Swept(c)
    BY <1>4, <1>9
  <2> HIDE DEF x
  <2>5. Find(x)
    BY <1>9 DEF x
  <2> QED
    BY <1>7, <1>9, <2>1, <2>2, <2>3, <2>4, <2>5
<1>10. CASE /\ job.op # "FIND" /\ ~over /\ UNCHANGED <<loc, bLoadState>> /\ Exempt(n)
            /\ Find([rm EXCEPT !.name = n])
  <2> DEFINE x == [rm EXCEPT !.name = n]
  <2>1. x \in RmType
    BY <1>0, <1>5 DEF TypeRm, RmType
  <2>2. x.except = rm.except /\ x.last = rm.last /\ x.ch = rm.ch
    BY <1>0 DEF TypeRm, RmType
  <2>3. rm.except = "NXF"
    BY <1>0, <1>10 DEF TypeRm, RmType, Exempt
  <2>4. Kind[job.name] = "NXO"
    BY <1>0, <2>3 DEF LocalInv
  <2>5. ~Updating'
    BY <1>5, <1>10, <2>4 DEF Updating
  <2> HIDE DEF x
  <2>6. Find(x)
    BY <1>10 DEF x
  <2> QED
    BY <1>7, <1>10, <2>1, <2>2, <2>5, <2>6
<1>11. CASE /\ job.op # "FIND" /\ ~over /\ UNCHANGED <<loc, bLoadState>> /\ ~Exempt(n)
            /\ GoOn("delete") /\ rm' = [rm EXCEPT !.name = n]
            /\ tp' = Send([Packet("FILE_DELETE", now, 0) EXCEPT !.ch = rm.ch, !.name = n])
  <2>1. Updating' => Updating /\ inbox = <<>>
    BY <1>4, <1>11
  <2> QED
    BY <1>0, <1>1, <1>5, <1>11, <2>1, ToDelete
<1> QED
  BY <1>3, <1>6, <1>8, <1>9, <1>10, <1>11 DEF FindAnswer

(* The deletion of a file is over: the search starts again. *)
LEMMA DeleteStep ==
  ASSUME DownloadInv, DeleteAnswer
  PROVE  DownloadInv'
<1> DEFINE x == [rm EXCEPT !.first = TRUE]
<1>0. /\ TypeOK /\ TypeTp /\ TypeRm /\ TypeHist /\ FlowInv /\ SweepInv /\ LocalInv
      /\ pc = "delete" /\ tp.st = "done" /\ HostOnly
      /\ spoiled' = (spoiled \/ Status # "OK") /\ UNCHANGED <<loc, bLoadState>> /\ Find(x)
  BY TypeParts DEF DownloadInv, DeleteAnswer
<1>1. spoiled' \in BOOLEAN /\ (~spoiled' => ~spoiled /\ Status = "OK")
  BY <1>0, Zenon
<1>2. /\ x \in RmType /\ x.ch = rm.ch /\ x.last = rm.last /\ x.except = rm.except /\ x.first
  BY <1>0 DEF TypeRm, RmType
<1>3. ASSUME Updating' PROVE inbox = <<>> /\ \A c \in Channel : c < rm.ch => Swept(c)
  <2>1. eDeviceType' = eDeviceType /\ lateDir' = lateDir
    BY <1>0 DEF HostOnly, typeVars
  <2>2. Updating /\ Status = "OK"
    BY <1>0, <1>1, <1>3, <2>1 DEF Updating
  <2>3. Tracked
    BY <1>0 DEF Tracked
  <2> QED
    BY <1>0, <2>2, <2>3, StatusFact, AnswerFact DEF SweepInv
<1>4. KindLoaded \in {"FIRMWARE", "MODULE", "none"}
  BY DEF KindLoaded
<1>5. /\ bLoadState \in {"none", "FIRMWARE", "MODULE"}
      /\ bLoadState # "none" => bLoadState = KindLoaded
      /\ bLoadState = "FIRMWARE" => job.ch = 0
  BY <1>0, <1>4 DEF FlowInv, LocalInv, Executed
<1>6. job.op \in {"MODULE", "STARTUP", "FIND"} /\ (job.op = "MODULE" => Kind[job.name] = "NXO")
  BY <1>0 DEF FlowInv
<1>7. /\ x.ch <= x.last
      /\ x.except = "none" /\ job.op # "FIND" =>
           job.ch = 0 /\ Kind[job.name] = "NXF" /\ x.last = MaxCh - 1
      /\ x.except = "NXF" => x.ch = job.ch /\ x.last = job.ch /\ Kind[job.name] = "NXO"
  BY <1>0, <1>2 DEF LocalInv
<1> HIDE DEF x
<1> QED
  BY <1>0, <1>1, <1>2, <1>3, <1>5, <1>6, <1>7, ToFind

(* The device has answered with the checksum of the file it has: the file   *)
(* is there already, or everything it replaces is removed first.            *)
LEMMA Md5Step ==
  ASSUME DownloadInv, Md5Answer
  PROVE  DownloadInv'
<1> DEFINE kind == Kind[job.name]
           same == tp.ans.sta = "OK" /\ tp.ans.data = job.data
<1>0. /\ TypeOK /\ TypeTp /\ TypeHist /\ FlowInv /\ pc = "md5" /\ tp.st = "done" /\ HostOnly
      /\ job \in Job /\ spoiled' = spoiled /\ spoiled' \in BOOLEAN
  BY TypeParts DEF DownloadInv, FlowInv, Md5Answer, TypeHist
<1>1. /\ job.op \in {"MODULE", "STARTUP"} /\ (job.op = "MODULE" => kind = "NXO")
      /\ tp.lRet \in {"OK", "PUT_TIMEOUT", "GET_TIMEOUT", "NOT_READY"}
  BY <1>0 DEF FlowInv
<1>2. ASSUME NEW e \in {"OK", "PUT_TIMEOUT", "GET_TIMEOUT", "NOT_READY", "FILE_TYPE_INVALID",
                        "INVALID_PARAMETER"}, Finish(e, "none")
      PROVE  DownloadInv'
  <2>1. e \in Result \ {"ALREADY_EXISTS"} /\ "none" \in LoadState
    BY DEF Result, LoadState
  <2> QED
    BY <1>0, <1>1, <1>2, <2>1, ToPlainEnd
<1>3. ASSUME tp.lRet = "OK" PROVE inbox = <<>> /\ (same => InPlace)
  <2>1. Tracked
    BY <1>0 DEF Tracked
  <2> QED
    BY <1>0, <1>3, <2>1, AnswerFact DEF Content, InPlace
<1>4. KindLoaded \in LoadState /\ (kind = "NXF" => KindLoaded = "FIRMWARE")
      /\ (kind = "NXO" => KindLoaded = "MODULE")
  BY DEF KindLoaded, LoadState
<1>5. CASE tp.lRet = "OK" /\ same /\ kind \in {"NXO", "NXF"} /\ job.op = "MODULE" /\ RunModule(KindLoaded)
  <2>1. KindLoaded # "MODULE+"
    BY <1>4, <1>5
  <2> QED
    BY <1>0, <1>3, <1>4, <1>5, <2>1, ToRun
<1>6. CASE tp.lRet = "OK" /\ same /\ kind \in {"NXO", "NXF"} /\ job.op # "MODULE" /\ Finish("OK", KindLoaded)
  <2>1. Return("OK", "none", <<>>, 0, KindLoaded)
    BY <1>6 DEF Finish
  <2>2. TypeBound' /\ UNCHANGED <<now, typeVars, devVars, lateDir>>
    BY <1>0, HostOnlyTypes DEF HostOnly
  <2>3. Calm
    BY <1>3, <1>6 DEF Calm
  <2>4. res'.op = job.op /\ res'.load = KindLoaded
    BY <2>1 DEF Return
  <2>5. Direction(res') = "neither" /\ KindLoaded # "FIRMWARE+"
    BY <1>1, <1>4, <1>6, <2>4 DEF Direction
  <2>6. "OK" \in Result
    BY DEF Result
  <2> HIDE DEF KindLoaded
  <2> QED
    BY <1>0, <1>1, <1>4, <2>1, <2>2, <2>3, <2>5, <2>6, ConstFact, ToIdle
<1>7. ASSUME NEW first \in Channel, NEW last \in Channel, NEW except \in {"none", "NXF"},
             BeginRemoval(first, last, except), bLoadState' = KindLoaded, UNCHANGED loc,
             tp.lRet = "OK", kind \in {"NXO", "NXF"}, kind = "NXF" => job.ch = 0,
             IF kind = "NXF" THEN first = 0 /\ last = MaxCh - 1 /\ except = "none"
                             ELSE first = job.ch /\ last = job.ch /\ except = "NXF"
      PROVE  DownloadInv'
  <2> DEFINE x == [NoRm EXCEPT !.ch = first, !.last = last, !.except = except]
  <2>1. x \in RmType /\ x.ch = first /\ x.last = last /\ x.except = except /\ x.first
    BY <1>7, ConstFact DEF RmType, NoRm, AnyName
  <2>2. Find(x)
    BY <1>7 DEF BeginRemoval
  <2>3. x.ch <= x.last
    BY <1>0, <1>7, <2>1, ConstFact, JobFact
  <2>4. ASSUME Updating' PROVE inbox = <<>> /\ \A c \in Channel : ~(c < x.ch)
    <3>1. kind = "NXF"
      BY <1>4, <1>7, <2>4 DEF Updating
    <3> QED
      BY <1>3, <1>7, <2>1, <3>1, ConstFact
  <2>5. /\ bLoadState' \in {"none", "FIRMWARE", "MODULE"}
        /\ bLoadState' = "FIRMWARE" => job.ch = 0
    BY <1>4, <1>7
  <2> HIDE DEF x
  <2> QED
    BY <1>0, <1>1, <1>7, <2>1, <2>2, <2>3, <2>4, <2>5, ToFind
<1>8. CASE /\ tp.lRet = "OK" /\ ~(kind = "NXF" /\ job.ch # 0) /\ kind \in {"NXO", "NXF"}
           /\ IF kind = "NXF" THEN BeginRemoval(0, MaxCh - 1, "none")
                              ELSE BeginRemoval(job.ch, job.ch, "NXF")
           /\ bLoadState' = KindLoaded /\ UNCHANGED loc
  <2>1. 0 \in Channel /\ MaxCh - 1 \in Channel /\ job.ch \in Channel
    BY <1>0, ConstFact, JobFact
  <2>2. CASE kind = "NXF"
    BY <1>7, <1>8, <2>1, <2>2
  <2>3. CASE kind # "NXF"
    BY <1>7, <1>8, <2>1, <2>3
  <2> QED
    BY <2>2, <2>3
<1> QED
  BY <1>1, <1>2, <1>5, <1>6, <1>8 DEF Md5Answer

(* The module was started, or not. *)
LEMMA RunStep ==
  ASSUME DownloadInv, RunAnswer
  PROVE  DownloadInv'
<1>0. /\ TypeOK /\ TypeTp /\ TypeHist /\ TypeLoad /\ FlowInv /\ pc = "run" /\ tp.st = "done"
      /\ HostOnly /\ spoiled' = spoiled /\ spoiled' \in BOOLEAN /\ bLoadState \in LoadState
  BY TypeParts DEF DownloadInv, RunAnswer, TypeHist, TypeLoad
<1>1. CASE Status # "OK" /\ Finish(Status, bLoadState)
  <2>1. Status \in Result \ {"ALREADY_EXISTS"}
    BY <1>0, StatusFact DEF Result
  <2> QED
    BY <1>0, <1>1, <2>1, ToPlainEnd
<1>2. CASE GoOn("ident") /\ tp' = Idle /\ UNCHANGED <<loc, rm, bLoadState>>
  BY <1>0, <1>2, ToIdent
<1>3. CASE Finish("NOT_READY", bLoadState)
  BY <1>0, <1>3, ToPlainEnd DEF Result
<1> QED
  BY <1>1, <1>2, <1>3 DEF RunAnswer

(* The identification of the module was read, or not. *)
LEMMA IdentStep ==
  ASSUME DownloadInv, IdentAnswer
  PROVE  DownloadInv'
<1>0. /\ TypeOK /\ TypeHist /\ TypeLoad /\ TypeBound /\ FlowInv /\ QuietInv /\ RunInv
      /\ pc = "ident" /\ tp.st = "idle" /\ spoiled' = spoiled /\ spoiled' \in BOOLEAN
      /\ bLoadState \in LoadState
      /\ UNCHANGED <<now, typeVars, devVars, calls, foreign, lateDir>>
  BY TypeParts DEF DownloadInv, FlowInv, IdentAnswer, TypeHist, TypeLoad
<1>1. PICK l \in {"OK", "GET_TIMEOUT"} :
        /\ faults' = IF l = "OK" THEN faults ELSE faults + 1
        /\ Finish(IF l = "OK" /\ bLoadState \notin {"MODULE+", "FIRMWARE+"}
                  THEN "ALREADY_EXISTS" ELSE l, bLoadState)
  BY DEF IdentAnswer
<1> DEFINE e == IF l = "OK" /\ bLoadState \notin {"MODULE+", "FIRMWARE+"} THEN "ALREADY_EXISTS" ELSE l
<1>2. TypeBound'
  BY <1>0, <1>1 DEF TypeBound
<1>3. Return(e, "none", <<>>, 0, bLoadState)
  BY <1>1 DEF Finish
<1>4. Calm
  BY <1>0 DEF QuietInv, Quiet
<1>5. job.op = "MODULE" /\ KindLoaded = "MODULE"
  BY <1>0 DEF FlowInv, KindLoaded
<1>6. bLoadState # "FIRMWARE+"
  BY <1>0, <1>5 DEF FlowInv, Executed
<1>7. e = "OK" => bLoadState = "MODULE+" /\ xfer.dir # "down"
  BY <1>0, <1>6 DEF RunInv
<1>8. e \in Result
  BY DEF Result
<1> HIDE DEF e
<1>9. e = "OK" => xfer.dir # Direction(res')
  <2>1. res'.op = job.op /\ res'.load = bLoadState
    BY <1>3 DEF Return
  <2> QED
    BY <1>5, <1>7, <2>1 DEF Direction
<1> QED
  BY <1>0, <1>2, <1>3, <1>4, <1>5, <1>6, <1>8, <1>9, ConstFact, ToIdle

-----------------------------------------------------------------------------
(* The mailbox.                                                             *)

(* The label tells which request the thread has sent. *)
LEMMA AskFact ==
  ASSUME TypeOK, FlowInv, RequestInv, tp.st # "idle"
  PROVE  /\ pc \notin {"idle", "start", "ident"}
         /\ pc = "dlReq" <=> tp.req.cmd = "DOWNLOAD_REQ"
         /\ pc = "dlData" <=> tp.req.cmd = "DOWNLOAD_DATA"
         /\ pc = "dlAbort" <=> tp.req.cmd = "DOWNLOAD_ABORT"
         /\ pc = "ulReq" <=> tp.req.cmd = "UPLOAD_REQ"
         /\ pc = "ulData" <=> tp.req.cmd = "UPLOAD_DATA"
         /\ pc = "ulAbort" <=> tp.req.cmd = "UPLOAD_ABORT"
         /\ pc = "find" <=> tp.req.cmd = "DIR_LIST"
         /\ pc = "delete" <=> tp.req.cmd = "FILE_DELETE"
         /\ pc = "md5" <=> tp.req.cmd = "GET_MD5"
         /\ pc = "run" <=> tp.req.cmd = "RUN_MODULE"
         /\ tp.req.cmd # "INDICATION"
<1>1. pc \notin {"idle", "start", "ident"}
  BY DEF FlowInv
<1>2. pc \in Label
  BY TypeParts DEF TypePc
<1> QED
  BY <1>1, <1>2 DEF RequestInv, Asks, Label

(* A packet of an earlier request is never taken for the answer to one of a *)
(* transfer: ulSrc or ulId differ.                                          *)
LEMMA NoLateAnswer ==
  ASSUME DownloadInv, Tracked, tp.st \in {"put", "get"}, NEW p \in PacketType, Past(p)
  PROVE  ~IsAnswer(p)
<1>0. TypeOK /\ TypePc /\ TypeLoc /\ TypeClock /\ FlowInv /\ RequestInv /\ TicketInv
  BY TypeParts DEF DownloadInv
<1>1. SUFFICES ASSUME IsAnswer(p) PROVE FALSE
  OBVIOUS
<1>2. p.cmd = tp.req.cmd /\ p.src = tp.req.src /\ p.id = tp.req.id
  BY <1>1 DEF IsAnswer
<1>3. p.src \in Nat /\ p.id \in Nat /\ now \in Nat \ {0} /\ loc.id \in Nat
  BY <1>0 DEF PacketType, TypeClock, TypeLoc, LocType
<1>4. CASE pc \in FileLabel
  <2>1. tp.req.src = loc.src /\ tp.req.id = loc.id /\ loc.src # 0
    BY <1>0, <1>4 DEF RequestInv, Asks, TicketInv, FileLabel, DownLabel, UpLabel
  <2>2. p.id < loc.id
    BY <1>2, <1>4, <2>1 DEF Past
  <2> QED
    BY <1>2, <1>3, <2>1, <2>2
<1>5. CASE pc \in {"md5", "delete"}
  <2>1. tp.req.src = now
    BY <1>0, <1>5 DEF TicketInv
  <2> QED
    BY <1>2, <1>3, <2>1 DEF Past
<1>6. CASE pc = "find"
  <2>1. p.cmd = "DIR_LIST" /\ p.src = 0 /\ ~lateDir
    BY <1>0, <1>2, <1>6 DEF RequestInv, Asks, PhysAddr, Tracked
  <2> QED
    BY <2>1 DEF Past
<1>7. pc \in FileLabel \/ pc \in {"md5", "delete"} \/ pc = "find"
  <2>1. pc \notin {"idle", "start", "ident", "run"} /\ pc \in Label
    BY <1>0 DEF FlowInv, Tracked, TypePc
  <2> QED
    BY <2>1 DEF Label, FileLabel, DownLabel, UpLabel
<1> QED
  BY <1>4, <1>5, <1>6, <1>7

(* When a transfer of a packet ends, what is still under way is past. *)
LEMMA ToPast ==
  ASSUME DownloadInv, tp.st \in {"put", "get"}, tp'.st = "done", UNCHANGED <<pc, loc>>,
         NEW p \in PacketType, lateDir => lateDir', now' \in Nat,
         \/ Past(p) /\ now <= now'
         \/ IsAnswer(p) /\ now' = now + 1 /\ (IsDir(tp.req) => lateDir')
         \/ IsAnswer(p) /\ ~Tracked /\ now' = now
  PROVE  Past(p)'
<1>0. TypeOK /\ TypePc /\ TypeLoc /\ TypeClock /\ FlowInv /\ RequestInv /\ TicketInv
  BY TypeParts DEF DownloadInv
<1>1. p.src \in Nat /\ p.id \in Nat /\ now \in Nat \ {0} /\ loc.id \in Nat /\ loc.src \in Nat
  BY <1>0 DEF PacketType, TypeClock, TypeLoc, LocType
<1>2. CASE Past(p) /\ now <= now'
  BY <1>1, <1>2 DEF Past
<1>3. ASSUME IsAnswer(p) PROVE p.cmd = tp.req.cmd /\ p.src = tp.req.src /\ p.id = tp.req.id
  BY <1>3 DEF IsAnswer
<1>4. CASE IsAnswer(p) /\ now' = now + 1 /\ (IsDir(tp.req) => lateDir')
  <2>1. CASE pc \in FileLabel
    <3>1. p.src = loc.src /\ p.id = loc.id /\ loc.src # 0 /\ loc.src <= now
      BY <1>0, <1>3, <1>4, <2>1 DEF RequestInv, Asks, TicketInv, FileLabel, DownLabel, UpLabel
    <3>2. p.src # 0 /\ p.src < now' /\ p.id <= loc.id
      BY <1>1, <1>4, <3>1
    <3> QED
      BY <3>2 DEF Past
  <2>2. CASE pc \in {"md5", "delete"}
    <3>1. p.src = now /\ p.src # 0 /\ p.src < now'
      BY <1>0, <1>1, <1>3, <1>4, <2>2 DEF TicketInv
    <3>2. pc \notin FileLabel
      BY <2>2 DEF FileLabel, DownLabel, UpLabel
    <3> QED
      BY <3>1, <3>2 DEF Past
  <2>3. CASE pc = "find"
    BY <1>0, <1>3, <1>4, <2>3 DEF Past, RequestInv, Asks, PhysAddr, IsDir
  <2>4. CASE pc = "run"
    BY <1>0, <1>3, <1>4, <2>4 DEF Past, RequestInv, PhysAddr
  <2>5. pc \in FileLabel \/ pc \in {"md5", "delete"} \/ pc = "find" \/ pc = "run"
    <3>1. pc \notin {"idle", "start", "ident"} /\ pc \in Label
      BY <1>0 DEF FlowInv, TypePc
    <3> QED
      BY <3>1 DEF Label, FileLabel, DownLabel, UpLabel
  <2> QED
    BY <2>1, <2>2, <2>3, <2>4, <2>5
<1>5. CASE IsAnswer(p) /\ ~Tracked /\ now' = now
  <2>1. pc = "run" \/ (pc = "find" /\ lateDir)
    BY <1>5 DEF Tracked
  <2> QED
    BY <1>0, <1>3, <1>5, <2>1 DEF Past, RequestInv, Asks, PhysAddr
<1> QED
  BY <1>2, <1>4, <1>5

(* What the steps of DEV_TransferPacket have in common. *)
LEMMA MailStep ==
  ASSUME DownloadInv, UNCHANGED <<hostVars, typeVars, fs, xfer, running, spoiled, lost>>,
         tp.st \in {"put", "get"}, tp'.st \in {"get", "done"}, tp'.req = tp.req,
         tp'.st = "done" => tp'.lRet \in {"OK", "PUT_TIMEOUT", "GET_TIMEOUT", "NOT_READY"},
         TypeTp', TypeIn', TypeOut', TypeClock', TypeBound', lateDir' \in BOOLEAN,
         lateDir => lateDir', Unserved' => Unserved,
         TicketInv', QuietInv', AnswerInv', WitnessInv'
  PROVE  DownloadInv'
<1>0. /\ TypeOK /\ FlowInv /\ RequestInv /\ LocalInv /\ DownInv /\ UpInv /\ RunInv /\ SweepInv
  BY DEF DownloadInv
<1>1. UNCHANGED <<pc, job, loc, rm, bLoadState, res, eDeviceType, fModuleLoad, fs, xfer, running,
                  spoiled, lost>>
  BY DEF hostVars, typeVars
<1>2. TypeOK'
  <2>1. /\ TypePc /\ TypeJob /\ TypeLoc /\ TypeRm /\ TypeLoad /\ TypeRes /\ TypeDevice /\ TypeFs
        /\ TypeXfer /\ TypeRunning /\ TypeHist
    BY <1>0, TypeParts
  <2>2. /\ TypePc' /\ TypeJob' /\ TypeLoc' /\ TypeRm' /\ TypeLoad' /\ TypeRes' /\ TypeDevice' /\ TypeFs'
        /\ TypeXfer' /\ TypeRunning' /\ TypeHist'
    BY <1>1, <2>1 DEF TypePc, TypeJob, TypeLoc, TypeRm, TypeLoad, TypeRes, TypeDevice, TypeFs,
       TypeXfer, TypeRunning, TypeHist
  <2> QED
    BY <2>2, TypeNext
<1>3. FlowInv'
  BY <1>0, <1>1 DEF FlowInv, KindLoaded, Executed
<1>4. RequestInv' /\ LocalInv'
  BY <1>0, <1>1 DEF RequestInv, Asks, LocalInv, Exempt
<1>5. DownInv' /\ UpInv' /\ RunInv'
  BY <1>0, <1>1 DEF DownInv, DownOpen, UpInv, UpOpen, Has, File, RunInv, InPlace
<1>6. SweepInv'
  <2>1. Updating' => Updating
    BY <1>1 DEF Updating
  <2> QED
    BY <1>0, <1>1, <2>1 DEF SweepInv, Swept, Alone
<1>7. ResultInv'
  <2>1. pc' # "idle"
    BY <1>0, <1>1 DEF FlowInv
  <2> QED
    BY <2>1 DEF ResultInv, UploadHonest, TransferClosed, FirmwareAlone
<1> QED
  BY <1>2, <1>3, <1>4, <1>5, <1>6, <1>7 DEF DownloadInv

(* A request with the device stays backed while the thread goes on. *)
LEMMA WitnessKept ==
  ASSUME WitnessInv, UNCHANGED <<pc, job, lost, xfer, inbox>>
  PROVE  WitnessInv'
<1>1. Open' = Open
  BY DEF Open
<1>2. \A q, r : Backs(q, r)' <=> Backs(q, r)
  BY DEF Backs
<1> QED
  BY <1>1, <1>2 DEF WitnessInv

(* What an answer says stays true while device and call stand still. *)
LEMMA ContentKept ==
  ASSUME UNCHANGED <<pc, job, loc, rm, fs, xfer>>, tp'.req = tp.req, NEW p, Content(p)
  PROVE  Content(p)'
<1>1. /\ DownOpen' <=> DownOpen
      /\ InPlace' <=> InPlace
      /\ Has(job.ch, job.name)' <=> Has(job.ch, job.name)
  BY DEF DownOpen, InPlace, Has, File
<1>2. File' = File /\ \A k, m : UpOpen(k, m)' <=> UpOpen(k, m)
  BY DEF File, UpOpen
<1>3. /\ pc' = pc /\ loc' = loc /\ rm' = rm /\ fs' = fs /\ xfer' = xfer
      /\ tp'.req.name = tp.req.name
  OBVIOUS
<1>4. SUFFICES ASSUME p.sta = "OK" PROVE Content(p)'
  BY DEF Content
<1>5. /\ pc = "dlReq" => DownOpen
      /\ pc = "dlData" => IF loc.seq \in {"NONE", "LAST"} THEN InPlace /\ xfer.dir = "none"
                                                          ELSE DownOpen
      /\ pc = "dlAbort" => xfer.dir # "down"
      /\ pc = "ulAbort" => xfer.dir # "up"
      /\ pc = "md5" => Has(job.ch, job.name) /\ p.data = File
  BY <1>4 DEF Content
<1>6. pc = "ulReq" => /\ Has(job.ch, job.name) /\ p.len = Len(File) /\ p.max # 0
                      /\ UpOpen(0, Least(HostBlock, p.max))
  BY <1>4 DEF Content
<1>7. pc = "ulData" =>
        LET k == Len(loc.data) + Least(loc.max, loc.send) IN
        /\ p.crc = SubSeq(File, 1, k) /\ Len(loc.data) + Len(p.data) = k
        /\ IF loc.seq \in {"NONE", "LAST"} THEN xfer.dir = "none" ELSE UpOpen(k, loc.max)
  BY <1>4 DEF Content
<1>8. pc = "find" =>
        IF p.ext = "LAST"
        THEN \A n \in DOMAIN fs[rm.ch] : Index(n) <= Index(tp.req.name)
        ELSE /\ p.name \in DOMAIN fs[rm.ch]
             /\ \A n \in DOMAIN fs[rm.ch] :
                  Index(n) <= Index(tp.req.name) \/ Index(p.name) <= Index(n)
  BY <1>4 DEF Content
<1>9. (pc = "find" =>
        IF p.ext = "LAST"
        THEN \A n \in DOMAIN fs[rm.ch] : Index(n) <= Index(tp.req.name)
        ELSE /\ p.name \in DOMAIN fs[rm.ch]
             /\ \A n \in DOMAIN fs[rm.ch] :
                  Index(n) <= Index(tp.req.name) \/ Index(p.name) <= Index(n))'
  BY <1>3, <1>8
<1>10. (pc = "ulData" =>
        LET k == Len(loc.data) + Least(loc.max, loc.send) IN
        /\ p.crc = SubSeq(File, 1, k) /\ Len(loc.data) + Len(p.data) = k
        /\ IF loc.seq \in {"NONE", "LAST"} THEN xfer.dir = "none" ELSE UpOpen(k, loc.max))'
  BY <1>2, <1>3, <1>7
<1>11. (pc = "ulReq" => /\ Has(job.ch, job.name) /\ p.len = Len(File) /\ p.max # 0
                        /\ UpOpen(0, Least(HostBlock, p.max)))'
  BY <1>1, <1>2, <1>3, <1>6
<1> QED
  BY <1>1, <1>2, <1>3, <1>5, <1>9, <1>10, <1>11 DEF Content

(* The request goes into the mailbox. *)
LEMMA PutPacketStep ==
  ASSUME DownloadInv, PutPacket
  PROVE  DownloadInv'
<1>0. /\ TypeOK /\ TypeTp /\ TypeClock /\ TypeHist /\ TypeOut /\ TypeBound /\ TypeRm
      /\ FlowInv /\ RequestInv /\ TicketInv /\ LocalInv /\ DownInv
      /\ tp.st = "put" /\ inbox = <<>> /\ inbox' = <<tp.req>> /\ tp' = [tp EXCEPT !.st = "get"]
      /\ UNCHANGED <<hostVars, now, typeVars, outbox, fs, xfer, running, boundVars, histVars>>
  BY TypeParts DEF DownloadInv, PutPacket
<1>1. UNCHANGED <<pc, job, loc, rm, now, outbox, xfer, calls, faults, foreign, lateDir, spoiled, lost>>
  BY <1>0 DEF hostVars, boundVars, histVars
<1>2. /\ tp' \in TpType /\ tp'.st = "get" /\ tp'.req = tp.req /\ tp'.cnt = tp.cnt
      /\ tp.req \in PacketType
  <2>1. tp \in TpType
    BY <1>0 DEF TypeTp
  <2>2. tp' \in TpType
    BY <1>0, <2>1 DEF TpType
  <2> QED
    BY <1>0, <2>1, <2>2 DEF TpType
<1>3. TypeTp' /\ TypeIn' /\ TypeOut' /\ TypeClock' /\ TypeBound' /\ lateDir' \in BOOLEAN
  BY <1>0, <1>1, <1>2 DEF TypeTp, TypeIn, TypeOut, TypeClock, TypeBound, TypeHist
<1>4. inbox' # <<>> /\ Head(inbox') = tp'.req
  BY <1>0, <1>2
<1>5. \A i \in DOMAIN outbox : outbox[i] \in PacketType /\ Past(outbox[i])
  <2>1. \A i \in DOMAIN outbox : outbox[i] \in PacketType
    BY <1>0 DEF TypeOut
  <2> QED
    BY <1>0, <2>1 DEF TicketInv, Current
<1>6. \A p : Past(p)' <=> Past(p)
  BY <1>0, <1>1, <1>2 DEF Past
<1>7. \A p : Current(p)' => IsAnswer(p)
  BY <1>2 DEF Current, IsAnswer
<1>8. Tracked' => \A i \in DOMAIN outbox' : ~Current(outbox[i])'
  <2>1. Tracked' <=> Tracked
    BY <1>1 DEF Tracked
  <2>2. SUFFICES ASSUME Tracked, NEW i \in DOMAIN outbox PROVE ~Current(outbox[i])'
    BY <1>1, <2>1
  <2>3. ~IsAnswer(outbox[i])
    BY <1>0, <1>5, <2>2, NoLateAnswer
  <2> QED
    BY <1>1, <1>7, <2>3
<1>9. TicketInv'
  <2>1. \A i \in DOMAIN outbox' : Past(outbox[i])'
    BY <1>1, <1>5, <1>6
  <2>2. /\ pc' \in FileLabel => loc'.src # 0 /\ loc'.src <= now'
        /\ pc' \in {"md5", "delete"} => tp'.req.src # 0 /\ tp'.req.src <= now'
        /\ pc' \in {"md5", "delete"} /\ tp'.st \in {"put", "get"} => tp'.req.src = now'
    BY <1>0, <1>1, <1>2 DEF TicketInv
  <2>3. inbox' = <<tp'.req>>
    BY <1>0, <1>2
  <2> QED
    BY <1>2, <1>4, <1>8, <2>1, <2>2, <2>3 DEF TicketInv
<1>10. QuietInv' /\ AnswerInv'
  BY <1>0, <1>2, <1>8 DEF QuietInv, AnswerInv
<1>11. WitnessInv'
  <2>1. pc # "idle" /\ AsRequest(job) \in Open' /\ pc' = pc /\ job \in Job
    BY <1>0, <1>1 DEF FlowInv, Open
  <2>2. ASSUME tp.req.cmd = "DOWNLOAD_DATA"
        PROVE  xfer'.dir = "down" /\ Backs(AsRequest(job), tp.req)
    <3>1. pc = "dlData"
      BY <1>0, <2>2, AskFact
    <3>2. DownOpen /\ job.op \in {"FILE", "FIRMWARE", "MODULE", "STARTUP"}
      BY <1>0, <3>1 DEF DownInv, Unserved, FlowInv, DownLabel
    <3>3. /\ tp.req.crc = SubSeq(job.data, 1, loc.done + loc.send)
          /\ loc.done + loc.send <= Len(job.data)
      BY <1>0, <3>1 DEF RequestInv, LocalInv
    <3>4. loc.done + loc.send \in Nat /\ Len(job.data) \in Nat /\ job.data \in Units
      <4>1. loc.done \in Nat /\ loc.send \in Nat
        BY <1>0, TypeParts DEF TypeLoc, LocType
      <4> QED
        BY <2>1, <4>1, JobFact DEF Units
    <3>5. Len(tp.req.crc) = loc.done + loc.send
      BY <3>3, <3>4, PrefixFact
    <3>6. /\ AsRequest(job).kind = "write" /\ AsRequest(job).ch = job.ch
          /\ AsRequest(job).name = job.name /\ AsRequest(job).data = job.data
      BY <3>2 DEF AsRequest, Writes
    <3> QED
      BY <1>1, <2>1, <3>2, <3>3, <3>4, <3>5, <3>6, JobFact DEF Backs, DownOpen
  <2>3. ASSUME tp.req.cmd = "FILE_DELETE"
        PROVE  Removes(AsRequest(job), tp.req.ch, tp.req.name)
    <3>1. pc = "delete"
      BY <1>0, <2>3, AskFact
    <3>2. /\ tp.req.ch = rm.ch /\ tp.req.name = rm.name /\ job.op \in {"MODULE", "STARTUP"}
          /\ ~Exempt(rm.name)
      BY <1>0, <3>1 DEF RequestInv, FlowInv, LocalInv
    <3>3. rm.except \in {"none", "NXF"}
      BY <1>0 DEF TypeRm, RmType
    <3>4. /\ rm.except = "none" => job.ch = 0 /\ Kind[job.name] = "NXF"
          /\ rm.except = "NXF" => rm.ch = job.ch /\ Kind[job.name] = "NXO"
      BY <1>0, <3>1, <3>2 DEF LocalInv
    <3>5. /\ AsRequest(job).op = job.op /\ AsRequest(job).ch = job.ch
          /\ AsRequest(job).name = job.name
      BY DEF AsRequest
    <3> QED
      BY <3>2, <3>3, <3>4, <3>5 DEF Removes, Exempt
  <2>4. \A q, r : Backs(q, r)' <=> Backs(q, r)
    BY <1>1 DEF Backs
  <2>5. Head(inbox') = tp.req /\ lost' = lost
    BY <1>1, <1>2, <1>4
  <2> QED
    BY <2>1, <2>2, <2>3, <2>4, <2>5 DEF WitnessInv
<1>12. Unserved
  BY <1>0 DEF Unserved
<1> QED
  BY <1>0, <1>1, <1>2, <1>3, <1>9, <1>10, <1>11, <1>12, MailStep DEF histVars

(* A transfer of a packet ends without an answer: what the steps that give  *)
(* up have in common.                                                       *)
LEMMA GiveUp ==
  ASSUME DownloadInv, UNCHANGED <<hostVars, typeVars, fs, xfer, running, spoiled, lost, inbox>>,
         tp.st \in {"put", "get"}, NEW e \in {"PUT_TIMEOUT", "GET_TIMEOUT", "NOT_READY"},
         NEW p \in PacketType, tp' = Done(e, p), TypeBound', now' \in Nat, now <= now',
         tp.st = "get" => now' = now + 1 /\ lateDir' = (lateDir \/ IsDir(tp.req)),
         tp.st = "put" => UNCHANGED lateDir,
         TypeOut', \A i \in DOMAIN outbox' : \E j \in DOMAIN outbox : outbox'[i] = outbox[j]
  PROVE  DownloadInv'
<1>0. /\ TypeOK /\ TypeTp /\ TypeClock /\ TypeHist /\ TypeOut /\ TypeIn
      /\ FlowInv /\ RequestInv /\ TicketInv /\ QuietInv /\ WitnessInv
  BY TypeParts DEF DownloadInv
<1>1. UNCHANGED <<pc, job, loc, rm, bLoadState, res, eDeviceType, xfer, inbox, spoiled, lost>>
  BY DEF hostVars, typeVars
<1>2. /\ tp' \in TpType /\ tp'.st = "done" /\ tp'.req = tp.req /\ tp'.cnt = tp.cnt
      /\ tp'.lRet = e
  <2>1. tp \in TpType /\ e \in Result
    BY <1>0 DEF TypeTp, Result
  <2>2. tp' = [tp EXCEPT !.st = "done", !.lRet = e, !.ans = p]
    BY DEF Done
  <2>3. tp' \in TpType
    BY <2>1, <2>2 DEF TpType
  <2> QED
    BY <2>1, <2>2 DEF TpType
<1>3. TypeTp' /\ TypeIn' /\ TypeClock'
  BY <1>0, <1>1, <1>2 DEF TypeTp, TypeIn, TypeClock
<1>4. lateDir' \in BOOLEAN /\ (lateDir => lateDir') /\ (tp.st = "get" /\ IsDir(tp.req) => lateDir')
  <2>1. CASE tp.st = "get"
    <3>1. lateDir' = (lateDir \/ IsDir(tp.req))
      BY <2>1
    <3> QED
      BY <3>1, Zenon
  <2>2. CASE tp.st = "put"
    BY <1>0, <2>2 DEF TypeHist
  <2> QED
    BY <2>1, <2>2
<1>5. ASSUME NEW q \in PacketType, Past(q) \/ (tp.st = "get" /\ IsAnswer(q)) PROVE Past(q)'
  BY <1>1, <1>2, <1>4, <1>5, ToPast
<1>6. \A i \in DOMAIN outbox' : Past(outbox[i])'
  <2>1. TAKE i \in DOMAIN outbox'
  <2>2. PICK j \in DOMAIN outbox : outbox'[i] = outbox[j]
    OBVIOUS
  <2>3. outbox[j] \in PacketType /\ (Past(outbox[j]) \/ (tp.st = "get" /\ IsAnswer(outbox[j])))
    BY <1>0 DEF TypeOut, TicketInv, Current
  <2> QED
    BY <1>5, <2>2, <2>3
<1>7. inbox # <<>> => Past(Head(inbox))'
  <2>1. HAVE inbox # <<>>
  <2>2. Head(inbox) \in PacketType
    BY <1>0, <2>1 DEF TypeIn
  <2>3. Past(Head(inbox)) \/ (tp.st = "get" /\ IsAnswer(Head(inbox)))
    BY <1>0, <2>1 DEF TicketInv, IsAnswer
  <2> QED
    BY <1>5, <2>2, <2>3
<1>8. \A q : ~Current(q)'
  BY <1>2 DEF Current
<1>9. TicketInv'
  <2>1. now \in Nat
    BY <1>0 DEF TypeClock
  <2>2. /\ pc' \in FileLabel => loc'.src # 0 /\ loc'.src <= now'
        /\ pc' \in {"md5", "delete"} => tp'.req.src # 0 /\ tp'.req.src <= now'
    <3>1. pc \in FileLabel => loc.src # 0 /\ loc.src <= now /\ loc.src \in Nat
      BY <1>0, TypeParts DEF TicketInv, TypeLoc, LocType
    <3>2. pc \in {"md5", "delete"} => tp.req.src # 0 /\ tp.req.src <= now /\ tp.req.src \in Nat
      BY <1>0 DEF TicketInv, TypeTp, TpType, PacketType
    <3> QED
      BY <1>1, <1>2, <2>1, <3>1, <3>2
  <2> QED
    BY <1>1, <1>2, <1>6, <1>7, <1>8, <2>2 DEF TicketInv
<1>10. AnswerInv'
  BY <1>2, <1>8 DEF AnswerInv
<1>11. QuietInv'
  <2>1. Quiet' => Quiet
    BY <1>1, <1>4 DEF Quiet, Updating, Settled, Direction
  <2> QED
    BY <1>0, <1>1, <1>2, <2>1 DEF QuietInv, Calm
<1>12. WitnessInv'
  BY <1>0, <1>1, WitnessKept
<1>13. Unserved' => Unserved
  BY <1>1, <1>2 DEF Unserved
<1> QED
  BY <1>2, <1>3, <1>4, <1>9, <1>10, <1>11, <1>12, <1>13, MailStep

(* The mailbox stays full, or the device is not ready. *)
LEMMA PutFailsStep ==
  ASSUME DownloadInv, PutFails
  PROVE  DownloadInv'
<1>0. /\ TypeOK /\ TypeTp /\ TypeClock /\ TypeOut /\ TypeBound /\ tp.st = "put"
      /\ faults' = faults + 1
      /\ UNCHANGED <<hostVars, typeVars, devVars, calls, foreign, histVars>>
  BY TypeParts DEF DownloadInv, PutFails
<1>1. PICK e \in {"PUT_TIMEOUT", "NOT_READY"} :
        tp' = Done(e, tp.ans) /\ now' = IF e = "PUT_TIMEOUT" THEN now + 1 ELSE now
  BY DEF PutFails
<1>2. tp.ans \in PacketType /\ now \in Nat
  BY <1>0 DEF TypeTp, TpType, TypeClock
<1>3. now' \in Nat /\ now <= now' /\ TypeBound' /\ TypeOut'
  BY <1>0, <1>1, <1>2 DEF TypeBound, TypeOut, devVars
<1> QED
  BY <1>0, <1>1, <1>2, <1>3, GiveUp DEF devVars, histVars

(* No answer comes within the time-out. *)
LEMMA GetTimeoutStep ==
  ASSUME DownloadInv, GetTimeout
  PROVE  DownloadInv'
<1>0. /\ TypeOK /\ TypeTp /\ TypeClock /\ TypeOut /\ TypeBound /\ tp.st = "get"
      /\ tp' = Done("GET_TIMEOUT", tp.ans) /\ now' = now + 1 /\ faults' = faults + 1
      /\ lateDir' = (lateDir \/ IsDir(tp.req))
      /\ UNCHANGED <<hostVars, typeVars, devVars, calls, foreign, spoiled, lost>>
  BY TypeParts DEF DownloadInv, GetTimeout
<1>1. tp.ans \in PacketType /\ now \in Nat
  BY <1>0 DEF TypeTp, TpType, TypeClock
<1>2. now' \in Nat /\ now <= now' /\ TypeBound' /\ TypeOut'
  BY <1>0, <1>1 DEF TypeBound, TypeOut, devVars
<1> QED
  BY <1>0, <1>1, <1>2, GiveUp DEF devVars

(* A packet is taken out of the mailbox: the answer, or another one. *)
LEMMA GetPacketStep ==
  ASSUME DownloadInv, GetPacket, FloodTick = 1
  PROVE  DownloadInv'
<1> DEFINE p == Head(outbox)
<1>0. /\ TypeOK /\ TypeTp /\ TypeClock /\ TypeOut /\ TypeIn /\ TypeBound /\ TypeHist
      /\ FlowInv /\ RequestInv /\ TicketInv /\ QuietInv /\ AnswerInv /\ WitnessInv
      /\ tp.st = "get" /\ outbox # <<>> /\ outbox' = Tail(outbox)
      /\ UNCHANGED <<hostVars, typeVars, inbox, fs, xfer, running, boundVars, spoiled, lost>>
  BY TypeParts DEF DownloadInv, GetPacket
<1>1. /\ UNCHANGED <<pc, job, loc, rm, bLoadState, res, eDeviceType, fs, xfer, inbox, spoiled,
                     lost, calls, faults, foreign>>
  BY <1>0 DEF hostVars, typeVars, boundVars
<1>2. /\ p \in PacketType /\ 1 \in DOMAIN outbox /\ p = outbox[1] /\ TypeOut'
      /\ \A i \in DOMAIN outbox' : i + 1 \in DOMAIN outbox /\ outbox'[i] = outbox[i + 1] /\ i # 0
                                   /\ i \in Nat
  BY <1>0 DEF TypeOut
<1>3. TypeBound' /\ TypeIn'
  BY <1>0, <1>1 DEF TypeBound, TypeIn
<1>4. tp \in TpType /\ tp.cnt \in Nat /\ now \in Nat \ {0}
  BY <1>0 DEF TypeTp, TpType, TypeClock
<1>5. CASE IsAnswer(p) /\ tp' = Done("OK", p) /\ UNCHANGED <<now, lateDir>>
  <2>1. Current(outbox[1])
    BY <1>0, <1>2, <1>5 DEF Current
  <2>2. /\ tp' \in TpType /\ tp'.st = "done" /\ tp'.req = tp.req /\ tp'.cnt = tp.cnt
        /\ tp'.lRet = "OK" /\ tp'.ans = p
    <3>1. tp' = [tp EXCEPT !.st = "done", !.lRet = "OK", !.ans = p] /\ "OK" \in Result
      BY <1>5 DEF Done, Result
    <3>2. tp' \in TpType
      BY <1>2, <1>4, <3>1 DEF TpType
    <3> QED
      BY <1>4, <3>1, <3>2 DEF TpType
  <2>3. TypeTp' /\ TypeClock' /\ lateDir' \in BOOLEAN
    BY <1>0, <1>5, <2>2 DEF TypeTp, TypeClock, TypeHist
  <2>4. ASSUME NEW q \in PacketType, Past(q) \/ (IsAnswer(q) /\ ~Tracked) PROVE Past(q)'
    <3>1. now' \in Nat /\ now <= now' /\ lateDir' = lateDir
      BY <1>4, <1>5
    <3> QED
      BY <1>0, <1>1, <1>5, <2>2, <2>4, <3>1, ToPast
  <2>5. ASSUME NEW i \in DOMAIN outbox' PROVE Past(outbox[i])'
    <3>1. i + 1 \in DOMAIN outbox /\ outbox'[i] = outbox[i + 1] /\ i + 1 # 1 /\ outbox[i + 1] \in PacketType
      BY <1>0, <1>2 DEF TypeOut
    <3>2. Past(outbox[i + 1]) \/ Current(outbox[i + 1])
      BY <1>0, <3>1 DEF TicketInv
    <3>3. Tracked => ~Current(outbox[i + 1])
      BY <1>0, <1>2, <2>1, <3>1 DEF TicketInv
    <3> QED
      BY <2>4, <3>1, <3>2, <3>3 DEF Current
  <2>6. Tracked => inbox = <<>>
    BY <1>0, <1>2, <2>1 DEF TicketInv
  <2>7. inbox # <<>> => Past(Head(inbox))'
    <3>1. HAVE inbox # <<>>
    <3>2. Head(inbox) \in PacketType
      BY <1>0, <3>1 DEF TypeIn
    <3>3. Past(Head(inbox)) \/ IsAnswer(Head(inbox))
      BY <1>0, <3>1 DEF TicketInv, IsAnswer
    <3> QED
      BY <1>1, <2>4, <2>6, <3>1, <3>2, <3>3
  <2>8. (\A q : ~Current(q)') /\ (Tracked' <=> Tracked)
    BY <1>1, <1>5, <2>2 DEF Current, Tracked
  <2>9. TicketInv'
    <3>1. /\ pc' \in FileLabel => loc'.src # 0 /\ loc'.src <= now'
          /\ pc' \in {"md5", "delete"} => tp'.req.src # 0 /\ tp'.req.src <= now'
      BY <1>0, <1>1, <1>5, <2>2 DEF TicketInv
    <3> QED
      BY <1>1, <2>2, <2>5, <2>6, <2>7, <2>8, <3>1 DEF TicketInv
  <2>10. AnswerInv'
    <3>1. Tracked => Content(p)
      BY <1>0, <1>2, <2>1 DEF AnswerInv
    <3>2. \A q : Content(q) => Content(q)'
      BY <1>1, <2>2, ContentKept
    <3> QED
      BY <2>2, <2>8, <3>1, <3>2 DEF AnswerInv
  <2>11. QuietInv'
    <3>1. Quiet' <=> Quiet
      BY <1>1, <1>5 DEF Quiet, Updating, Settled, Direction
    <3> QED
      BY <1>0, <1>1, <2>2, <3>1 DEF QuietInv, Calm
  <2>12. WitnessInv' /\ (Unserved' => Unserved)
    BY <1>0, <1>1, <2>2, WitnessKept DEF Unserved
  <2> HIDE DEF p
  <2> QED
    BY <1>0, <1>2, <1>3, <1>5, <2>2, <2>3, <2>9, <2>10, <2>11, <2>12, MailStep
<1>6. CASE LookOn /\ tp' = [tp EXCEPT !.cnt = tp.cnt + 1] /\ UNCHANGED <<now, lateDir>>
  <2>1. /\ tp' \in TpType /\ tp'.st = "get" /\ tp'.req = tp.req /\ tp'.cnt = tp.cnt + 1
    <3>1. tp' \in TpType
      BY <1>4, <1>6 DEF TpType
    <3> QED
      BY <1>0, <1>4, <1>6, <3>1 DEF TpType
  <2>2. TypeTp' /\ TypeClock' /\ lateDir' \in BOOLEAN
    BY <1>0, <1>6, <2>1 DEF TypeTp, TypeClock, TypeHist, LookOn
  <2>3. /\ \A q : Past(q)' <=> Past(q)
        /\ \A q : Current(q)' <=> Current(q)
        /\ Tracked' <=> Tracked
    BY <1>0, <1>1, <1>6, <2>1 DEF Past, Current, IsAnswer, Tracked
  <2>4. TicketInv'
    <3>1. /\ pc' \in FileLabel => loc'.src # 0 /\ loc'.src <= now'
          /\ pc' \in {"md5", "delete"} => tp'.req.src # 0 /\ tp'.req.src <= now'
          /\ pc' \in {"md5", "delete"} /\ tp'.st \in {"put", "get"} => tp'.req.src = now'
      BY <1>0, <1>1, <1>6, <2>1 DEF TicketInv
    <3>2. \A i \in DOMAIN outbox' : Past(outbox[i])' \/ Current(outbox[i])'
      BY <1>0, <1>2, <2>3 DEF TicketInv
    <3>3. /\ inbox # <<>> => Past(Head(inbox))' \/ Head(inbox) = tp'.req
          /\ inbox = <<>> \/ inbox = <<tp'.req>>
      BY <1>0, <2>1, <2>3 DEF TicketInv
    <3>4. Tracked' /\ inbox # <<>> => \A i \in DOMAIN outbox' : ~Current(outbox[i])'
      BY <1>0, <1>2, <2>3 DEF TicketInv
    <3>5. ASSUME Tracked', NEW i \in DOMAIN outbox', NEW j \in DOMAIN outbox',
                 Current(outbox[i])', Current(outbox[j])'
          PROVE  i = j
      <4>1. i + 1 = j + 1
        BY <1>0, <1>2, <2>3, <3>5 DEF TicketInv
      <4> QED
        BY <1>2, <4>1
    <3> QED
      BY <1>1, <2>1, <3>1, <3>2, <3>3, <3>4, <3>5 DEF TicketInv
  <2>5. AnswerInv'
    <3>1. \A q : Content(q) => Content(q)'
      BY <1>1, <2>1, ContentKept
    <3> QED
      BY <1>0, <1>2, <2>1, <2>3, <3>1 DEF AnswerInv
  <2>6. QuietInv'
    <3>1. Quiet' <=> Quiet
      BY <1>1, <1>6 DEF Quiet, Updating, Settled, Direction
    <3> QED
      BY <1>0, <1>1, <2>1, <3>1 DEF QuietInv, Calm
  <2>7. WitnessInv' /\ (Unserved' => Unserved)
    BY <1>0, <1>1, <2>1, WitnessKept DEF Unserved
  <2> HIDE DEF p
  <2> QED
    BY <1>0, <1>2, <1>3, <1>6, <2>1, <2>2, <2>4, <2>5, <2>6, <2>7, MailStep
<1>7. CASE /\ tp' = Done("GET_TIMEOUT", p) /\ now' = now + FloodTick
           /\ lateDir' = (lateDir \/ IsDir(tp.req))
  <2>1. now' = now + 1 /\ now' \in Nat /\ now <= now'
    BY <1>4, <1>7
  <2>2. \A i \in DOMAIN outbox' : \E j \in DOMAIN outbox : outbox'[i] = outbox[j]
    BY <1>2
  <2> HIDE DEF p
  <2> QED
    BY <1>0, <1>2, <1>3, <1>7, <2>1, <2>2, GiveUp
<1> QED
  BY <1>5, <1>6, <1>7 DEF GetPacket

-----------------------------------------------------------------------------
(* The device.                                                              *)

(* The thread's own variables keep what they say. *)
LEMMA HostKept ==
  ASSUME FlowInv, RequestInv, LocalInv, UNCHANGED <<pc, job, loc, rm, bLoadState, tp>>
  PROVE  FlowInv' /\ RequestInv' /\ LocalInv'
<1>1. FlowInv'
  BY DEF FlowInv, KindLoaded, Executed
<1>2. RequestInv'
  BY DEF RequestInv, Asks
<1>3. LocalInv'
  BY DEF LocalInv, Exempt
<1> QED
  BY <1>1, <1>2, <1>3

(* Only packets on their way to the host change. *)
LEMMA OutboxStep ==
  ASSUME DownloadInv,
         UNCHANGED <<hostVars, tp, now, typeVars, inbox, fs, xfer, running, histVars>>,
         TypeOut', TypeBound', TicketInv', AnswerInv'
  PROVE  DownloadInv'
<1>0. /\ TypeOK /\ FlowInv /\ RequestInv /\ LocalInv /\ QuietInv /\ DownInv /\ UpInv /\ RunInv
      /\ SweepInv /\ WitnessInv /\ ResultInv
  BY DEF DownloadInv
<1>1. UNCHANGED <<pc, job, loc, rm, bLoadState, res, tp, now, eDeviceType, fModuleLoad, inbox, fs,
                  xfer, running, lateDir, spoiled, lost>>
  BY DEF hostVars, typeVars, histVars
<1>2. TypeOK'
  <2>1. /\ TypePc /\ TypeJob /\ TypeLoc /\ TypeRm /\ TypeLoad /\ TypeTp /\ TypeRes /\ TypeClock
        /\ TypeDevice /\ TypeIn /\ TypeFs /\ TypeXfer /\ TypeRunning /\ TypeHist
    BY <1>0, TypeParts
  <2>2. /\ TypePc' /\ TypeJob' /\ TypeLoc' /\ TypeRm' /\ TypeLoad' /\ TypeTp' /\ TypeRes' /\ TypeClock'
        /\ TypeDevice' /\ TypeIn' /\ TypeFs' /\ TypeXfer' /\ TypeRunning' /\ TypeHist'
    BY <1>1, <2>1 DEF TypePc, TypeJob, TypeLoc, TypeRm, TypeLoad, TypeTp, TypeRes, TypeClock,
       TypeDevice, TypeIn, TypeFs, TypeXfer, TypeRunning, TypeHist
  <2> QED
    BY <2>2, TypeNext
<1>3. FlowInv' /\ RequestInv' /\ LocalInv'
  BY <1>0, <1>1, HostKept
<1>4. Quiet' <=> Quiet
  BY <1>1 DEF Quiet, Updating, Settled, Direction
<1>5. QuietInv'
  BY <1>0, <1>1, <1>4 DEF QuietInv, Calm
<1>6. DownInv' /\ UpInv' /\ RunInv'
  BY <1>0, <1>1 DEF DownInv, DownOpen, UpInv, UpOpen, Has, File, RunInv, InPlace, Unserved
<1>7. SweepInv'
  BY <1>0, <1>1 DEF SweepInv, Swept, Alone, Updating
<1>8. WitnessInv'
  BY <1>0, <1>1, WitnessKept
<1>9. ResultInv'
  BY <1>0, <1>1 DEF ResultInv, UploadHonest, Has, TransferClosed, Direction, FirmwareAlone
<1> QED
  BY <1>2, <1>3, <1>5, <1>6, <1>7, <1>8, <1>9 DEF DownloadInv

(* The device carries a request out: it changes files only for a block of a *)
(* download and a deletion, and its answer says what is true.               *)
LEMMA Serve ==
  ASSUME DownloadInv, inbox # <<>>, inbox' = <<>>,
         UNCHANGED <<hostVars, tp, now, typeVars, calls, foreign, histVars>>,
         NEW r \in PacketType, r = Head(inbox),
         NEW a \in PacketType, a.cmd = r.cmd, a.src = r.src, a.id = r.id,
         outbox' = Append(outbox, a), TypeFs', TypeXfer', TypeRunning', TypeBound',
         r.cmd \notin {"DOWNLOAD_DATA", "FILE_DELETE"} => fs' = fs,
         r.cmd = "RUN_MODULE" => xfer' = xfer,
         r.cmd = "FILE_DELETE" => \A c \in Channel : DOMAIN fs'[c] \subseteq DOMAIN fs[c],
         r.cmd = "DOWNLOAD_DATA" =>
           \A c \in Channel : \A n \in DOMAIN fs'[c] :
             n \in DOMAIN fs[c] \/ (c = xfer.ch /\ n = xfer.name),
         tp.st = "get" /\ r = tp.req /\ Tracked => Content(a)'
  PROVE  DownloadInv'
<1>0. /\ TypeOK /\ FlowInv /\ RequestInv /\ TicketInv /\ LocalInv /\ QuietInv /\ DownInv /\ UpInv
      /\ RunInv /\ SweepInv /\ AnswerInv /\ ResultInv /\ TypeOut /\ TypeXfer /\ TypeFs
  BY TypeParts DEF DownloadInv
<1>1. UNCHANGED <<pc, job, loc, rm, bLoadState, res, tp, now, eDeviceType, fModuleLoad,
                  lateDir, spoiled, lost>>
  BY DEF hostVars, typeVars, histVars
<1>2. /\ TypeOut' /\ DOMAIN outbox' = 1 .. Len(outbox) + 1 /\ outbox'[Len(outbox) + 1] = a
      /\ \A i \in DOMAIN outbox' : i # Len(outbox) + 1 => i \in DOMAIN outbox /\ outbox'[i] = outbox[i]
  BY <1>0 DEF TypeOut
<1>3. TypeOK'
  <2>1. /\ TypePc /\ TypeJob /\ TypeLoc /\ TypeRm /\ TypeLoad /\ TypeTp /\ TypeRes /\ TypeClock
        /\ TypeDevice /\ TypeHist
    BY <1>0, TypeParts
  <2>2. /\ TypePc' /\ TypeJob' /\ TypeLoc' /\ TypeRm' /\ TypeLoad' /\ TypeTp' /\ TypeRes' /\ TypeClock'
        /\ TypeDevice' /\ TypeHist'
    BY <1>1, <2>1 DEF TypePc, TypeJob, TypeLoc, TypeRm, TypeLoad, TypeTp, TypeRes, TypeClock,
       TypeDevice, TypeHist
  <2>3. TypeIn'
    BY DEF TypeIn
  <2> QED
    BY <1>2, <2>2, <2>3, TypeNext
<1>4. FlowInv' /\ RequestInv' /\ LocalInv'
  BY <1>0, <1>1, HostKept
<1>5. /\ \A q : Past(q)' <=> Past(q)
      /\ \A q : Current(q)' <=> Current(q)
      /\ Tracked' <=> Tracked
  BY <1>1 DEF Past, Current, IsAnswer, Tracked
<1>6. tp.st = "get" => r = tp.req
  BY <1>0 DEF TicketInv
<1>7. Past(a) \/ Current(a)
  <2>1. Past(r) => Past(a)
    BY DEF Past
  <2>2. tp.st = "get" /\ r = tp.req => Current(a)
    BY DEF Current, IsAnswer
  <2> QED
    BY <1>0, <2>1, <2>2 DEF TicketInv
<1>8. TicketInv'
  <2>1. /\ pc' \in FileLabel => loc'.src # 0 /\ loc'.src <= now'
        /\ pc' \in {"md5", "delete"} => tp'.req.src # 0 /\ tp'.req.src <= now'
        /\ pc' \in {"md5", "delete"} /\ tp'.st \in {"put", "get"} => tp'.req.src = now'
    BY <1>0, <1>1 DEF TicketInv
  <2>2. \A i \in DOMAIN outbox' : Past(outbox'[i]) \/ Current(outbox'[i])
    BY <1>0, <1>2, <1>7 DEF TicketInv
  <2>3. Tracked => \A i \in DOMAIN outbox' : Current(outbox'[i]) => i = Len(outbox) + 1
    BY <1>0, <1>2 DEF TicketInv
  <2>4. \A i \in DOMAIN outbox' : Past(outbox[i])' \/ Current(outbox[i])'
    BY <1>5, <2>2
  <2>5. Tracked' => \A i \in DOMAIN outbox' : Current(outbox[i])' => i = Len(outbox) + 1
    BY <1>5, <2>3
  <2> QED
    BY <2>1, <2>4, <2>5 DEF TicketInv
<1>9. AnswerInv'
  <2>1. ASSUME Tracked, NEW i \in DOMAIN outbox', Current(outbox'[i]) PROVE Content(outbox[i])'
    <3>1. i = Len(outbox) + 1
      BY <1>0, <1>2, <2>1 DEF TicketInv
    <3>2. tp.st = "get"
      BY <2>1 DEF Current
    <3>3. Content(a)'
      BY <1>6, <2>1, <3>2
    <3> QED
      BY <1>2, <3>1, <3>3
  <2>2. ~(Tracked /\ tp.st = "done" /\ tp.lRet = "OK")
    BY <1>0 DEF TicketInv
  <2> QED
    BY <1>1, <1>5, <2>1, <2>2 DEF AnswerInv
<1>10. QuietInv'
  BY DEF QuietInv, Calm
<1>11. Quiet => r.cmd = "RUN_MODULE" \/ (tp.st \in {"get", "done"} /\ r = tp.req)
  BY <1>0 DEF QuietInv, Calm
<1>12. Unserved' => tp.st = "put"
  BY <1>1 DEF Unserved
<1>13. DownInv'
  <2>1. SUFFICES ASSUME pc = "dlData", tp.st = "put" PROVE DownOpen'
    BY <1>1, <1>12 DEF DownInv
  <2>2. xfer' = xfer
    BY <1>11, <2>1 DEF Quiet
  <2> QED
    BY <1>0, <1>1, <2>1, <2>2 DEF DownInv, DownOpen, Unserved
<1>14. UpInv'
  <2>1. ASSUME pc = "ulData" \/ (pc = "ulAbort" /\ loc.lRet = "OK") PROVE fs' = fs
    <3>1. r.cmd = "RUN_MODULE" \/ (tp.st \in {"get", "done"} /\ r = tp.req)
      BY <1>11, <2>1 DEF Quiet
    <3> QED
      BY <1>0, <2>1, <3>1, AskFact
  <2>2. ASSUME pc = "ulData", tp.st = "put" PROVE xfer' = xfer
    BY <1>11, <2>2 DEF Quiet
  <2>3. /\ pc = "ulData" \/ (pc = "ulAbort" /\ loc.lRet = "OK") =>
             File' = File /\ (Has(job.ch, job.name)' <=> Has(job.ch, job.name))
        /\ pc = "ulData" /\ tp.st = "put" => \A k, m : UpOpen(k, m) => UpOpen(k, m)'
    BY <1>1, <2>1, <2>2 DEF File, Has, UpOpen
  <2>4. tp.st = "put" => Unserved
    BY DEF Unserved
  <2> QED
    BY <1>0, <1>1, <1>12, <2>3, <2>4 DEF UpInv
<1>15. RunInv'
  <2>1. ASSUME pc \in {"run", "ident"} PROVE fs' = fs /\ xfer' = xfer
    <3>1. r.cmd = "RUN_MODULE" \/ (tp.st \in {"get", "done"} /\ r = tp.req)
      BY <1>11, <2>1 DEF Quiet
    <3>2. pc = "ident" => tp.st = "idle"
      BY <1>0 DEF FlowInv
    <3>3. r.cmd = "RUN_MODULE"
      BY <1>0, <2>1, <3>1, <3>2, AskFact
    <3> QED
      BY <3>3
  <2> QED
    BY <1>0, <1>1, <2>1 DEF RunInv, InPlace, Has, File
<1>16. SweepInv'
  <2>1. Updating' <=> Updating
    BY <1>1 DEF Updating
  <2>2. SUFFICES ASSUME Updating, pc \in {"find", "delete", "dlReq", "dlData"} PROVE SweepInv'
    BY <1>1, <2>1 DEF SweepInv
  <2>3. r.cmd = "RUN_MODULE" \/ (tp.st \in {"get", "done"} /\ r = tp.req)
    BY <1>11, <2>2 DEF Quiet
  <2>4. CASE fs' = fs
    BY <1>0, <1>1, <2>1, <2>4 DEF SweepInv, Swept, Alone
  <2>5. CASE pc = "delete" /\ r.cmd = "FILE_DELETE"
    <3>1. \A c \in Channel : Swept(c) => Swept(c)'
      BY <2>5 DEF Swept
    <3> QED
      BY <1>0, <1>1, <2>2, <2>5, <3>1 DEF SweepInv
  <2>6. CASE pc = "dlData" /\ r.cmd = "DOWNLOAD_DATA" /\ r = tp.req /\ tp.st \in {"get", "done"}
    <3>1. DownOpen
      BY <1>0, <2>6 DEF DownInv, Unserved
    <3>2. job.ch = 0
      BY <1>0, <2>2, <2>6 DEF LocalInv, Updating
    <3>3. Alone
      BY <1>0, <2>2, <2>6 DEF SweepInv
    <3>4. Alone'
      BY <1>1, <2>6, <3>1, <3>2, <3>3 DEF Alone, DownOpen
    <3> QED
      BY <1>1, <2>6, <3>4 DEF SweepInv
  <2>7. r.cmd \notin {"DOWNLOAD_DATA", "FILE_DELETE"} \/ (pc = "delete" /\ r.cmd = "FILE_DELETE")
        \/ (pc = "dlData" /\ r.cmd = "DOWNLOAD_DATA" /\ r = tp.req /\ tp.st \in {"get", "done"})
    BY <1>0, <2>2, <2>3, AskFact
  <2> QED
    BY <2>4, <2>5, <2>6, <2>7
<1>17. WitnessInv'
  BY DEF WitnessInv
<1>18. ResultInv'
  <2>1. ASSUME pc = "idle", Settled PROVE fs' = fs /\ xfer' = xfer
    <3>1. tp.st = "idle"
      BY <1>0, <2>1 DEF FlowInv
    <3> QED
      BY <1>11, <2>1, <3>1 DEF Quiet
  <2>2. /\ res.op \in {"UPLOAD", "UPLOAD_FW"} => Direction(res) # "neither"
        /\ res.load = "FIRMWARE+" => Direction(res) # "neither"
    BY DEF Direction
  <2>3. Direction(res)' = Direction(res) /\ xfer'.dir # "neither"
    BY <1>1 DEF Direction, TypeXfer, XferType
  <2>4. UploadHonest'
    BY <1>0, <1>1, <2>1, <2>2 DEF ResultInv, UploadHonest, Settled, Has
  <2>5. TransferClosed'
    BY <1>0, <1>1, <2>1, <2>3 DEF ResultInv, TransferClosed, Settled
  <2>6. FirmwareAlone'
    BY <1>0, <1>1, <2>1, <2>2 DEF ResultInv, FirmwareAlone, Settled
  <2> QED
    BY <2>4, <2>5, <2>6 DEF ResultInv
<1> QED
  BY <1>3, <1>4, <1>8, <1>9, <1>10, <1>13, <1>14, <1>15, <1>16, <1>17, <1>18 DEF DownloadInv

\* The frame of DeviceServe for its request.
Serving(r) ==
  /\ inbox # <<>> /\ inbox' = <<>> /\ r = Head(inbox)
  /\ UNCHANGED <<hostVars, tp, now, typeVars, calls, foreign, histVars>>

(* An answer carries command, ulSrc and ulId of its request. *)
LEMMA AnswerType ==
  ASSUME NEW r \in PacketType
  PROVE  /\ Answer(r) \in PacketType /\ Answer(r).cmd = r.cmd /\ Answer(r).src = r.src
         /\ Answer(r).id = r.id /\ Answer(r).sta = "OK" /\ Answer(r).ext = "NONE"
         /\ Refusal(r) \in PacketType /\ Refusal(r).cmd = r.cmd /\ Refusal(r).src = r.src
         /\ Refusal(r).id = r.id /\ Refusal(r).sta = "REFUSED"
<1>1. r.cmd \in Command /\ r.src \in Nat /\ r.id \in Nat
  BY DEF PacketType
<1>2. /\ Answer(r) \in PacketType /\ Answer(r).cmd = r.cmd /\ Answer(r).src = r.src
      /\ Answer(r).id = r.id /\ Answer(r).sta = "OK" /\ Answer(r).ext = "NONE"
  BY <1>1, PacketFact DEF Answer
<1> HIDE DEF Answer
<1>3. /\ Refusal(r) \in PacketType /\ Refusal(r).cmd = r.cmd /\ Refusal(r).src = r.src
      /\ Refusal(r).id = r.id /\ Refusal(r).sta = "REFUSED"
  BY <1>2 DEF Refusal, PacketType
<1> QED
  BY <1>2, <1>3

(* The device refuses a request. *)
LEMMA ServeRefusal ==
  ASSUME DownloadInv, NEW r \in PacketType, Serving(r), outbox' = Append(outbox, Refusal(r)),
         UNCHANGED <<fs, xfer, running>>, faults' \in Nat
  PROVE  DownloadInv'
<1>0. TypeOK /\ TypeFs /\ TypeXfer /\ TypeRunning /\ TypeBound
  BY TypeParts DEF DownloadInv
<1>1. PICK a \in PacketType : a = Refusal(r)
  BY AnswerType
<1>2. a.cmd = r.cmd /\ a.src = r.src /\ a.id = r.id /\ a.sta = "REFUSED"
  BY <1>1, AnswerType
<1>3. TypeFs' /\ TypeXfer' /\ TypeRunning' /\ TypeBound'
  BY <1>0 DEF TypeFs, TypeXfer, TypeRunning, TypeBound, Serving
<1>4. Content(a)'
  BY <1>2 DEF Content
<1>5. outbox' = Append(outbox, a)
  BY <1>1
<1>6. \A c \in Channel : \A n \in DOMAIN fs'[c] : n \in DOMAIN fs[c]
  OBVIOUS
<1> QED
  BY <1>2, <1>3, <1>4, <1>5, <1>6, Serve DEF Serving

(* The device starts a module. *)
LEMMA ServeRun ==
  ASSUME DownloadInv, NEW r \in PacketType, Serving(r), r.cmd = "RUN_MODULE", Has(r.ch, r.name),
         running' \in {running, running \cup {r.ch}}, outbox' = Append(outbox, Answer(r)),
         UNCHANGED <<fs, xfer, faults>>
  PROVE  DownloadInv'
<1>0. TypeOK /\ TypeFs /\ TypeXfer /\ TypeRunning /\ TypeBound /\ FlowInv /\ RequestInv
  BY TypeParts DEF DownloadInv
<1>1. PICK a \in PacketType : a = Answer(r)
  BY AnswerType
<1>2. a.cmd = r.cmd /\ a.src = r.src /\ a.id = r.id
  BY <1>1, AnswerType
<1>3. r.ch \in Channel
  BY DEF PacketType
<1>4. TypeFs' /\ TypeXfer' /\ TypeRunning' /\ TypeBound'
  BY <1>0, <1>3 DEF TypeFs, TypeXfer, TypeRunning, TypeBound, Serving
<1>5. ~(tp.st = "get" /\ r = tp.req /\ Tracked)
  BY <1>0, AskFact DEF Tracked
<1>6. outbox' = Append(outbox, a)
  BY <1>1
<1> QED
  BY <1>2, <1>4, <1>5, <1>6, Serve DEF Serving

(* The smallest of a set of places. *)
LEMMA FirstFact ==
  ASSUME NEW S \in SUBSET Nat, S # {}
  PROVE  FirstOf(S) \in S /\ \A j \in S : FirstOf(S) <= j
<1> DEFINE R == OpToRel(<, Nat)
<1>1. IsWellFoundedOn(R, Nat)
  BY NatLessThanWellFounded, Zenon
<1>2. \A x, y \in Nat : x < y => <<x, y>> \in R
  BY DEF OpToRel
<1> HIDE DEF R
<1>3. PICK x \in S : \A y \in S : <<y, x>> \notin R
  BY <1>1, WFMin
<1>4. ASSUME NEW y \in S PROVE x <= y
  <2>1. ~(y < x)
    BY <1>2, <1>3
  <2> QED
    BY <2>1
<1> QED
  BY <1>4 DEF FirstOf

(* Place and name of a file in the directory. *)
LEMMA DirFact ==
  /\ DOMAIN Dir \subseteq Nat \ {0}
  /\ \A n \in Name : Index(n) \in DOMAIN Dir /\ Dir[Index(n)] = n
  /\ \A i \in DOMAIN Dir : Dir[i] \in Name /\ Index(Dir[i]) = i
  /\ \A n \in AnyName : Index(n) \in Nat
<1>1. DOMAIN Dir \subseteq Nat \ {0} /\ \A i, j \in DOMAIN Dir : Dir[i] = Dir[j] => i = j
  BY DownloadAssumption
<1>2. ASSUME NEW n \in Name PROVE Index(n) \in DOMAIN Dir /\ Dir[Index(n)] = n
  <2>1. n # NoName
    BY ConstFact
  <2>2. \E i \in DOMAIN Dir : Dir[i] = n
    BY DEF Name
  <2> QED
    BY <2>1, <2>2 DEF Index
<1>3. \A i \in DOMAIN Dir : Dir[i] \in Name
  BY DEF Name
<1>4. \A i \in DOMAIN Dir : Index(Dir[i]) = i
  BY <1>1, <1>2, <1>3
<1>5. \A n \in AnyName : Index(n) \in Nat
  BY <1>1, <1>2, IndexFact DEF AnyName
<1> QED
  BY <1>1, <1>2, <1>3, <1>4, <1>5

(* The device lists its directory, deletes a file or computes a checksum. *)
LEMMA ServeFileStep ==
  ASSUME DownloadInv, NEW r \in PacketType, Serving(r), ServeFile(r),
         UNCHANGED <<xfer, running, faults>>
  PROVE  DownloadInv'
<1>0. /\ TypeOK /\ TypeFs /\ TypeXfer /\ TypeRunning /\ TypeBound /\ FlowInv /\ RequestInv
      /\ r.ch \in Channel /\ r.name \in AnyName
  BY TypeParts DEF DownloadInv, PacketType, AnyName
<1>1. TypeXfer' /\ TypeRunning' /\ TypeBound'
  BY <1>0 DEF TypeXfer, TypeRunning, TypeBound, Serving
<1>2. UNCHANGED <<pc, job, loc, rm, tp>>
  BY DEF Serving, hostVars
<1>3. CASE /\ r.cmd = "DIR_LIST" /\ UNCHANGED fs
           /\ LET S == Listed(r.ch, r.name) IN
              outbox' = Append(outbox, IF S = {} THEN [Answer(r) EXCEPT !.ext = "LAST"]
                             ELSE [Answer(r) EXCEPT !.name = Dir[FirstOf(S)]])
  <2> DEFINE S == Listed(r.ch, r.name)
  <2>1. S \in SUBSET (DOMAIN Dir) /\ S \in SUBSET Nat
    BY DirFact DEF Listed
  <2>2. S # {} => FirstOf(S) \in S /\ \A j \in S : FirstOf(S) <= j
    BY <2>1, FirstFact
  <2>3. \A n \in DOMAIN fs[r.ch] : n \in Name
    BY <1>0 DEF TypeFs
  <2>4. \A n \in DOMAIN fs[r.ch] : Index(n) <= Index(r.name) \/ Index(n) \in S
    <3>1. TAKE n \in DOMAIN fs[r.ch]
    <3>2. Index(n) \in DOMAIN Dir /\ Dir[Index(n)] = n /\ Index(n) \in Nat /\ Index(r.name) \in Nat
      BY <1>0, <2>3, DirFact
    <3>3. Index(n) <= Index(r.name) \/ Index(n) > Index(r.name)
      BY <3>2
    <3> QED
      BY <3>2, <3>3 DEF Listed, Has
  <2>5. \A i \in S : Dir[i] \in DOMAIN fs[r.ch] /\ Dir[i] \in Name /\ Index(Dir[i]) = i
    BY <2>1, DirFact DEF Listed, Has
  <2> HIDE DEF S
  <2>6. PICK a : a = IF S = {} THEN [Answer(r) EXCEPT !.ext = "LAST"]
                     ELSE [Answer(r) EXCEPT !.name = Dir[FirstOf(S)]]
    OBVIOUS
  <2>7. /\ a \in PacketType /\ a.cmd = r.cmd /\ a.src = r.src /\ a.id = r.id
        /\ S = {} => a.ext = "LAST"
        /\ S # {} => a.ext = "NONE" /\ a.name = Dir[FirstOf(S)]
    <3>1. CASE S = {}
      <4>1. a = [Answer(r) EXCEPT !.ext = "LAST"]
        BY <2>6, <3>1
      <4> QED
        BY <3>1, <4>1, AnswerType DEF PacketType, Ext
    <3>2. CASE S # {}
      <4>1. a = [Answer(r) EXCEPT !.name = Dir[FirstOf(S)]]
        BY <2>6, <3>2
      <4>2. Dir[FirstOf(S)] \in Name
        BY <2>2, <2>5, <3>2
      <4> QED
        BY <3>2, <4>1, <4>2, AnswerType DEF PacketType
    <3> QED
      BY <3>1, <3>2
  <2>8. outbox' = Append(outbox, a)
    BY <1>3, <2>6 DEF S
  <2>9. ASSUME tp.st = "get", r = tp.req PROVE Content(a)'
    <3>1. pc = "find" /\ r.ch = rm.ch
      BY <1>0, <1>3, <2>9, AskFact DEF RequestInv
    <3>2. a.ext = "LAST" => \A n \in DOMAIN fs[rm.ch] : Index(n) <= Index(r.name)
      BY <2>4, <2>7, <3>1
    <3>3. a.ext # "LAST" => /\ a.name \in DOMAIN fs[rm.ch]
                            /\ \A n \in DOMAIN fs[rm.ch] :
                                 Index(n) <= Index(r.name) \/ Index(a.name) <= Index(n)
      BY <2>2, <2>4, <2>5, <2>7, <3>1
    <3>4. pc' = "find" /\ rm' = rm /\ fs' = fs /\ tp'.req.name = r.name
      BY <1>2, <1>3, <2>9, <3>1
    <3> QED
      BY <3>2, <3>3, <3>4 DEF Content
  <2>10. TypeFs'
    BY <1>0, <1>3 DEF TypeFs
  <2> QED
    BY <1>1, <1>3, <2>7, <2>8, <2>9, <2>10, Serve DEF Serving
<1>4. CASE /\ r.cmd = "FILE_DELETE" /\ Has(r.ch, r.name)
           /\ fs' = Erase(r.ch, r.name) /\ outbox' = Append(outbox, Answer(r))
  <2>1. PICK a \in PacketType : a = Answer(r)
    BY AnswerType
  <2>2. a.cmd = r.cmd /\ a.src = r.src /\ a.id = r.id /\ outbox' = Append(outbox, a)
    BY <1>4, <2>1, AnswerType
  <2>3. fs' = [fs EXCEPT ![r.ch] = [m \in DOMAIN fs[r.ch] \ {r.name} |-> fs[r.ch][m]]]
    BY <1>4 DEF Erase
  <2>4. DOMAIN fs' = Channel /\ \A c \in Channel :
          /\ DOMAIN fs'[c] \subseteq DOMAIN fs[c]
          /\ \A n \in DOMAIN fs'[c] : fs'[c][n] = fs[c][n]
    BY <1>0, <2>3 DEF TypeFs
  <2>5. TypeFs'
    BY <1>0, <2>4 DEF TypeFs
  <2>6. ASSUME tp.st = "get", r = tp.req PROVE Content(a)'
    <3>1. pc' = "delete"
      BY <1>0, <1>2, <1>4, <2>6, AskFact
    <3> QED
      BY <3>1 DEF Content
  <2> QED
    BY <1>1, <1>4, <2>2, <2>4, <2>5, <2>6, Serve DEF Serving
<1>5. CASE /\ r.cmd = "GET_MD5" /\ Has(r.ch, r.name) /\ UNCHANGED fs
           /\ outbox' = Append(outbox, [Answer(r) EXCEPT !.data = fs[r.ch][r.name]])
  <2>1. fs[r.ch][r.name] \in Units
    BY <1>0, <1>5 DEF TypeFs, Has
  <2>2. PICK a : a = [Answer(r) EXCEPT !.data = fs[r.ch][r.name]]
    OBVIOUS
  <2>3. /\ a \in PacketType /\ a.cmd = r.cmd /\ a.src = r.src /\ a.id = r.id
        /\ a.data = fs[r.ch][r.name] /\ outbox' = Append(outbox, a)
    BY <1>5, <2>1, <2>2, AnswerType DEF PacketType
  <2>4. ASSUME tp.st = "get", r = tp.req PROVE Content(a)'
    <3>1. pc = "md5" /\ r.ch = job.ch /\ r.name = job.name
      BY <1>0, <1>5, <2>4, AskFact DEF RequestInv
    <3>2. pc' = "md5" /\ job' = job /\ fs' = fs
      BY <1>2, <1>5, <3>1
    <3>3. Has(job.ch, job.name)' /\ a.data = File'
      BY <1>5, <2>3, <3>1, <3>2 DEF Has, File
    <3> QED
      BY <3>2, <3>3 DEF Content
  <2>5. TypeFs'
    BY <1>0, <1>5 DEF TypeFs
  <2> QED
    BY <1>1, <1>5, <2>3, <2>4, <2>5, Serve DEF Serving
<1> QED
  BY <1>3, <1>4, <1>5 DEF ServeFile

(* The device opens a download, takes a block of it or ends it. *)
LEMMA ServeDownloadStep ==
  ASSUME DownloadInv, NEW r \in PacketType, Serving(r), ServeDownload(r),
         UNCHANGED <<running, faults>>
  PROVE  DownloadInv'
<1>0. /\ TypeOK /\ TypeFs /\ TypeXfer /\ TypeRunning /\ TypeBound /\ FlowInv /\ RequestInv
      /\ LocalInv /\ DownInv
  BY TypeParts DEF DownloadInv
<1>1. TypeRunning' /\ TypeBound'
  BY <1>0 DEF TypeRunning, TypeBound, Serving
<1>2. UNCHANGED <<pc, job, loc, rm, tp>>
  BY DEF Serving, hostVars
<1>3. /\ r.ch \in Channel /\ r.name \in AnyName /\ r.len \in Nat /\ r.data \in Units
      /\ r.blk \in Nat
  BY DEF PacketType, AnyName
<1>4. NoXfer \in XferType
  BY ConstFact DEF XferType, NoXfer, AnyName
<1>5. CASE /\ r.cmd = "DOWNLOAD_REQ" /\ UNCHANGED fs
           /\ \E m \in DevBlock :
                /\ outbox' = Append(outbox, [Answer(r) EXCEPT !.max = m])
                /\ xfer' = [NoXfer EXCEPT !.dir = "down", !.ch = r.ch,
                               !.name = r.name, !.len = r.len, !.max = m]
  <2>1. PICK m \in DevBlock :
          /\ outbox' = Append(outbox, [Answer(r) EXCEPT !.max = m])
          /\ xfer' = [NoXfer EXCEPT !.dir = "down", !.ch = r.ch,
                         !.name = r.name, !.len = r.len, !.max = m]
    BY <1>5
  <2>2. m \in Nat
    BY ConstFact
  <2>3. PICK a : a = [Answer(r) EXCEPT !.max = m]
    OBVIOUS
  <2>4. /\ a \in PacketType /\ a.cmd = r.cmd /\ a.src = r.src /\ a.id = r.id
        /\ outbox' = Append(outbox, a)
    BY <2>1, <2>2, <2>3, AnswerType DEF PacketType
  <2>5. TypeFs'
    BY <1>0, <1>5 DEF TypeFs
  <2>6. TypeXfer'
    BY <1>3, <1>4, <2>1, <2>2 DEF TypeXfer, XferType
  <2>7. xfer'.dir = "down" /\ xfer'.ch = r.ch /\ xfer'.name = r.name /\ xfer'.len = r.len
    BY <1>4, <2>1 DEF XferType
  <2>8. ASSUME tp.st = "get", r = tp.req PROVE Content(a)'
    <3>1. /\ pc = "dlReq" /\ r.ch = job.ch /\ r.name = job.name /\ r.len = Len(job.data)
      BY <1>0, <1>5, <2>8, AskFact DEF RequestInv
    <3>2. DownOpen'
      BY <1>2, <2>7, <3>1 DEF DownOpen
    <3>3. pc' = "dlReq"
      BY <1>2, <3>1
    <3> QED
      BY <3>2, <3>3 DEF Content
  <2> QED
    BY <1>1, <1>5, <2>4, <2>5, <2>6, <2>8, Serve DEF Serving
<1> DEFINE data == xfer.data \o r.data
           last == r.ext \in {"NONE", "LAST"}
<1>6. CASE /\ r.cmd = "DOWNLOAD_DATA" /\ xfer.dir = "down" /\ r.crc = data
           /\ last => Len(data) = xfer.len
           /\ outbox' = Append(outbox, Answer(r))
           /\ fs' = IF last THEN Place(xfer.ch, xfer.name, data) ELSE fs
           /\ xfer' = IF last THEN NoXfer ELSE [xfer EXCEPT !.blk = xfer.blk + 1, !.data = data]
  <2>1. PICK a \in PacketType : a = Answer(r)
    BY AnswerType
  <2>2. a.cmd = r.cmd /\ a.src = r.src /\ a.id = r.id /\ outbox' = Append(outbox, a)
    BY <1>6, <2>1, AnswerType
  <2>3. /\ xfer.data \in Units /\ data \in Units /\ xfer.ch \in Channel /\ xfer.name \in AnyName
        /\ xfer.blk + 1 \in Nat /\ xfer \in XferType
    <3>1. xfer.data \in Units /\ xfer.ch \in Channel /\ xfer.name \in AnyName /\ xfer.blk \in Nat
          /\ xfer \in XferType
      BY <1>0 DEF TypeXfer, XferType
    <3> QED
      BY <1>3, <3>1 DEF Units
  <2> HIDE DEF data
  <2>4. xfer.name \in Name
    BY <1>6 DEF Serving, DownloadInv, WitnessInv, Backs
  <2>5. /\ TypeFs'
        /\ \A c \in Channel : \A n \in DOMAIN fs'[c] :
             n \in DOMAIN fs[c] \/ (c = xfer.ch /\ n = xfer.name)
        /\ last => xfer.name \in DOMAIN fs'[xfer.ch] /\ fs'[xfer.ch][xfer.name] = data
    <3>1. CASE ~last
      BY <1>0, <1>6, <3>1 DEF TypeFs
    <3>2. CASE last
      <4>1. fs' = [fs EXCEPT ![xfer.ch] = [m \in DOMAIN fs[xfer.ch] \cup {xfer.name} |->
                                            IF m = xfer.name THEN data ELSE fs[xfer.ch][m]]]
        BY <1>6, <3>2 DEF Place
      <4>2. DOMAIN fs' = Channel /\ \A c \in Channel : c # xfer.ch => fs'[c] = fs[c]
        BY <1>0, <4>1 DEF TypeFs
      <4>3. fs'[xfer.ch] = [m \in DOMAIN fs[xfer.ch] \cup {xfer.name} |->
                              IF m = xfer.name THEN data ELSE fs[xfer.ch][m]]
        BY <1>0, <2>3, <4>1 DEF TypeFs
      <4>4. \A c \in Channel : /\ DOMAIN fs'[c] \subseteq Name
                               /\ \A n \in DOMAIN fs'[c] : fs'[c][n] \in Units
        BY <1>0, <2>3, <2>4, <4>2, <4>3 DEF TypeFs
      <4> QED
        BY <4>2, <4>3, <4>4 DEF TypeFs
    <3> QED
      BY <3>1, <3>2
  <2>6. TypeXfer' /\ (last => xfer'.dir = "none")
        /\ (~last => xfer'.dir = "down" /\ xfer'.ch = xfer.ch /\ xfer'.name = xfer.name
                     /\ xfer'.len = xfer.len)
    <3>1. CASE last
      BY <1>4, <1>6, <3>1 DEF TypeXfer, NoXfer
    <3>2. CASE ~last
      <4>1. xfer' = [xfer EXCEPT !.blk = xfer.blk + 1, !.data = data]
        BY <1>6, <3>2
      <4>2. xfer' \in XferType
        BY <2>3, <4>1 DEF XferType
      <4> QED
        BY <1>6, <2>3, <3>2, <4>1, <4>2 DEF TypeXfer, XferType
    <3> QED
      BY <3>1, <3>2
  <2>7. ASSUME tp.st = "get", r = tp.req PROVE Content(a)'
    <3>1. /\ pc = "dlData" /\ r.ext = loc.seq
          /\ r.crc = SubSeq(job.data, 1, loc.done + loc.send)
      BY <1>0, <1>6, <2>7, AskFact DEF RequestInv
    <3>2. DownOpen
      BY <1>0, <2>7, <3>1 DEF DownInv, Unserved, Serving
    <3>3. CASE last
      <4>1. job.data \in Units /\ loc.done + loc.send \in Nat /\ loc.done + loc.send <= Len(job.data)
        <5>1. loc.done \in Nat /\ loc.send \in Nat
          BY <1>0, TypeParts DEF TypeLoc, LocType
        <5>2. job.data \in Units
          BY <1>0, <3>1, JobFact DEF FlowInv
        <5> QED
          BY <1>0, <3>1, <5>1, <5>2 DEF LocalInv
      <4>2. Len(data) = loc.done + loc.send /\ Len(data) = Len(job.data)
        BY <1>6, <3>1, <3>2, <3>3, <4>1, PrefixFact DEF DownOpen
      <4>3. data = job.data
        BY <1>6, <3>1, <4>1, <4>2, PrefixFact
      <4>4. InPlace' /\ xfer'.dir = "none"
        BY <1>2, <2>5, <2>6, <3>2, <3>3, <4>3 DEF InPlace, Has, File, DownOpen
      <4> QED
        BY <1>2, <3>1, <3>3, <4>4 DEF Content
    <3>4. CASE ~last
      <4>1. DownOpen'
        BY <1>2, <2>6, <3>2, <3>4 DEF DownOpen
      <4> QED
        BY <1>2, <3>1, <3>4, <4>1 DEF Content
    <3> QED
      BY <3>3, <3>4
  <2> HIDE DEF last
  <2> QED
    BY <1>1, <1>6, <2>2, <2>5, <2>6, <2>7, Serve DEF Serving
<1>7. CASE outbox' = Append(outbox, Refusal(r)) /\ UNCHANGED <<fs, xfer>>
  BY <1>0, <1>7, ServeRefusal DEF TypeBound
<1>8. CASE /\ r.cmd = "DOWNLOAD_ABORT" /\ outbox' = Append(outbox, Answer(r))
           /\ xfer' = IF xfer.dir = "down" THEN NoXfer ELSE xfer
           /\ UNCHANGED fs
  <2>1. PICK a \in PacketType : a = Answer(r)
    BY AnswerType
  <2>2. a.cmd = r.cmd /\ a.src = r.src /\ a.id = r.id /\ outbox' = Append(outbox, a)
    BY <1>8, <2>1, AnswerType
  <2>3. TypeFs' /\ TypeXfer' /\ xfer'.dir # "down"
    BY <1>0, <1>4, <1>8 DEF TypeFs, TypeXfer, NoXfer
  <2>4. ASSUME tp.st = "get", r = tp.req PROVE Content(a)'
    <3>1. pc' = "dlAbort"
      BY <1>0, <1>2, <1>8, <2>4, AskFact
    <3> QED
      BY <2>3, <3>1 DEF Content
  <2> QED
    BY <1>1, <1>8, <2>2, <2>3, <2>4, Serve DEF Serving
<1> QED
  BY <1>5, <1>6, <1>7, <1>8 DEF ServeDownload

(* The device opens an upload, sends a block of it or ends it. *)
LEMMA ServeUploadStep ==
  ASSUME DownloadInv, NEW r \in PacketType, Serving(r), ServeUpload(r),
         UNCHANGED <<fs, running, faults>>
  PROVE  DownloadInv'
<1>0. /\ TypeOK /\ TypeFs /\ TypeXfer /\ TypeRunning /\ TypeBound /\ FlowInv /\ RequestInv
      /\ UpInv
  BY TypeParts DEF DownloadInv
<1>1. TypeRunning' /\ TypeBound' /\ TypeFs'
  BY <1>0 DEF TypeRunning, TypeBound, TypeFs, Serving
<1>2. UNCHANGED <<pc, job, loc, rm, tp>>
  BY DEF Serving, hostVars
<1>3. r.ch \in Channel /\ r.name \in AnyName /\ r.max \in Nat
  BY DEF PacketType, AnyName
<1>4. NoXfer \in XferType /\ NoXfer.len = 0
  BY ConstFact DEF XferType, NoXfer, AnyName
<1>5. CASE /\ r.cmd = "UPLOAD_REQ" /\ Has(r.ch, r.name)
           /\ \E m \in DevBlock \ {0} :
                LET block == Least(m, r.max) IN
                /\ outbox' = Append(outbox, [Answer(r) EXCEPT !.max = m,
                                       !.len = Len(fs[r.ch][r.name])])
                /\ xfer' = [NoXfer EXCEPT !.dir = "up", !.ch = r.ch, !.name = r.name,
                               !.data = fs[r.ch][r.name], !.max = block]
  <2>1. PICK m \in DevBlock \ {0} :
          /\ outbox' = Append(outbox, [Answer(r) EXCEPT !.max = m, !.len = Len(fs[r.ch][r.name])])
          /\ xfer' = [NoXfer EXCEPT !.dir = "up", !.ch = r.ch, !.name = r.name,
                         !.data = fs[r.ch][r.name], !.max = Least(m, r.max)]
    BY <1>5
  <2>2. m \in Nat /\ Least(m, r.max) \in Nat
    BY <1>3, ConstFact DEF Least
  <2>3. fs[r.ch][r.name] \in Units /\ Len(fs[r.ch][r.name]) \in Nat
    BY <1>0, <1>3, <1>5 DEF TypeFs, Has, Units
  <2>4. PICK a : a = [Answer(r) EXCEPT !.max = m, !.len = Len(fs[r.ch][r.name])]
    OBVIOUS
  <2>5. /\ a \in PacketType /\ a.cmd = r.cmd /\ a.src = r.src /\ a.id = r.id /\ a.max = m
        /\ a.len = Len(fs[r.ch][r.name]) /\ outbox' = Append(outbox, a)
    BY <2>1, <2>2, <2>3, <2>4, AnswerType DEF PacketType
  <2>6. xfer' \in XferType
    BY <1>3, <1>4, <2>1, <2>2, <2>3 DEF XferType
  <2>7. /\ xfer'.dir = "up" /\ xfer'.data = fs[r.ch][r.name] /\ xfer'.len = 0
        /\ xfer'.max = Least(m, r.max)
    BY <1>4, <2>1 DEF XferType
  <2>8. ASSUME tp.st = "get", r = tp.req PROVE Content(a)'
    <3>1. pc = "ulReq" /\ r.ch = job.ch /\ r.name = job.name /\ r.max = HostBlock
      BY <1>0, <1>5, <2>8, AskFact DEF RequestInv
    <3>2. Least(m, r.max) = Least(HostBlock, m)
      BY <1>3, <2>2, <3>1 DEF Least
    <3>3. File' = fs[r.ch][r.name] /\ Has(job.ch, job.name)'
      BY <1>2, <1>5, <3>1 DEF File, Has
    <3>4. UpOpen(0, Least(HostBlock, a.max))'
      BY <2>5, <2>7, <3>2, <3>3 DEF UpOpen
    <3>5. a.len = Len(File') /\ a.max # 0 /\ pc' = "ulReq"
      BY <1>2, <2>5, <3>1, <3>3
    <3> QED
      BY <3>3, <3>4, <3>5 DEF Content
  <2>9. TypeXfer'
    BY <2>3, <2>6, <2>7 DEF TypeXfer
  <2> QED
    BY <1>1, <1>5, <2>5, <2>8, <2>9, Serve DEF Serving
<1>6. CASE /\ r.cmd = "UPLOAD_DATA" /\ xfer.dir = "up"
           /\ LET all == xfer.len + Least(xfer.max, Len(xfer.data) - xfer.len)
              IN /\ outbox' = Append(outbox, [Answer(r) EXCEPT
                                 !.data = SubSeq(xfer.data, xfer.len + 1, all),
                                 !.crc = SubSeq(xfer.data, 1, all)])
                 /\ xfer' = IF r.ext \in {"NONE", "LAST"} THEN NoXfer
                            ELSE [xfer EXCEPT !.len = all]
  <2> DEFINE k == xfer.len
             n == Len(xfer.data)
             m == xfer.max
             all == k + Least(m, n - k)
  <2>1. /\ xfer \in XferType /\ xfer.data \in Units /\ k \in Nat /\ n \in Nat /\ m \in Nat
        /\ k <= n
    BY <1>0, <1>6 DEF TypeXfer, XferType, Units
  <2>2. outbox' = Append(outbox, [Answer(r) EXCEPT !.data = SubSeq(xfer.data, k + 1, all),
                                                   !.crc = SubSeq(xfer.data, 1, all)])
        /\ xfer' = IF r.ext \in {"NONE", "LAST"} THEN NoXfer ELSE [xfer EXCEPT !.len = all]
    BY <1>6
  <2>3. ASSUME tp.st = "get", r = tp.req
        PROVE  /\ pc = "ulData" /\ r.ext = loc.seq /\ xfer.data = File /\ m = loc.max
               /\ k = Len(loc.data) /\ n = Len(loc.data) + loc.send /\ Has(job.ch, job.name)
    <3>1. pc = "ulData" /\ r.ext = loc.seq
      BY <1>0, <1>6, <2>3, AskFact DEF RequestInv
    <3>2. UpOpen(Len(loc.data), loc.max) /\ Len(loc.data) + loc.send = Len(File)
          /\ Has(job.ch, job.name)
      BY <1>0, <2>3, <3>1 DEF UpInv, Unserved, Serving
    <3> QED
      BY <3>1, <3>2 DEF UpOpen
  <2>4. tp.st = "get" /\ r = tp.req => n - k = loc.send
    <3>1. HAVE tp.st = "get" /\ r = tp.req
    <3>2. loc.send \in Nat
      BY <1>0, TypeParts DEF TypeLoc, LocType
    <3>3. n = k + loc.send
      BY <2>3, <3>1
    <3> HIDE DEF k, n
    <3> QED
      BY <2>1, <3>2, <3>3
  <2> HIDE DEF k, n, m
  <2>5. all \in Nat /\ k <= all /\ all <= n
    BY <2>1 DEF Least
  <2> HIDE DEF all
  <2>6. /\ SubSeq(xfer.data, 1, all) \in Units
        /\ SubSeq(xfer.data, k + 1, all) \in Units /\ Len(SubSeq(xfer.data, k + 1, all)) = all - k
    BY <2>1, <2>5, PrefixFact DEF n
  <2>7. PICK a : a = [Answer(r) EXCEPT !.data = SubSeq(xfer.data, k + 1, all),
                                       !.crc = SubSeq(xfer.data, 1, all)]
    OBVIOUS
  <2>8. /\ a \in PacketType /\ a.cmd = r.cmd /\ a.src = r.src /\ a.id = r.id
        /\ a.crc = SubSeq(xfer.data, 1, all) /\ Len(a.data) = all - k
        /\ outbox' = Append(outbox, a)
    BY <2>2, <2>6, <2>7, AnswerType DEF PacketType
  <2>9. /\ TypeXfer'
        /\ r.ext \in {"NONE", "LAST"} => xfer'.dir = "none"
        /\ r.ext \notin {"NONE", "LAST"} =>
             /\ xfer'.dir = "up" /\ xfer'.data = xfer.data /\ xfer'.len = all
             /\ xfer'.max = m
    <3>1. CASE r.ext \in {"NONE", "LAST"}
      BY <1>4, <2>2, <3>1 DEF TypeXfer, NoXfer
    <3>2. CASE r.ext \notin {"NONE", "LAST"}
      <4>1. xfer' = [xfer EXCEPT !.len = all]
        BY <2>2, <3>2
      <4>2. xfer' \in XferType
        BY <2>1, <2>5, <4>1 DEF XferType
      <4>3. xfer'.dir = "up" /\ xfer'.data = xfer.data /\ xfer'.len = all /\ xfer'.max = m
        BY <1>6, <2>1, <4>1 DEF XferType, m
      <4> QED
        BY <2>5, <3>2, <4>2, <4>3 DEF TypeXfer, n
    <3> QED
      BY <3>1, <3>2
  <2>10. ASSUME tp.st = "get", r = tp.req PROVE Content(a)'
    <3>1. /\ pc' = "ulData" /\ loc' = loc /\ File' = xfer.data
      BY <1>2, <2>3, <2>10 DEF File
    <3>2. all = Len(loc.data) + Least(loc.max, loc.send)
      BY <2>3, <2>4, <2>10 DEF all
    <3>3. Len(loc.data) + Len(a.data) = all
      <4>1. k = Len(loc.data)
        BY <2>3, <2>10
      <4> QED
        BY <2>1, <2>5, <2>8, <4>1
    <3>4. loc.seq \notin {"NONE", "LAST"} =>
            /\ xfer'.dir = "up" /\ xfer'.data = File' /\ xfer'.len = all
            /\ xfer'.max = loc.max
      BY <2>3, <2>9, <2>10, <3>1
    <3>5. loc.seq \in {"NONE", "LAST"} => xfer'.dir = "none"
      BY <2>3, <2>9, <2>10
    <3>6. a.crc = SubSeq(File', 1, all)
      BY <2>8, <3>1
    <3>7. /\ a.crc = SubSeq(File', 1, Len(loc'.data) + Least(loc'.max, loc'.send))
          /\ Len(loc'.data) + Len(a.data) = Len(loc'.data) + Least(loc'.max, loc'.send)
          /\ loc'.seq \in {"NONE", "LAST"} => xfer'.dir = "none"
      BY <3>1, <3>2, <3>3, <3>5, <3>6
    <3>8. loc'.seq \notin {"NONE", "LAST"} =>
            UpOpen(Len(loc.data) + Least(loc.max, loc.send), loc.max)'
      BY <3>1, <3>2, <3>4 DEF UpOpen
    <3> QED
      BY <3>1, <3>7, <3>8 DEF Content
  <2> QED
    BY <1>1, <1>6, <2>8, <2>9, <2>10, Serve DEF Serving
<1>7. CASE /\ r.cmd = "UPLOAD_ABORT" /\ outbox' = Append(outbox, Answer(r))
           /\ xfer' = IF xfer.dir = "up" THEN NoXfer ELSE xfer
  <2>1. PICK a \in PacketType : a = Answer(r)
    BY AnswerType
  <2>2. a.cmd = r.cmd /\ a.src = r.src /\ a.id = r.id /\ outbox' = Append(outbox, a)
    BY <1>7, <2>1, AnswerType
  <2>3. TypeXfer' /\ xfer'.dir # "up"
    BY <1>0, <1>4, <1>7 DEF TypeXfer, NoXfer
  <2>4. ASSUME tp.st = "get", r = tp.req PROVE Content(a)'
    <3>1. pc' = "ulAbort"
      BY <1>0, <1>2, <1>7, <2>4, AskFact
    <3> QED
      BY <2>3, <3>1 DEF Content
  <2> QED
    BY <1>1, <1>7, <2>2, <2>3, <2>4, Serve DEF Serving
<1> QED
  BY <1>5, <1>6, <1>7 DEF ServeUpload

(* The device carries out or refuses the request it has. *)
LEMMA DeviceServeStep ==
  ASSUME DownloadInv, DeviceServe
  PROVE  DownloadInv'
<1>0. TypeOK /\ TypeIn /\ TypeBound
  BY TypeParts DEF DownloadInv
<1>1. PICK r \in PacketType : r = Head(inbox)
  BY <1>0 DEF DeviceServe, TypeIn
<1>2. Serving(r)
  BY <1>1 DEF DeviceServe, Serving
<1>3. CASE ServeDownload(r) /\ UNCHANGED <<running, faults>>
  BY <1>2, <1>3, ServeDownloadStep
<1>4. CASE ServeUpload(r) /\ UNCHANGED <<fs, running, faults>>
  BY <1>2, <1>4, ServeUploadStep
<1>5. CASE ServeFile(r) /\ UNCHANGED <<xfer, running, faults>>
  BY <1>2, <1>5, ServeFileStep
<1>6. CASE /\ r.cmd = "RUN_MODULE" /\ Has(r.ch, r.name)
           /\ running' \in {running, running \cup {r.ch}}
           /\ outbox' = Append(outbox, Answer(r)) /\ UNCHANGED <<fs, xfer, faults>>
  BY <1>2, <1>6, ServeRun
<1>7. CASE /\ outbox' = Append(outbox, Refusal(r)) /\ UNCHANGED <<fs, xfer, running>>
           /\ faults' \in {faults, faults + 1}
  <2>1. faults' \in Nat
    BY <1>0, <1>7 DEF TypeBound
  <2> QED
    BY <1>2, <1>7, <2>1, ServeRefusal
<1> QED
  BY <1>1, <1>3, <1>4, <1>5, <1>6, <1>7 DEF DeviceServe

(* A damaged block is still the answer it was, of the same length. *)
LEMMA DamageStep ==
  ASSUME DownloadInv, Damage
  PROVE  DownloadInv'
<1> DEFINE z == Len(outbox)
<1>0. /\ TypeOK /\ TypeOut /\ TypeBound /\ FlowInv /\ RequestInv /\ TicketInv /\ AnswerInv
      /\ outbox # <<>> /\ faults' = faults + 1 /\ outbox[z].cmd = "UPLOAD_DATA"
      /\ outbox[z].data # <<>> /\ outbox' = [outbox EXCEPT ![z].data[1] = Damaged]
      /\ UNCHANGED <<hostVars, tp, now, typeVars, inbox, fs, xfer, running, calls, foreign,
                     histVars>>
  BY TypeParts DEF DownloadInv, Damage
<1>1. UNCHANGED <<pc, job, loc, rm, tp, now, inbox, fs, xfer, lateDir>>
  BY <1>0 DEF hostVars, histVars
<1>2. z \in DOMAIN outbox /\ outbox[z] \in PacketType
  BY <1>0 DEF TypeOut
<1>3. PICK d : d = [outbox[z].data EXCEPT ![1] = Damaged]
  OBVIOUS
<1>4. d \in Units /\ Len(d) = Len(outbox[z].data)
  <2>1. outbox[z].data \in Seq(Unit)
    BY <1>2 DEF PacketType, Units
  <2>2. PICK s \in Seq(Unit) : s = outbox[z].data
    BY <2>1
  <2>3. 1 \in 1 .. Len(s) /\ Damaged \in Unit
    <3>1. s # <<>>
      BY <1>0, <2>2
    <3>2. Len(s) \in Nat /\ Len(s) # 0
      BY <3>1, EmptySeq
    <3>3. Damaged \in Unit
      BY DownloadAssumption
    <3> QED
      BY <3>2, <3>3
  <2>4. [s EXCEPT ![1] = Damaged] \in Seq(Unit) /\ Len([s EXCEPT ![1] = Damaged]) = Len(s)
    BY <2>3, ExceptSeq
  <2> QED
    BY <1>3, <2>2, <2>4 DEF Units
<1>5. outbox' = [outbox EXCEPT ![z] = [outbox[z] EXCEPT !.data = d]]
  BY <1>0, <1>3
<1>6. PICK a : a = [outbox[z] EXCEPT !.data = d]
  OBVIOUS
<1>7. /\ a \in PacketType /\ a.cmd = outbox[z].cmd /\ a.src = outbox[z].src /\ a.id = outbox[z].id
      /\ a.sta = outbox[z].sta /\ a.crc = outbox[z].crc /\ Len(a.data) = Len(outbox[z].data)
  BY <1>2, <1>4, <1>6 DEF PacketType
<1>8. /\ DOMAIN outbox' = DOMAIN outbox /\ outbox'[z] = a
      /\ \A i \in DOMAIN outbox : i # z => outbox'[i] = outbox[i]
  BY <1>2, <1>5, <1>6
<1>9. TypeOut' /\ TypeBound'
  <2>1. outbox \in Seq(PacketType) /\ z \in 1 .. Len(outbox)
    BY <1>0, <1>2 DEF TypeOut
  <2>2. [outbox EXCEPT ![z] = a] \in Seq(PacketType)
    BY <1>7, <2>1, ExceptSeq
  <2>3. TypeOut'
    BY <1>5, <1>6, <2>2 DEF TypeOut
  <2>4. TypeBound'
    BY <1>0 DEF TypeBound
  <2> QED
    BY <2>3, <2>4
<1>10. /\ \A q : Past(q)' <=> Past(q)
       /\ \A q : Current(q)' <=> Current(q)
       /\ Tracked' <=> Tracked
  BY <1>1 DEF Past, Current, IsAnswer, Tracked
<1>11. \A i \in DOMAIN outbox : /\ Past(outbox'[i]) <=> Past(outbox[i])
                                /\ Current(outbox'[i]) <=> Current(outbox[i])
  <2>1. (Past(a) <=> Past(outbox[z])) /\ (Current(a) <=> Current(outbox[z]))
    BY <1>7 DEF Past, Current, IsAnswer
  <2> QED
    BY <1>8, <2>1
<1>12. \A i \in DOMAIN outbox' : /\ Past(outbox[i])' <=> Past(outbox[i])
                                 /\ Current(outbox[i])' <=> Current(outbox[i])
  BY <1>8, <1>10, <1>11
<1>13. TicketInv'
  <2>1. \A q : Past(q)' <=> Past(q)
    BY <1>10
  <2> QED
    BY <1>0, <1>1, <1>8, <1>10, <1>12, <2>1 DEF TicketInv
<1>14. AnswerInv'
  <2>1. \A q : Content(q) => Content(q)'
    BY <1>1, ContentKept
  <2>2. ASSUME Tracked, NEW i \in DOMAIN outbox, Current(outbox[i]) PROVE Content(outbox'[i])
    <3>1. Content(outbox[i])
      BY <1>0, <2>2 DEF AnswerInv
    <3>2. CASE i = z
      <4>1. tp.st = "get" /\ tp.req.cmd = "UPLOAD_DATA"
        BY <1>0, <2>2, <3>2 DEF Current, IsAnswer
      <4>2. pc = "ulData"
        BY <1>0, <4>1, AskFact
      <4>3. Content(a)
        BY <1>7, <3>1, <3>2, <4>2 DEF Content
      <4> QED
        BY <1>8, <3>2, <4>3
    <3>3. CASE i # z
      BY <1>8, <3>1, <3>3
    <3> QED
      BY <3>2, <3>3
  <2>3. \A i \in DOMAIN outbox' : Tracked /\ Current(outbox[i]) => Content(outbox[i])'
    BY <1>8, <2>1, <2>2
  <2> QED
    BY <1>0, <1>1, <1>8, <1>10, <1>12, <2>1, <2>3 DEF AnswerInv
<1> QED
  BY <1>0, <1>9, <1>13, <1>14, OutboxStep

(* A packet nobody asked for is never an answer. *)
LEMMA DevicePostStep ==
  ASSUME DownloadInv, DevicePost
  PROVE  DownloadInv'
<1>0. /\ TypeOK /\ TypeOut /\ TypeBound /\ FlowInv /\ RequestInv /\ TicketInv /\ AnswerInv
      /\ tp.st = "get" /\ foreign' = foreign + 1
      /\ outbox' = Append(outbox, Packet("INDICATION", 0, 0))
      /\ UNCHANGED <<hostVars, tp, now, typeVars, inbox, fs, xfer, running, calls, faults,
                     histVars>>
  BY TypeParts DEF DownloadInv, DevicePost
<1>1. UNCHANGED <<pc, job, loc, rm, tp, now, inbox, fs, xfer, lateDir>>
  BY <1>0 DEF hostVars, histVars
<1>2. PICK a \in PacketType : a = Packet("INDICATION", 0, 0)
  BY PacketFact DEF Command
<1>3. a.cmd = "INDICATION" /\ a.src = 0
  BY <1>2, PacketFact DEF Command
<1>4. Past(a) /\ ~Current(a)
  BY <1>0, <1>3, AskFact DEF Past, Current, IsAnswer
<1>5. /\ TypeOut' /\ TypeBound' /\ DOMAIN outbox' = 1 .. Len(outbox) + 1
      /\ outbox'[Len(outbox) + 1] = a
      /\ \A i \in DOMAIN outbox' : i # Len(outbox) + 1 => i \in DOMAIN outbox /\ outbox'[i] = outbox[i]
  BY <1>0, <1>2 DEF TypeOut, TypeBound
<1>6. /\ \A q : Past(q)' <=> Past(q)
      /\ \A q : Current(q)' <=> Current(q)
      /\ Tracked' <=> Tracked
  BY <1>1 DEF Past, Current, IsAnswer, Tracked
<1>7. \A i \in DOMAIN outbox' :
        /\ Past(outbox'[i]) \/ Current(outbox'[i])
        /\ Current(outbox'[i]) => i \in DOMAIN outbox /\ Current(outbox[i]) /\ outbox'[i] = outbox[i]
  BY <1>0, <1>4, <1>5 DEF TicketInv
<1>8. \A i \in DOMAIN outbox' :
        /\ Past(outbox[i])' \/ Current(outbox[i])'
        /\ Current(outbox[i])' => i \in DOMAIN outbox /\ Current(outbox[i]) /\ outbox'[i] = outbox[i]
  BY <1>6, <1>7
<1>9. TicketInv'
  BY <1>0, <1>1, <1>6, <1>8 DEF TicketInv
<1>10. AnswerInv'
  <2>1. \A q : Content(q) => Content(q)'
    BY <1>1, ContentKept
  <2> QED
    BY <1>0, <1>1, <1>6, <1>8, <2>1 DEF AnswerInv
<1> QED
  BY <1>0, <1>5, <1>9, <1>10, OutboxStep

(* A step that changes nothing. *)
LEMMA StutterStep ==
  ASSUME DownloadInv, UNCHANGED vars
  PROVE  DownloadInv'
<1>0. /\ TypeOK /\ TypeOut /\ TypeBound /\ TicketInv /\ AnswerInv
      /\ UNCHANGED <<hostVars, tp, now, typeVars, inbox, outbox, fs, xfer, running, calls, faults,
                     foreign, histVars>>
  BY TypeParts DEF DownloadInv, vars, devVars, boundVars
<1>1. UNCHANGED <<pc, job, loc, rm, tp, now, inbox, outbox, fs, xfer, lateDir>>
  BY <1>0 DEF hostVars, histVars
<1>2. TypeOut' /\ TypeBound'
  BY <1>0 DEF TypeOut, TypeBound
<1>3. /\ \A q : Past(q)' <=> Past(q)
      /\ \A q : Current(q)' <=> Current(q)
      /\ Tracked' <=> Tracked
  BY <1>1 DEF Past, Current, IsAnswer, Tracked
<1>4. TicketInv'
  BY <1>0, <1>1, <1>3 DEF TicketInv
<1>5. AnswerInv'
  <2>1. \A q : Content(q) => Content(q)'
    BY <1>1, ContentKept
  <2> QED
    BY <1>0, <1>1, <1>3, <2>1 DEF AnswerInv
<1> QED
  BY <1>0, <1>2, <1>4, <1>5, OutboxStep

-----------------------------------------------------------------------------
(* The theorems.                                                            *)

(* The invariant holds before the first call. *)
LEMMA InitInv ==
  ASSUME Init
  PROVE  DownloadInv
<1>0. /\ pc = "idle" /\ job = NoJob /\ loc = NoLoc /\ rm = NoRm /\ bLoadState = "none" /\ tp = Idle
      /\ res = NoRes /\ now = 1 /\ inbox = <<>> /\ outbox = <<>> /\ fs \in Stored /\ xfer = NoXfer
      /\ running = {} /\ calls = 0 /\ faults = 0 /\ foreign = 0 /\ lateDir = FALSE
      /\ spoiled = FALSE /\ eDeviceType \in {"RAM", "FLASH"} /\ fModuleLoad \in BOOLEAN
  BY DEF Init
<1>1. tp.st = "idle" /\ TypeTp
  BY <1>0, IdleFact DEF TypeTp
<1>2. TypeOK
  <2>1. TypePc /\ TypeLoad /\ TypeClock /\ TypeRunning /\ TypeBound
    BY <1>0 DEF TypePc, Label, TypeLoad, LoadState, TypeClock, TypeRunning, TypeBound
  <2>6. TypeDevice /\ TypeHist
    BY <1>0, Zenon DEF TypeDevice, TypeHist
  <2>2. TypeJob /\ TypeLoc /\ TypeRm
    BY <1>0, ConstFact DEF TypeJob, JobType, NoJob, AnyOp, AnyName, TypeLoc, LocType, NoLoc, Ext,
       Result, TypeRm, RmType, NoRm
  <2>3. TypeRes /\ TypeXfer
    BY <1>0, ConstFact DEF TypeRes, ResType, NoRes, AnyOp, AnyName, LoadState, Result, TypeXfer,
       XferType, NoXfer
  <2>4. TypeIn /\ TypeOut
    BY <1>0 DEF TypeIn, TypeOut
  <2>5. TypeFs
    BY <1>0, DownloadAssumption DEF TypeFs, Units
  <2> QED
    BY <1>1, <2>1, <2>2, <2>3, <2>4, <2>5, <2>6, TypeParts
<1>3. FlowInv
  BY <1>0, <1>1 DEF FlowInv, DownLabel, UpLabel
<1>4. RequestInv /\ LocalInv /\ DownInv /\ UpInv /\ RunInv /\ SweepInv
  BY <1>0 DEF RequestInv, LocalInv, DownInv, UpInv, RunInv, SweepInv
<1>5. TicketInv /\ AnswerInv
  BY <1>0, <1>1 DEF TicketInv, AnswerInv, FileLabel, DownLabel, UpLabel
<1>6. QuietInv /\ WitnessInv
  BY <1>0 DEF QuietInv, Calm, WitnessInv
<1>7. ResultInv
  <2>1. res.op = "none" /\ res.load = "none" /\ xfer.dir = "none"
    BY <1>0 DEF NoRes, NoXfer
  <2>2. Direction(res) = "neither"
    BY <2>1 DEF Direction
  <2> QED
    BY <2>1, <2>2 DEF ResultInv, UploadHonest, TransferClosed, FirmwareAlone
<1> QED
  BY <1>2, <1>3, <1>4, <1>5, <1>6, <1>7 DEF DownloadInv

(* Every step keeps the invariant. *)
LEMMA NextInv ==
  ASSUME FloodTick = 1, DownloadInv, [Next]_vars
  PROVE  DownloadInv'
<1>1. CASE Call
  BY <1>1, CallStep
<1>2. CASE Host
  <2>1. CASE Start
    BY <2>1, StartStep
  <2>2. CASE PutPacket \/ PutFails \/ GetPacket \/ GetTimeout
    BY <2>2, PutPacketStep, PutFailsStep, GetPacketStep, GetTimeoutStep
  <2>3. CASE DownloadReqAnswer \/ DownloadDataAnswer \/ DownloadAbortAnswer
    BY <2>3, DownloadReqStep, DownloadDataStep, DownloadAbortStep
  <2>4. CASE UploadReqAnswer \/ UploadDataAnswer \/ UploadAbortAnswer
    BY <2>4, UploadReqStep, UploadDataStep, UploadAbortStep
  <2>5. CASE FindAnswer \/ DeleteAnswer \/ Md5Answer
    BY <2>5, FindStep, DeleteStep, Md5Step
  <2>6. CASE RunAnswer \/ IdentAnswer
    BY <2>6, RunStep, IdentStep
  <2> QED
    BY <1>2, <2>1, <2>2, <2>3, <2>4, <2>5, <2>6 DEF Host
<1>3. CASE DeviceServe
  BY <1>3, DeviceServeStep
<1>4. CASE Damage
  BY <1>4, DamageStep
<1>5. CASE DevicePost
  BY <1>5, DevicePostStep
<1>6. CASE UNCHANGED vars
  BY <1>6, StutterStep
<1> QED
  BY <1>1, <1>2, <1>3, <1>4, <1>5, <1>6 DEF Next

(* The inductive invariant holds in every behaviour, if the clock has moved *)
(* on when a transfer is given up after MaxAnswers packets.                 *)
THEOREM Invariance ==
  ASSUME FloodTick = 1
  PROVE  Spec => []DownloadInv
<1>1. Init => DownloadInv
  BY InitInv
<1>2. DownloadInv /\ [Next]_vars => DownloadInv'
  BY NextInv
<1> QED
  BY <1>1, <1>2, PTL DEF Spec

(* Every variable keeps the type its declaration in the code gives it; in   *)
(* particular DEV_TransferPacket never looks at more than MaxAnswers        *)
(* packets.                                                                 *)
THEOREM TypeCorrect ==
  ASSUME FloodTick = 1
  PROVE  Spec => []TypeOK
<1>1. DownloadInv => TypeOK
  BY DEF DownloadInv
<1> QED
  BY <1>1, Invariance, PTL

(* DEV_UploadFile: CIFX_NO_ERROR means that the buffer holds the device's   *)
(* file, complete and unchanged, whatever was late, damaged or refused.     *)
THEOREM UploadIsHonest ==
  ASSUME FloodTick = 1
  PROVE  Spec => []UploadHonest
<1>1. DownloadInv => UploadHonest
  BY DEF DownloadInv, ResultInv
<1> QED
  BY <1>1, Invariance, PTL

(* DEV_DownloadFile, DEV_UploadFile: a transfer that ended well, or whose   *)
(* abort was confirmed, is not left open on the device.                     *)
THEOREM TransferIsClosed ==
  ASSUME FloodTick = 1
  PROVE  Spec => []TransferClosed
<1>1. DownloadInv => TransferClosed
  BY DEF DownloadInv, ResultInv
<1> QED
  BY <1>1, Invariance, PTL

(* DEV_ProcessFWDownload: after an undisturbed update of the firmware it is *)
(* alone on the device, but for files whose names the driver cannot use.    *)
THEOREM FirmwareStandsAlone ==
  ASSUME FloodTick = 1
  PROVE  Spec => []FirmwareAlone
<1>1. DownloadInv => FirmwareAlone
  BY DEF DownloadInv, ResultInv
<1> QED
  BY <1>1, Invariance, PTL

-----------------------------------------------------------------------------
(* The file functions implement FileStore: fs is the store, the running     *)
(* call the open request.                                                   *)

(* A step that touches neither the files nor the calls. *)
LEMMA SameStore ==
  ASSUME UNCHANGED <<fs, lost>>, Open' = Open
  PROVE  UNCHANGED Store!storeVars
BY DEF Store!storeVars, Open

(* A call that goes on is still the open request. *)
LEMMA GoesOn ==
  ASSUME pc # "idle", UNCHANGED fs, NEW l, l # "idle", GoOn(l)
  PROVE  UNCHANGED Store!storeVars
<1>1. Open' = Open
  BY DEF Open, GoOn, AsRequest, Writes
<1> QED
  BY <1>1, SameStore DEF GoOn

(* A call returns: with its file in place, or to be remembered as failed. *)
LEMMA Returns ==
  ASSUME pc # "idle", UNCHANGED fs, NEW l, NEW abort, NEW data, NEW len, NEW load,
         Return(l, abort, data, len, load), Writes(job) /\ Succeeds(l, load) => InPlace
  PROVE  Store!StoreNext
<1>1. Open = {AsRequest(job)} /\ Open' = {}
  BY DEF Open, Return
<1>2. /\ AsRequest(job).ch = job.ch /\ AsRequest(job).name = job.name
      /\ AsRequest(job).data = job.data
      /\ AsRequest(job).kind = "write" => Writes(job)
  BY DEF AsRequest
<1>3. CASE Succeeds(l, load)
  <2>1. UNCHANGED <<fs, lost>>
    BY <1>3 DEF Return
  <2>2. AsRequest(job).kind = "write" =>
          job.name \in DOMAIN fs[job.ch] /\ fs[job.ch][job.name] = job.data
    BY <1>2, <1>3 DEF InPlace, Has, File
  <2>3. Store!Succeed
    BY <1>1, <1>2, <2>1, <2>2 DEF Store!Succeed, Open
  <2> QED
    BY <2>3 DEF Store!StoreNext
<1>4. CASE ~Succeeds(l, load)
  <2>1. lost' = lost \cup {AsRequest(job)}
    BY <1>4 DEF Return
  <2>2. Store!Fail
    BY <1>1, <2>1 DEF Store!Fail, Open
  <2> QED
    BY <2>2 DEF Store!StoreNext
<1> QED
  BY <1>3, <1>4

(* An API function is called. *)
LEMMA CallStore ==
  ASSUME Call
  PROVE  Store!StoreNext
<1>1. /\ pc = "idle" /\ pc' = "start" /\ job' \in Job /\ UNCHANGED <<fs, lost>>
  BY DEF Call, devVars
<1>2. Open = {} /\ Open' = {AsRequest(job')}
  BY <1>1 DEF Open, AsRequest, Writes
<1>3. AsRequest(job') \in {AsRequest(j) : j \in Job}
  BY <1>1
<1>4. Store!Begin
  BY <1>1, <1>2, <1>3 DEF Store!Begin, Open
<1> QED
  BY <1>4 DEF Store!StoreNext

(* DEV_DownloadFile begins, or finds nothing to send. *)
LEMMA BeginStore ==
  ASSUME pc # "idle", UNCHANGED fs, BeginDownload
  PROVE  Store!StoreNext \/ UNCHANGED Store!storeVars
<1>1. CASE job.data = <<>>
  <2>1. Return("INVALID_PARAMETER", "none", <<>>, 0, bLoadState)
    BY <1>1 DEF BeginDownload, Fail, Finish
  <2>2. ~Succeeds("INVALID_PARAMETER", bLoadState)
    BY DEF Succeeds
  <2> QED
    BY <2>1, <2>2, Returns
<1>2. CASE job.data # <<>>
  <2>1. GoOn("dlReq")
    BY <1>2 DEF BeginDownload
  <2> QED
    BY <2>1, GoesOn
<1> QED
  BY <1>1, <1>2

(* Start: a call is refused or goes on. *)
LEMMA StartStore ==
  ASSUME DownloadInv, Start
  PROVE  Store!StoreNext \/ UNCHANGED Store!storeVars
<1>0. pc = "start" /\ pc # "idle" /\ UNCHANGED fs
  BY DEF Start, HostOnly, devVars
<1>1. CASE job.op \in {"FIRMWARE", "UPLOAD_FW"} /\ FileTypeError # "OK" /\ Fail(FileTypeError)
  <2>1. FileTypeError \notin {"OK", "ALREADY_EXISTS"}
    BY <1>1 DEF FileTypeError
  <2>2. ~Succeeds(FileTypeError, bLoadState)
    BY <2>1 DEF Succeeds
  <2> QED
    BY <1>0, <1>1, <2>2, Returns DEF Fail, Finish
<1>2. CASE BeginDownload
  BY <1>0, <1>2, BeginStore
<1>3. CASE BeginUpload
  BY <1>0, <1>3, GoesOn DEF BeginUpload
<1>4. CASE job.op = "MODULE" /\ ModuleError # "OK" /\ Fail(ModuleError)
  <2>1. ModuleError \notin {"OK", "ALREADY_EXISTS"}
    BY <1>4 DEF ModuleError
  <2>2. ~Succeeds(ModuleError, bLoadState)
    BY <2>1 DEF Succeeds
  <2> QED
    BY <1>0, <1>4, <2>2, Returns DEF Fail, Finish
<1>5. CASE job.op \in {"STARTUP", "MODULE"} /\ ProcessFWDownload
  <2>1. CASE Finish("OK", "none")
    <3>1. ~Succeeds("OK", "none")
      BY <1>5 DEF Succeeds
    <3> QED
      BY <1>0, <2>1, <3>1, Returns DEF Finish
  <2>2. CASE BeginDownload
    BY <1>0, <2>2, BeginStore
  <2>3. CASE GoOn("md5")
    BY <1>0, <2>3, GoesOn
  <2> QED
    BY <1>5, <2>1, <2>2, <2>3 DEF ProcessFWDownload
<1>6. CASE BeginRemoval(job.ch, job.ch, "none")
  BY <1>0, <1>6, GoesOn DEF BeginRemoval, Find
<1> QED
  BY <1>1, <1>2, <1>3, <1>4, <1>5, <1>6 DEF Start

(* A block is accepted, or an abort sent; the last one is the file. *)
LEMMA DownloadStore ==
  ASSUME DownloadInv, DownloadReqAnswer \/ DownloadDataAnswer \/ DownloadAbortAnswer
  PROVE  Store!StoreNext \/ UNCHANGED Store!storeVars
<1>0. pc # "idle" /\ UNCHANGED fs
  BY DEF DownloadReqAnswer, DownloadDataAnswer, DownloadAbortAnswer, HostOnly, devVars
<1>1. CASE DownloadReqAnswer
  <2>1. GoOn("dlAbort") \/ GoOn("dlData")
    BY <1>1 DEF DownloadReqAnswer, AbortDownload, SendBlock
  <2> QED
    BY <1>0, <2>1, GoesOn
<1>2. CASE DownloadDataAnswer
  <2>1. CASE GoOn("dlAbort") \/ GoOn("dlData") \/ GoOn("run")
    BY <1>0, <2>1, GoesOn
  <2>2. CASE Status = "OK" /\ loc.seq \in {"LAST", "NONE"} /\ Return("OK", "none", <<>>, 0, LoadAfter)
    <3>1. pc = "dlData" /\ tp.st = "done" /\ tp.lRet = "OK" /\ tp.ans.sta = "OK"
      BY <1>2, <2>2, StatusFact, TypeParts DEF DownloadInv, DownloadDataAnswer
    <3>2. Content(tp.ans)
      BY <3>1 DEF DownloadInv, AnswerInv, Tracked
    <3>3. InPlace
      BY <2>2, <3>1, <3>2 DEF Content
    <3> QED
      BY <1>0, <2>2, <3>3, Returns
  <2> QED
    BY <1>2, <2>1, <2>2 DEF DownloadDataAnswer, AbortDownload, SendBlock, RunModule
<1>3. CASE DownloadAbortAnswer
  <2>1. pc = "dlAbort" /\ Return(loc.lRet, Status, <<>>, 0, bLoadState)
    BY <1>3 DEF DownloadAbortAnswer
  <2>2. ~Succeeds(loc.lRet, bLoadState)
    BY <2>1 DEF DownloadInv, LocalInv, Succeeds
  <2> QED
    BY <1>0, <2>1, <2>2, Returns
<1> QED
  BY <1>1, <1>2, <1>3

(* An upload writes nothing. *)
LEMMA UploadStore ==
  ASSUME DownloadInv, UploadReqAnswer \/ UploadDataAnswer \/ UploadAbortAnswer
  PROVE  Store!StoreNext \/ UNCHANGED Store!storeVars
<1>0. pc \in UpLabel /\ pc # "idle" /\ UNCHANGED fs
  BY DEF UploadReqAnswer, UploadDataAnswer, UploadAbortAnswer, HostOnly, devVars, UpLabel
<1>1. ~Writes(job)
  BY <1>0 DEF DownloadInv, FlowInv, Writes
<1>2. CASE UploadReqAnswer
  <2>1. GoOn("ulAbort") \/ GoOn("ulData")
    BY <1>2 DEF UploadReqAnswer, AbortUpload, AskBlock
  <2> QED
    BY <1>0, <2>1, GoesOn
<1>3. CASE UploadDataAnswer
  <2> DEFINE data == loc.data \o tp.ans.data
  <2>1. CASE GoOn("ulAbort") \/ GoOn("ulData")
    BY <1>0, <2>1, GoesOn
  <2>2. CASE Return("OK", "none", data, Len(data), "none")
    BY <1>0, <1>1, <2>2, Returns
  <2> QED
    BY <1>3, <2>1, <2>2 DEF UploadDataAnswer, AbortUpload, AskBlock
<1>4. CASE UploadAbortAnswer
  <2>1. Return(IF loc.lRet # "OK" THEN loc.lRet ELSE Status, Status, loc.data, loc.len, "none")
    BY <1>4 DEF UploadAbortAnswer
  <2> QED
    BY <1>0, <1>1, <2>1, Returns
<1> QED
  BY <1>2, <1>3, <1>4

(* DEV_ProcessFWDownload finds the file on the device, deletes files or     *)
(* begins the download.                                                     *)
LEMMA UpdateStore ==
  ASSUME DownloadInv, FindAnswer \/ DeleteAnswer \/ Md5Answer
  PROVE  Store!StoreNext \/ UNCHANGED Store!storeVars
<1>0. pc # "idle" /\ UNCHANGED fs
  BY DEF FindAnswer, DeleteAnswer, Md5Answer, HostOnly, devVars
<1>1. CASE FindAnswer
  <2>1. CASE job.op = "FIND"
    <3>1. PICK l : Finish(l, "none")
      BY <1>1, <2>1 DEF FindAnswer
    <3>2. ~Writes(job)
      BY <2>1 DEF Writes
    <3> QED
      BY <1>0, <3>1, <3>2, Returns DEF Finish
  <2>2. CASE BeginDownload
    BY <1>0, <2>2, BeginStore
  <2>3. CASE GoOn("find") \/ GoOn("delete")
    BY <1>0, <2>3, GoesOn
  <2> QED
    BY <1>1, <2>1, <2>2, <2>3 DEF FindAnswer, Find
<1>2. CASE DeleteAnswer
  BY <1>0, <1>2, GoesOn DEF DeleteAnswer, Find
<1>3. CASE Md5Answer
  <2>0. pc = "md5" /\ tp.st = "done" /\ job.op \in {"MODULE", "STARTUP"}
    BY <1>3 DEF Md5Answer, DownloadInv, FlowInv
  <2>1. CASE tp.lRet # "OK" /\ Finish(tp.lRet, "none")
    <3>1. ~Succeeds(tp.lRet, "none")
      BY <2>0 DEF Succeeds
    <3> QED
      BY <1>0, <2>1, <3>1, Returns DEF Finish
  <2>2. CASE \E l \in {"OK", "FILE_TYPE_INVALID", "INVALID_PARAMETER"} : Finish(l, "none")
    <3>1. \A l : ~Succeeds(l, "none")
      BY <2>0 DEF Succeeds
    <3> QED
      BY <1>0, <2>2, <3>1, Returns DEF Finish
  <2>3. CASE GoOn("run") \/ GoOn("find")
    BY <1>0, <2>3, GoesOn
  <2>4. CASE /\ tp.lRet = "OK" /\ tp.ans.sta = "OK" /\ tp.ans.data = job.data
             /\ Finish("OK", KindLoaded)
    <3>1. Content(tp.ans)
      BY <2>0, <2>4 DEF DownloadInv, AnswerInv, Tracked
    <3>2. InPlace
      BY <2>0, <2>4, <3>1 DEF Content, InPlace
    <3> QED
      BY <1>0, <2>4, <3>2, Returns DEF Finish
  <2> QED
    BY <1>3, <2>1, <2>2, <2>3, <2>4 DEF Md5Answer, RunModule, BeginRemoval, Find
<1> QED
  BY <1>1, <1>2, <1>3

(* A module is started: its file is in place already. *)
LEMMA ModuleStore ==
  ASSUME DownloadInv, RunAnswer \/ IdentAnswer
  PROVE  Store!StoreNext \/ UNCHANGED Store!storeVars
<1>0. pc \in {"run", "ident"} /\ pc # "idle" /\ UNCHANGED fs /\ InPlace
  BY DEF RunAnswer, IdentAnswer, HostOnly, devVars, DownloadInv, RunInv
<1>1. CASE RunAnswer
  <2>1. CASE GoOn("ident")
    BY <1>0, <2>1, GoesOn
  <2>2. CASE Finish(Status, bLoadState) \/ Finish("NOT_READY", bLoadState)
    BY <1>0, <2>2, Returns DEF Finish
  <2> QED
    BY <1>1, <2>1, <2>2 DEF RunAnswer
<1>2. CASE IdentAnswer
  <2>1. PICK l : Finish(l, bLoadState)
    BY <1>2 DEF IdentAnswer
  <2> QED
    BY <1>0, <2>1, Returns DEF Finish
<1> QED
  BY <1>1, <1>2

(* Packets come and go without a change of the files. *)
LEMMA MailStore ==
  ASSUME PutPacket \/ PutFails \/ GetPacket \/ GetTimeout \/ Damage \/ DevicePost
         \/ UNCHANGED vars
  PROVE  UNCHANGED Store!storeVars
<1>1. UNCHANGED <<pc, job, fs, lost>>
  <2>1. UNCHANGED <<pc, job>>
    BY DEF PutPacket, PutFails, GetPacket, GetTimeout, Damage, DevicePost, vars, hostVars
  <2>2. UNCHANGED fs
    BY DEF PutPacket, PutFails, GetPacket, GetTimeout, Damage, DevicePost, vars, devVars
  <2>3. UNCHANGED lost
    BY DEF PutPacket, PutFails, GetPacket, GetTimeout, Damage, DevicePost, vars, histVars
  <2> QED
    BY <2>1, <2>2, <2>3
<1>2. Open' = Open
  BY <1>1 DEF Open
<1> QED
  BY <1>1, <1>2, SameStore

(* The device completes a file some call has asked for. *)
LEMMA PlaceStore ==
  ASSUME DownloadInv, NEW r \in PacketType, Serving(r), r.cmd = "DOWNLOAD_DATA",
         r.crc = xfer.data \o r.data, Len(xfer.data \o r.data) = xfer.len,
         fs' = Place(xfer.ch, xfer.name, xfer.data \o r.data)
  PROVE  Store!StoreNext
<1>1. PICK q \in Open \cup lost : Backs(q, r)
  BY DEF DownloadInv, WitnessInv, Serving
<1>2. q.data \in Units /\ q.kind = "write" /\ q.ch = xfer.ch /\ q.name = xfer.name
      /\ Len(r.crc) = Len(q.data) /\ r.crc = SubSeq(q.data, 1, Len(r.crc))
  BY <1>1 DEF Backs
<1>3. Len(q.data) \in Nat
  BY <1>2 DEF Units
<1>4. xfer.data \o r.data = q.data
  <2>1. SubSeq(q.data, 1, Len(q.data)) = q.data
    <3>1. \A s \in Units : Len(s) \in Nat => SubSeq(s, 1, Len(s)) = s
      BY PrefixFact
    <3> QED
      BY <1>2, <1>3, <3>1
  <2> QED
    BY <1>2, <2>1
<1>5. fs' = Place(q.ch, q.name, q.data)
  BY <1>2, <1>4
<1>6. UNCHANGED <<pc, job, lost>>
  BY DEF Serving, hostVars, histVars
<1>7. Open' = Open
  BY <1>6 DEF Open
<1>8. fs' = [fs EXCEPT ![q.ch] = [n \in DOMAIN fs[q.ch] \cup {q.name} |->
                                    IF n = q.name THEN q.data ELSE fs[q.ch][n]]]
  BY <1>5 DEF Place
<1>9. Store!Place
  BY <1>2, <1>6, <1>7, <1>8 DEF Store!Place, Open
<1> QED
  BY <1>9 DEF Store!StoreNext

(* The device deletes a file a firmware update removes. *)
LEMMA DeleteStore ==
  ASSUME DownloadInv, NEW r \in PacketType, Serving(r), r.cmd = "FILE_DELETE",
         Has(r.ch, r.name), fs' = Erase(r.ch, r.name)
  PROVE  Store!StoreNext
<1>1. PICK q \in Open \cup lost : Removes(q, r.ch, r.name)
  BY DEF DownloadInv, WitnessInv, Serving
<1>2. r.ch \in Channel /\ DOMAIN fs = Channel
  BY TypeParts DEF PacketType, DownloadInv, TypeFs
<1>3. UNCHANGED <<pc, job, lost>>
  BY DEF Serving, hostVars, histVars
<1>4. Open' = Open
  BY <1>3 DEF Open
<1>5. fs' = [fs EXCEPT ![r.ch] = [m \in DOMAIN fs[r.ch] \ {r.name} |-> fs[r.ch][m]]]
  BY DEF Erase
<1>6. Store!Delete
  BY <1>1, <1>2, <1>3, <1>4, <1>5 DEF Store!Delete, Open, Has
<1> QED
  BY <1>6 DEF Store!StoreNext

(* The device serves a request. *)
LEMMA ServeStore ==
  ASSUME DownloadInv, DeviceServe
  PROVE  Store!StoreNext \/ UNCHANGED Store!storeVars
<1>0. TypeIn
  BY TypeParts DEF DownloadInv
<1>1. PICK r \in PacketType : r = Head(inbox)
  BY <1>0 DEF DeviceServe, TypeIn
<1>2. Serving(r)
  BY <1>1 DEF DeviceServe, Serving
<1>3. CASE UNCHANGED fs
  <2>1. UNCHANGED <<pc, job, lost>>
    BY <1>2 DEF Serving, hostVars, histVars
  <2>2. Open' = Open
    BY <2>1 DEF Open
  <2> QED
    BY <1>3, <2>1, <2>2, SameStore
<1>4. CASE ServeDownload(r) /\ fs' # fs
  <2>1. /\ r.cmd = "DOWNLOAD_DATA" /\ r.crc = xfer.data \o r.data
        /\ Len(xfer.data \o r.data) = xfer.len
        /\ fs' = Place(xfer.ch, xfer.name, xfer.data \o r.data)
    BY <1>4 DEF ServeDownload
  <2> QED
    BY <1>2, <2>1, PlaceStore
<1>5. CASE ServeFile(r) /\ fs' # fs
  <2>1. r.cmd = "FILE_DELETE" /\ Has(r.ch, r.name) /\ fs' = Erase(r.ch, r.name)
    BY <1>5 DEF ServeFile
  <2> QED
    BY <1>2, <2>1, DeleteStore
<1> QED
  BY <1>1, <1>3, <1>4, <1>5 DEF DeviceServe

(* DEV_DownloadFile, DEV_ProcessFWDownload: every behaviour of the driver   *)
(* and the device is one FileStore allows.  Files change as a whole, only   *)
(* as the running or an earlier failed call asked for, and a call that      *)
(* reports success has its file, as given, on the device.                   *)
THEOREM ImplementsFileStore ==
  ASSUME FloodTick = 1
  PROVE  Spec => FileStoreSpec
<1>1. Init => Store!StoreInit
  BY DEF Init, Store!StoreInit
<1>2. DownloadInv /\ [Next]_vars => [Store!StoreNext]_(Store!storeVars)
  <2> SUFFICES ASSUME DownloadInv, [Next]_vars
               PROVE  Store!StoreNext \/ UNCHANGED Store!storeVars
    OBVIOUS
  <2>1. CASE Call
    BY <2>1, CallStore
  <2>2. CASE Start
    BY <2>2, StartStore
  <2>3. CASE DownloadReqAnswer \/ DownloadDataAnswer \/ DownloadAbortAnswer
    BY <2>3, DownloadStore
  <2>4. CASE UploadReqAnswer \/ UploadDataAnswer \/ UploadAbortAnswer
    BY <2>4, UploadStore
  <2>5. CASE FindAnswer \/ DeleteAnswer \/ Md5Answer
    BY <2>5, UpdateStore
  <2>6. CASE RunAnswer \/ IdentAnswer
    BY <2>6, ModuleStore
  <2>7. CASE DeviceServe
    BY <2>7, ServeStore
  <2>8. CASE \/ PutPacket \/ PutFails \/ GetPacket \/ GetTimeout \/ Damage \/ DevicePost
             \/ UNCHANGED vars
    BY <2>8, MailStore
  <2> QED
    BY <2>1, <2>2, <2>3, <2>4, <2>5, <2>6, <2>7, <2>8 DEF Next, Host
<1> QED
  BY <1>1, <1>2, Invariance, PTL DEF Spec, FileStoreSpec, Store!StoreSpec
=============================================================================

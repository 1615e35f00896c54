----------------------------- MODULE CifxReset -----------------------------
(***************************************************************************)
(* Reset of a device through its system channel (cifXHWFunctions.c):       *)
(* DEV_DoSystemStart, DEV_DoSystemBootstart and DEV_DoUpdateStart with     *)
(* DEV_Reset_Prepare, DEV_Reset_Execute and DEV_Reset_Finish, against the  *)
(* interrupt thread, which runs cifXTKitISRHandler and cifXTKitDSRHandler, *)
(* and the polling thread's DEV_CheckCOSFlags.                             *)
(*                                                                         *)
(* Of the netX half of the handshake cells the model keeps what matters    *)
(* here: whether NSF_READY is set, and whether a copy of the flags is what *)
(* the device shows now.  A copy is "off" (not READY, also after the reset *)
(* of the copy to 0), "new", or "old" once the device has changed a bit or *)
(* restarted.  Restarts and changes of flags need no bound.                *)
(***************************************************************************)
EXTENDS Naturals

CONSTANTS
  Caller,      \* application threads that reset the device
  IrqThread,   \* netx_irq_thread
  Timer,       \* cifXPollingThread
  NoCaller,    \* owner of a free mutex
  MaxCalls     \* bound: reset calls

ASSUME ResetAssumption ==
  /\ IrqThread \notin Caller /\ Timer \notin Caller /\ NoCaller \notin Caller
  /\ Timer # NoCaller
  /\ MaxCalls \in Nat

Handler == Caller \cup {IrqThread}
Mode == {"SYSTEMSTART", "BOOTSTART", "UPDATESTART"}

VARIABLES
  fIrqEnabled,        \* interrupt or polling mode
  idpm,               \* HIL_SYS_STATUS_IDPM and HIL_SYS_STATUS_APP are set
  pc, mode, lRet,     \* position, reset mode and result of each caller
  calls,              \* calls started
  pvInitMutex,        \* pvInitMutex of the system device
  fResetActive,       \* "DSR will ignore all incoming interrupts"
  usNetxFlags,        \* cached flags of the system device
  hpc, hbuf,          \* position and buffer index of each run of ISR and DSR
  iIrqToDsrBuffer,    \* index of the buffer the ISR fills
  fValid, atHsk,      \* the two buffers
  dev, task,          \* device: what it runs, why it restarted
  ulSystemControl, resetBit,  \* DPM: reset mode and HSF_RESET
  irqPending,         \* interrupt request line
  boots,              \* history: restarts since the last command, 2 for more
  overlap,            \* history: two runs of the handlers overlapped
  failed, timedOut    \* history: a reset failed, and for want of reaction

callVars   == <<pc, mode, lRet, calls>>
handlerVars == <<hpc, hbuf, iIrqToDsrBuffer, fValid, atHsk>>
devVars    == <<dev, task, boots>>
dpmVars    == <<ulSystemControl, resetBit>>
errVars    == <<failed, timedOut>>
modeVars   == <<fIrqEnabled, idpm>>
vars == <<modeVars, callVars, pvInitMutex, fResetActive, usNetxFlags,
          handlerVars, devVars, dpmVars, irqPending, overlap, errVars>>

Init ==
  /\ fIrqEnabled \in BOOLEAN /\ idpm \in BOOLEAN
  /\ pc = [c \in Caller |-> "idle"]
  /\ mode = [c \in Caller |-> "SYSTEMSTART"]
  /\ lRet = [c \in Caller |-> "CIFX_NO_ERROR"]
  /\ calls = 0
  /\ pvInitMutex = NoCaller
  /\ fResetActive = FALSE
  /\ usNetxFlags = "new"
  /\ hpc = [h \in Handler |-> "idle"] /\ hbuf = [h \in Handler |-> 0]
  /\ iIrqToDsrBuffer = 0
  /\ fValid = [i \in 0 .. 1 |-> FALSE] /\ atHsk = [i \in 0 .. 1 |-> "off"]
  /\ dev = "fw" /\ task = "SYSTEMSTART"
  /\ ulSystemControl = "SYSTEMSTART" /\ resetBit = FALSE
  /\ irqPending = FALSE
  /\ boots = 0
  /\ overlap = FALSE
  /\ failed = FALSE /\ timedOut = FALSE

Goto(c, label) == pc' = [pc EXCEPT ![c] = label]
Result(c, r) == lRet' = [lRet EXCEPT ![c] = r]

(* Mutant: resets do not exclude each other. *)
MutexIgnored == TRUE

MutexFree == pvInitMutex = NoCaller

(* The flags in the handshake cells. *)
Cell == IF dev = "booting" THEN "off" ELSE "new"

-----------------------------------------------------------------------------
(* xSysdeviceReset, xSysdeviceBootstart and xSysdeviceResetEx. *)
Call(c, m) ==
  /\ pc[c] = "idle" /\ calls < MaxCalls
  /\ calls' = calls + 1
  /\ mode' = [mode EXCEPT ![c] = m]
  /\ Goto(c, "check")
  /\ UNCHANGED <<modeVars, lRet, pvInitMutex, fResetActive, usNetxFlags,
                 handlerVars, devVars, dpmVars, irqPending, overlap,
                 errVars>>

(* DEV_IsReady of the system device: refreshes the flags in polling mode.  *)
(* The call returns CIFX_DEV_NOT_READY if NSF_READY is off.                *)
SeenFlags == IF fIrqEnabled THEN usNetxFlags ELSE Cell

CheckReady(c) ==
  /\ pc[c] = "check"
  /\ usNetxFlags' = SeenFlags
  /\ Goto(c, IF SeenFlags = "off" THEN "idle" ELSE "mutex")
  /\ UNCHANGED <<modeVars, mode, lRet, calls, pvInitMutex, fResetActive,
                 handlerVars, devVars, dpmVars, irqPending, overlap, errVars>>

(* OS_WaitMutex(pvInitMutex, CIFX_TO_WAIT_COS_CMD), then the reset mode is *)
(* written to the DPM; a device with iDPM and APP CPU is only signalled.   *)
WaitInitMutex(c) ==
  /\ pc[c] = "mutex"
  /\ MutexFree
  /\ pvInitMutex' = c
  /\ ulSystemControl' = mode[c]
  /\ Goto(c, IF idpm THEN "execute" ELSE "prepare")
  /\ UNCHANGED <<modeVars, mode, lRet, calls, fResetActive, usNetxFlags,
                 handlerVars, devVars, resetBit, irqPending, overlap,
                 errVars>>

(* CIFX_DRV_INIT_STATE_ERROR *)
WaitInitMutexTimeout(c) ==
  /\ pc[c] = "mutex"
  /\ ~MutexFree
  /\ Goto(c, "idle")
  /\ UNCHANGED <<modeVars, mode, lRet, calls, pvInitMutex, fResetActive,
                 usNetxFlags, handlerVars, devVars, dpmVars, irqPending,
                 overlap, errVars>>

-----------------------------------------------------------------------------
(* DEV_Reset_Prepare: first the flag, then the cached handshake flags. *)
ResetPrepare(c) ==
  /\ pc[c] = "prepare"
  /\ fResetActive' = TRUE
  /\ Goto(c, "zero")
  /\ UNCHANGED <<modeVars, mode, lRet, calls, pvInitMutex, usNetxFlags,
                 handlerVars, devVars, dpmVars, irqPending, overlap,
                 errVars>>

ResetZero(c) ==
  /\ pc[c] = "zero"
  /\ usNetxFlags' = "off"
  /\ Goto(c, "execute")
  /\ UNCHANGED <<modeVars, mode, lRet, calls, pvInitMutex, fResetActive,
                 handlerVars, devVars, dpmVars, irqPending, overlap,
                 errVars>>

(* DEV_Reset_Execute: command the reset ... *)
ResetExecute(c) ==
  /\ pc[c] = "execute"
  /\ resetBit' = TRUE
  /\ boots' = 0
  /\ Result(c, "CIFX_NO_ERROR")
  /\ Goto(c, IF idpm THEN "release" ELSE "down")
  /\ UNCHANGED <<modeVars, mode, calls, pvInitMutex, fResetActive,
                 usNetxFlags, handlerVars, dev, task, ulSystemControl,
                 irqPending, overlap, errVars>>

(* Mutant: the wait for the device to leave the READY state is missing. *)
RecognisedAssumed == TRUE

(* The condition DEV_WaitForNotReady_Poll waits for. *)
Recognised == Cell = "off"

(* ... and DEV_WaitForNotReady_Poll until the device has recognised it. *)
DeviceDown(c) ==
  /\ pc[c] = "down"
  /\ Recognised
  /\ Goto(c, "up")
  /\ UNCHANGED <<modeVars, mode, lRet, calls, pvInitMutex, fResetActive,
                 usNetxFlags, handlerVars, devVars, dpmVars, irqPending,
                 overlap, errVars>>

(* The label after CIFX_DEV_RESET_TIMEOUT: DEV_Reset_Finish is left out. *)
AfterResetTimeout == "release"

DeviceDownTimeout(c) ==
  /\ pc[c] = "down"
  /\ Cell # "off"
  /\ Result(c, "CIFX_DEV_RESET_TIMEOUT")
  /\ failed' = TRUE /\ timedOut' = TRUE
  /\ Goto(c, AfterResetTimeout)
  /\ UNCHANGED <<modeVars, mode, calls, pvInitMutex, fResetActive,
                 usNetxFlags, handlerVars, devVars, dpmVars, irqPending,
                 overlap>>

-----------------------------------------------------------------------------
(* What the three functions do with a device that is coming back.          *)

(* End of a wait or a check: with result r to label l. *)
Stage(c, from, r, l) ==
  /\ pc[c] = from
  /\ Result(c, r)
  /\ Goto(c, l)
  /\ failed' = (failed \/ r # "CIFX_NO_ERROR")
  /\ UNCHANGED <<modeVars, mode, calls, pvInitMutex, fResetActive,
                 usNetxFlags, handlerVars, devVars, dpmVars, irqPending,
                 overlap, timedOut>>

(* Mutant: a device that does not come back is given up at once. *)
AfterNotReadyGivenUp == "release"

(* The label after CIFX_DEV_NOT_READY: the reset is finished all the same. *)
AfterNotReady == "finish"

(* DEV_DoSystemStart: the device is READY again, or the wait times out. *)
SystemStart(c) ==
  /\ mode[c] = "SYSTEMSTART"
  /\ \/ Cell # "off" /\ Stage(c, "up", "CIFX_NO_ERROR", "finish")
     \/ Cell = "off" /\ Stage(c, "up", "CIFX_DEV_NOT_READY", AfterNotReady)

(* DEV_DoSystemBootstart: and it has to run the boot loader. *)
SystemBootstart(c) ==
  /\ mode[c] = "BOOTSTART"
  /\ \/ Cell # "off" /\ Stage(c, "up", "CIFX_NO_ERROR", "cookie")
     \/ Cell = "off" /\ Stage(c, "up", "CIFX_DEV_NOT_READY", AfterNotReady)
     \/ dev = "bsl" /\ Stage(c, "cookie", "CIFX_NO_ERROR", "finish")
     \/ dev # "bsl" /\ Stage(c, "cookie", "CIFX_DEV_FUNCTION_FAILED", "finish")

(* DEV_DoUpdateStart: and it then restarts itself into the new firmware. *)
UpdateStart(c) ==
  /\ mode[c] = "UPDATESTART"
  /\ \/ Cell # "off" /\ Stage(c, "up", "CIFX_NO_ERROR", "cookie")
     \/ Cell = "off" /\ Stage(c, "up", "CIFX_DEV_NOT_READY", AfterNotReady)
     \/ dev = "bsl" /\ Stage(c, "cookie", "CIFX_NO_ERROR", "down2")
     \/ dev # "bsl" /\ Stage(c, "cookie", "CIFX_DEV_FUNCTION_FAILED", "finish")
     \/ Cell = "off" /\ Stage(c, "down2", "CIFX_NO_ERROR", "up2")
     \/ Cell # "off" /\ Stage(c, "down2", "CIFX_DEV_RESET_TIMEOUT", "finish")
     \/ Cell # "off" /\ Stage(c, "up2", "CIFX_NO_ERROR", "finish")
     \/ Cell = "off" /\ Stage(c, "up2", "CIFX_DEV_NOT_READY", AfterNotReady)

-----------------------------------------------------------------------------
(* Mutant: the flags are not evaluated again after the reset. *)
FinishLabelNone == "release"

FinishLabel == IF fIrqEnabled THEN "handlers" ELSE "reread"

(* DEV_Reset_Finish: in interrupt mode the caller runs ISR and DSR itself, *)
(* in polling mode it reads the flags again.                               *)
ResetFinish(c) ==
  /\ pc[c] = "finish"
  /\ fResetActive' = FALSE
  /\ Goto(c, FinishLabel)
  /\ UNCHANGED <<modeVars, mode, lRet, calls, pvInitMutex, usNetxFlags,
                 handlerVars, devVars, dpmVars, irqPending, overlap,
                 errVars>>

FinishReread(c) ==
  /\ pc[c] = "reread"
  /\ usNetxFlags' = Cell
  /\ Goto(c, "release")
  /\ UNCHANGED <<modeVars, mode, lRet, calls, pvInitMutex, fResetActive,
                 handlerVars, devVars, dpmVars, irqPending, overlap,
                 errVars>>

(* OS_ReleaseMutex and the return of lRet.  (The locals are dead then.)    *)
ReleaseInitMutex(c) ==
  /\ pc[c] = "release"
  /\ pvInitMutex' = NoCaller
  /\ mode' = [mode EXCEPT ![c] = "SYSTEMSTART"]
  /\ Result(c, "CIFX_NO_ERROR")
  /\ boots' = 0
  /\ Goto(c, "idle")
  /\ UNCHANGED <<modeVars, calls, fResetActive, usNetxFlags, handlerVars,
                 dev, task, dpmVars, irqPending, overlap, errVars>>

-----------------------------------------------------------------------------
(* cifXTKitISRHandler and cifXTKitDSRHandler, run by handler h.            *)

HGoto(h, label) == hpc' = [hpc EXCEPT ![h] = label]
OthersActive(h) == \E g \in Handler \ {h} : hpc[g] # "idle"

(* The interrupt thread runs on an interrupt, a caller in its finish.      *)
Entry(h) == /\ hpc[h] = "idle"
            /\ \/ h = IrqThread /\ fIrqEnabled /\ irqPending
               \/ h \in Caller /\ pc[h] = "handlers"

(* The end of the DSR: a caller goes on with the release of the mutex.     *)
Done(h) == /\ HGoto(h, "idle")
           /\ hbuf' = [hbuf EXCEPT ![h] = 0]
           /\ pc' = [c \in Caller |-> IF c = h THEN "release" ELSE pc[c]]

(* The ISR looks up the buffer it is to fill, confirms all interrupts and  *)
(* marks the buffer valid before it has filled it ...                      *)
IsrConfirm(h) ==
  /\ Entry(h)
  /\ hbuf' = [hbuf EXCEPT ![h] = iIrqToDsrBuffer]
  /\ irqPending' = FALSE
  /\ fValid' = [fValid EXCEPT ![iIrqToDsrBuffer] = TRUE]
  /\ overlap' = (overlap \/ OthersActive(h))
  /\ HGoto(h, "read")
  /\ UNCHANGED <<modeVars, callVars, pvInitMutex, fResetActive, usNetxFlags,
                 iIrqToDsrBuffer, atHsk, devVars, dpmVars, errVars>>

(* ... unless the DPM cannot be read while the device starts.  The         *)
(* interrupt thread then skips the DSR, DEV_Reset_Finish does not.         *)
IsrOtherDevice(h) ==
  /\ Entry(h) /\ h \in Caller
  /\ dev = "booting"
  /\ overlap' = (overlap \/ OthersActive(h))
  /\ HGoto(h, "dsr")
  /\ UNCHANGED <<modeVars, callVars, pvInitMutex, fResetActive, usNetxFlags,
                 hbuf, iIrqToDsrBuffer, fValid, atHsk, devVars, dpmVars,
                 irqPending, errVars>>

IsrRead(h) ==
  /\ hpc[h] = "read"
  /\ atHsk' = [atHsk EXCEPT ![hbuf[h]] = Cell]
  /\ HGoto(h, "dsr")
  /\ UNCHANGED <<modeVars, callVars, pvInitMutex, fResetActive, usNetxFlags,
                 hbuf, iIrqToDsrBuffer, fValid, devVars, dpmVars, irqPending,
                 overlap, errVars>>

(* The DSR returns during a reset ... *)
DsrIgnored(h) ==
  /\ hpc[h] = "dsr"
  /\ fResetActive
  /\ Done(h)
  /\ UNCHANGED <<modeVars, mode, lRet, calls, pvInitMutex, fResetActive,
                 usNetxFlags, iIrqToDsrBuffer, fValid, atHsk, devVars,
                 dpmVars, irqPending, overlap, errVars>>

(* ... and if the ISR's buffer holds no data. *)
DsrBuffer(h) ==
  /\ hpc[h] = "dsr"
  /\ ~fResetActive
  /\ \/ /\ fValid[iIrqToDsrBuffer]
        /\ hbuf' = [hbuf EXCEPT ![h] = iIrqToDsrBuffer]
        /\ HGoto(h, "flip") /\ UNCHANGED pc
     \/ ~fValid[iIrqToDsrBuffer] /\ Done(h)
  /\ UNCHANGED <<modeVars, mode, lRet, calls, pvInitMutex, fResetActive,
                 usNetxFlags, iIrqToDsrBuffer, fValid, atHsk, devVars,
                 dpmVars, irqPending, overlap, errVars>>

(* Mutant: the buffer index is not wrapped. *)
NextBufferNoWrap == iIrqToDsrBuffer + 1

NextBuffer == 1 - iIrqToDsrBuffer

(* Otherwise the ISR gets the other buffer ... *)
DsrFlip(h) ==
  /\ hpc[h] = "flip"
  /\ iIrqToDsrBuffer' = NextBuffer
  /\ fValid' = [fValid EXCEPT ![hbuf[h]] = FALSE]
  /\ HGoto(h, "flags")
  /\ UNCHANGED <<modeVars, callVars, pvInitMutex, fResetActive, usNetxFlags,
                 hbuf, atHsk, devVars, dpmVars, irqPending, overlap,
                 errVars>>

(* ... and the flags are evaluated if NSF_READY is among them. *)
DsrFlags(h) ==
  /\ hpc[h] = "flags"
  /\ usNetxFlags' = IF atHsk[hbuf[h]] # "off" THEN atHsk[hbuf[h]]
                                          ELSE usNetxFlags
  /\ Done(h)
  /\ UNCHANGED <<modeVars, mode, lRet, calls, pvInitMutex, fResetActive,
                 iIrqToDsrBuffer, fValid, atHsk, devVars, dpmVars, irqPending,
                 overlap, errVars>>

-----------------------------------------------------------------------------
(* Polling mode: DEV_CheckCOSFlags is skipped during a reset (what it does *)
(* to the channels is in CifxHostCos); any other call of the application   *)
(* refreshes the cached flags of the system device.                        *)
TimerEnter ==
  /\ ~fIrqEnabled
  /\ MutexFree
  /\ pvInitMutex' = Timer
  /\ UNCHANGED <<modeVars, callVars, fResetActive, usNetxFlags, handlerVars,
                 devVars, dpmVars, irqPending, overlap, errVars>>

TimerLeave ==
  /\ pvInitMutex = Timer
  /\ pvInitMutex' = NoCaller
  /\ UNCHANGED <<modeVars, callVars, fResetActive, usNetxFlags, handlerVars,
                 devVars, dpmVars, irqPending, overlap, errVars>>

ReadHandshakeFlags ==
  /\ ~fIrqEnabled
  /\ usNetxFlags' = Cell
  /\ UNCHANGED <<modeVars, callVars, pvInitMutex, fResetActive, handlerVars,
                 devVars, dpmVars, irqPending, overlap, errVars>>

-----------------------------------------------------------------------------
(* The device (external): its firmware changes flags, which raises an      *)
(* interrupt and leaves every copy behind, ...                             *)
Aged(flags) == IF flags = "new" THEN "old" ELSE flags
Age == /\ usNetxFlags' = Aged(usNetxFlags)
       /\ atHsk' = [i \in 0 .. 1 |-> Aged(atHsk[i])]

DeviceToggle ==
  /\ dev # "booting"
  /\ Age
  /\ irqPending' = fIrqEnabled
  /\ UNCHANGED <<modeVars, callVars, pvInitMutex, fResetActive, hpc, hbuf,
                 iIrqToDsrBuffer, fValid, devVars, dpmVars, overlap, errVars>>

(* ... sooner or later takes a reset command, ... *)
Restart(t) ==
  /\ dev' = "booting" /\ task' = t
  /\ Age
  /\ resetBit' = FALSE
  /\ boots' = IF boots < 2 THEN boots + 1 ELSE boots
  /\ UNCHANGED <<modeVars, callVars, pvInitMutex, fResetActive, hpc, hbuf,
                 iIrqToDsrBuffer, fValid, ulSystemControl, irqPending,
                 overlap, errVars>>

DeviceReset == dev # "booting" /\ resetBit /\ Restart(ulSystemControl)

(* ... restarts after an update by itself, ... *)
DeviceUpdated == dev = "bsl" /\ task = "UPDATESTART" /\ Restart("SYSTEMSTART")

(* ... and comes up with what it was told to run, or with its firmware.    *)
DeviceUp ==
  /\ dev = "booting"
  /\ dev' \in IF task = "SYSTEMSTART" THEN {"fw"} ELSE {"fw", "bsl"}
  /\ task' = IF dev' = "bsl" THEN task ELSE "SYSTEMSTART"
  /\ irqPending' = fIrqEnabled
  /\ UNCHANGED <<modeVars, callVars, pvInitMutex, fResetActive, usNetxFlags,
                 handlerVars, boots, dpmVars, overlap, errVars>>

-----------------------------------------------------------------------------
CallerStep(c) ==
  \/ CheckReady(c) \/ WaitInitMutex(c) \/ WaitInitMutexTimeout(c)
  \/ ResetPrepare(c) \/ ResetZero(c) \/ ResetExecute(c)
  \/ DeviceDown(c) \/ DeviceDownTimeout(c)
  \/ SystemStart(c) \/ SystemBootstart(c) \/ UpdateStart(c)
  \/ ResetFinish(c) \/ FinishReread(c) \/ ReleaseInitMutex(c)

HandlerStep(h) ==
  \/ IsrConfirm(h) \/ IsrOtherDevice(h) \/ IsrRead(h)
  \/ DsrIgnored(h) \/ DsrBuffer(h) \/ DsrFlip(h) \/ DsrFlags(h)

Next ==
  \/ \E c \in Caller, m \in Mode : Call(c, m)
  \/ \E c \in Caller : CallerStep(c)
  \/ \E h \in Handler : HandlerStep(h)
  \/ TimerEnter \/ TimerLeave \/ ReadHandshakeFlags
  \/ DeviceToggle \/ DeviceReset \/ DeviceUpdated \/ DeviceUp

Spec == Init /\ [][Next]_vars

-----------------------------------------------------------------------------
Label == {"idle", "check", "mutex", "prepare", "zero", "execute", "down",
          "up", "cookie", "down2", "up2", "finish", "handlers", "reread",
          "release"}
Flags == {"off", "old", "new"}
HLabel == {"idle", "read", "dsr", "flip", "flags"}
ResultCode == {"CIFX_NO_ERROR", "CIFX_DEV_NOT_READY", "CIFX_DEV_RESET_TIMEOUT",
               "CIFX_DEV_FUNCTION_FAILED"}

(* Every variable keeps the type the code's declarations give it. *)
TypeOK ==
  /\ fIrqEnabled \in BOOLEAN /\ idpm \in BOOLEAN
  /\ pc \in [Caller -> Label]
  /\ mode \in [Caller -> Mode]
  /\ lRet \in [Caller -> ResultCode]
  /\ calls \in 0 .. MaxCalls
  /\ pvInitMutex \in Caller \cup {Timer, NoCaller}
  /\ fResetActive \in BOOLEAN
  /\ usNetxFlags \in Flags
  /\ hpc \in [Handler -> HLabel] /\ hbuf \in [Handler -> {0, 1}]
  /\ iIrqToDsrBuffer \in {0, 1}
  /\ fValid \in [0 .. 1 -> BOOLEAN] /\ atHsk \in [0 .. 1 -> Flags]
  /\ dev \in {"fw", "bsl", "booting"} /\ task \in Mode
  /\ ulSystemControl \in Mode /\ resetBit \in BOOLEAN
  /\ irqPending \in BOOLEAN
  /\ boots \in 0 .. 2
  /\ overlap \in BOOLEAN /\ failed \in BOOLEAN /\ timedOut \in BOOLEAN

(* A caller between DEV_Reset_Prepare and DEV_Reset_Finish. *)
Resetting(c) == pc[c] \in {"zero", "execute", "down", "up", "cookie", "down2",
                           "up2", "finish"} /\ ~idpm

(* While a device is being reset, the caller owns pvInitMutex, so neither  *)
(* another reset nor DEV_CheckCOSFlags touches it, and fResetActive keeps  *)
(* the DSR away: nobody else's DEV_Reset_Finish clears the flag early.     *)
ResetExclusive ==
  \A c \in Caller : Resetting(c) => pvInitMutex = c /\ fResetActive

(* The DSR is switched off for good only by a device that did not react    *)
(* (CIFX_DEV_RESET_TIMEOUT); every other result, CIFX_DEV_NOT_READY and    *)
(* CIFX_DEV_FUNCTION_FAILED included, has gone through DEV_Reset_Finish.   *)
ActiveOrTimedOut ==
  fResetActive => timedOut \/ \E c \in Caller : Resetting(c)

(* CIFX_NO_ERROR is honest: the device has restarted since the command     *)
(* (twice for an update) and runs what was asked for.  Only a restart left *)
(* over from a call that failed can be mistaken for the call's own.        *)
ResetHonest ==
  \A c \in Caller :
    /\ pc[c] \in {"finish", "handlers", "reread", "release"}
    /\ lRet[c] = "CIFX_NO_ERROR" /\ ~idpm /\ ~failed
    => /\ boots >= (IF mode[c] = "UPDATESTART" THEN 2 ELSE 1)
       /\ dev = IF mode[c] = "BOOTSTART" THEN "bsl" ELSE "fw"

-----------------------------------------------------------------------------
(* The inductive invariant behind these properties.                        *)

(* pvInitMutex is held exactly where the code says; a caller runs the      *)
(* handlers in interrupt mode at the end of a reset, and only there.       *)
OwnerInv ==
  \A c \in Caller :
    /\ pc[c] \notin {"idle", "check", "mutex"} <=> pvInitMutex = c
    /\ hpc[c] # "idle" => pc[c] = "handlers"
    /\ pc[c] \in Label \ {"idle", "check", "mutex", "execute", "release"} => ~idpm

ActiveInv == \A c \in Caller : Resetting(c) => fResetActive

ControlInv == OwnerInv /\ ActiveInv /\ ActiveOrTimedOut

(* How far the device is with the command of caller c: not yet taken,      *)
(* restarting, up again; after an update restarting and up once more.      *)
Commanded(c) == /\ boots = 0 /\ dev # "booting" /\ resetBit
                /\ ~(dev = "bsl" /\ task = "UPDATESTART")
First(c)  == boots = 1 /\ dev = "booting" /\ task = mode[c] /\ ~resetBit
Up(c)     == /\ boots = 1 /\ dev # "booting" /\ ~resetBit
             /\ dev = "bsl" => task = mode[c] /\ mode[c] # "SYSTEMSTART"
Second(c) == /\ boots = 2 /\ dev = "booting" /\ task = "SYSTEMSTART"
             /\ ~resetBit /\ mode[c] = "UPDATESTART"
Updated(c) == boots = 2 /\ dev = "fw" /\ ~resetBit /\ mode[c] = "UPDATESTART"

(* Nothing the device could still restart for. *)
Settled == dev # "booting" /\ ~resetBit /\ ~(dev = "bsl" /\ task = "UPDATESTART")

(* A caller's knowledge of the device, as long as no reset has failed.     *)
ProgressInv ==
  ~failed /\ ~idpm =>
    /\ (\A c \in Caller : pc[c] \in {"idle", "check", "mutex", "prepare", "zero",
                                      "execute"}) => Settled
    /\ \A c \in Caller :
         /\ pc[c] \in {"prepare", "zero", "execute", "down"} =>
              ulSystemControl = mode[c]
         /\ pc[c] = "down" => \/ Commanded(c) \/ First(c) \/ Up(c) \/ Second(c)
                              \/ Updated(c)
         /\ pc[c] = "up" => First(c) \/ Up(c) \/ Second(c) \/ Updated(c)
         /\ pc[c] = "cookie" => Up(c) \/ Second(c) \/ Updated(c)
         /\ pc[c] = "down2" => /\ Up(c) \/ Second(c) \/ Updated(c)
                               /\ dev = "fw" => boots = 2
         /\ pc[c] = "up2" => Second(c) \/ Updated(c)
         /\ pc[c] \in {"finish", "handlers", "reread", "release"} =>
              /\ Settled /\ lRet[c] = "CIFX_NO_ERROR"
              /\ boots >= (IF mode[c] = "UPDATESTART" THEN 2 ELSE 1)
              /\ dev = IF mode[c] = "BOOTSTART" THEN "bsl" ELSE "fw"

(* Somebody is still going to read the flags of the cells. *)
Awaited == \/ irqPending \/ fResetActive
           \/ \E c \in Caller : pc[c] = "handlers" /\ hpc[c] = "idle"

(* The buffer on its way from the ISR to the DSR in a run of the handlers  *)
(* that has read the cells.                                                *)
Carried(h) == atHsk[IF hpc[h] = "dsr" THEN iIrqToDsrBuffer ELSE hbuf[h]]

(* Unless two runs of the handlers overlapped, there is one at a time, and *)
(* it, or else the cache, has the device's current flags.                  *)
FreshInv ==
  fIrqEnabled /\ ~overlap =>
    /\ \A g, h \in Handler : hpc[g] # "idle" /\ hpc[h] # "idle" => g = h
    /\ \A h \in Handler : hpc[h] = "read" =>
         hbuf[h] = iIrqToDsrBuffer /\ fValid[iIrqToDsrBuffer]
    /\ dev # "booting" /\ ~Awaited =>
         /\ \A h \in Handler :
              /\ hpc[h] \in {"dsr", "flip", "flags"} => Carried(h) = "new"
              /\ hpc[h] = "dsr" => fValid[iIrqToDsrBuffer]
         /\ (\A h \in Handler : hpc[h] = "idle") => usNetxFlags = "new"

ResetInv == TypeOK /\ ControlInv /\ ProgressInv /\ FreshInv

-----------------------------------------------------------------------------
(* No interrupt is on its way or being handled, and none is switched off.  *)
Quiet == /\ ~irqPending /\ ~fResetActive
         /\ \A h \in Handler : hpc[h] = "idle"
         /\ \A c \in Caller : pc[c] # "handlers"

(* In interrupt mode the cached flags are those of a device that is READY  *)
(* as soon as no interrupt is under way, across any number of resets, if   *)
(* the handlers of interrupt thread and DEV_Reset_Finish did not overlap.  *)
FlagsFresh ==
  fIrqEnabled /\ Quiet /\ Cell # "off" /\ ~overlap => usNetxFlags = Cell

(* "so we won't miss an IRQ" (cifXInterrupt.c:120): the same without the   *)
(* restriction.                                                            *)
IrqNotMissed == fIrqEnabled /\ Quiet /\ Cell # "off" => usNetxFlags = Cell

(* "!=0 if a reset is pending on device" (cifXHWFunctions.h:454). *)
ResetPending ==
  fResetActive => \/ \E c \in Caller : Resetting(c)
                  \/ resetBit \/ dev = "booting"

=============================================================================

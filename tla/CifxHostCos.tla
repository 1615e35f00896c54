---------------------------- MODULE CifxHostCos ----------------------------
(***************************************************************************)
(* The host's change-of-state (COS) handshake of one communication         *)
(* channel.  The application's wishes (bus on, host ready, configuration   *)
(* lock, channel initialisation) are bits of ulHostCOSFlags.  They reach   *)
(* the firmware by a write of ulApplicationCOS in the dual-port memory     *)
(* followed by a toggle of HCF_HOST_COS_CMD; the firmware acknowledges by  *)
(* toggling NCF_HOST_COS_ACK.  Three parties signal this way:              *)
(*                                                                         *)
(*   - application threads, in DEV_DoHostCOSChange, which waits for the    *)
(*     bits to be equal, signals, and waits for them to be equal again;    *)
(*   - the polling thread, in DEV_CheckCOSFlags, without interrupts;       *)
(*   - the DSR, with interrupts.                                           *)
(*                                                                         *)
(* Each of them tests the bits first and takes the flag access lock only   *)
(* for the write and the toggle, so a test may be outdated when its result *)
(* is used.  A critical section of pvLock is one step here; that the lock  *)
(* is needed for it is the subject of CifxMailbox.                         *)
(***************************************************************************)
EXTENDS Naturals, FiniteSets

CONSTANTS
  Thread,      \* application threads
  NoThread,    \* owner of a free mutex, writer of the initial COS flags
  Op,          \* the calls tried, a subset of AllOp
  CommState,   \* values of ulCommunicationCOS the firmware shows
  MaxCalls,    \* bound: API calls of all threads
  MaxChange    \* bound: changes of state the firmware reports by itself

AllOp == {"hostReady", "hostNotReady", "busOn", "busOff", "lock", "unlock",
          "init"}
AppFlag == {"APPLICATION_READY", "BUS_ON", "BUS_ON_ENABLE", "INITIALIZATION",
            "INITIALIZATION_ENABLE", "LOCK_CONFIGURATION",
            "LOCK_CONFIGURATION_ENABLE"}
CommFlag == {"READY", "RUN", "BUS_ON", "CONFIG_LOCKED"}
Party == Thread \cup {NoThread, "timer", "dsr"}

(* Handshake bits: host COS command and acknowledge, netX COS command and  *)
(* acknowledge, COMMUNICATING (netX side only).                            *)
Bit == {"hostCos", "netxCos", "com"}

ASSUME HostCosAssumption ==
  /\ NoThread \notin Thread
  /\ "timer" \notin Thread /\ "dsr" \notin Thread
  /\ NoThread \notin {"timer", "dsr"}
  /\ Op \subseteq AllOp
  /\ CommState \subseteq SUBSET CommFlag /\ CommState # {}
  /\ MaxCalls \in Nat /\ MaxChange \in Nat

VARIABLES
  fIrqEnabled,                     \* DEVICEINSTANCE: interrupt or polling mode
  pc, stage, op, wait,             \* per thread: control, what is waited for,
                                   \* call, ulTimeout # 0
  was,                             \* per thread: *pulState / fRunning on entry
  tmp,                             \* per thread: host flags read from the cell
  cosRet, ret,                     \* per thread: result of DEV_DoHostCOSChange,
                                   \* of the call
  calls,                           \* calls made so far
  initMutex,                       \* owner of pvInitMutex
  ulHostCOSFlags,                  \* CHANNELINSTANCE: COS flags wanted, ...
  ulHostCOSFlagsSaved,             \* ... COS flags written last
  ulDeviceCOSFlags,                \* CHANNELINSTANCE: cached firmware state ...
  ulDeviceCOSFlagsChanged,         \* ... and what changed in it last
  usHostFlags, usNetxFlags,        \* CHANNELINSTANCE: own and cached netX bits
  events,                          \* ahHandshakeBitEvents that are set
  timerPc, ulCOSChanged,           \* control of the polling thread, its local
                                   \* copy of ulDeviceCOSFlagsChanged
  irqPc, snapshot,                 \* control of the interrupt thread, flags
  changed, unequal,                \* the ISR read, usChangedBits, usUnequalBits
  cellHost, cellNetx, irqPending,  \* DPM: handshake cell, interrupt line
  appCOS, commCOS, changes,        \* DPM: ulApplicationCOS, ulCommunicationCOS;
                                   \* changes reported so far
  writer, acked,                   \* history: who wrote appCOS last; whether
                                   \* the firmware read what a call wrote
  clash,                           \* history: a test was outdated when used
  armed, resent                    \* history: ENABLE flags requested and not
                                   \* yet signalled; signalled once too often

callVars  == <<op, wait, was, calls>>
retVars   == <<cosRet, ret>>
cosVars   == <<ulHostCOSFlags, ulHostCOSFlagsSaved, appCOS>>
devVars   == <<ulDeviceCOSFlags, ulDeviceCOSFlagsChanged>>
flagVars  == <<usHostFlags, usNetxFlags, cellHost>>
timerVars == <<timerPc, ulCOSChanged>>
irqVars   == <<irqPc, snapshot, changed, unequal>>
histVars  == <<writer, acked, clash, armed, resent>>
fwVars    == <<cellNetx, commCOS, changes>>
threadVars == <<pc, stage, callVars, tmp, retVars>>
vars == <<fIrqEnabled, threadVars, initMutex, cosVars, devVars, flagVars,
          events, timerVars, irqVars, fwVars, irqPending, histVars>>

-----------------------------------------------------------------------------
Toggle(flags, b) == IF b \in flags THEN flags \ {b} ELSE flags \cup {b}

Unequal(f, g, b) == (b \in f) # (b \in g)

Goto(t, l) == pc' = [pc EXCEPT ![t] = l]

(* Mutant: the firmware's READY flag is taken for the application's. *)
ulSetCOSMaskComm(o) == IF o = "hostReady" THEN {"READY"} ELSE {}

(* The masks each call hands to DEV_DoHostCOSChange. *)
ulSetCOSMask(o) ==
  CASE o = "hostReady" -> {"APPLICATION_READY"}
    [] o = "busOn" -> {"BUS_ON", "BUS_ON_ENABLE"}
    [] o = "busOff" -> {"BUS_ON_ENABLE"}
    [] o = "lock" -> {"LOCK_CONFIGURATION", "LOCK_CONFIGURATION_ENABLE"}
    [] o = "unlock" -> {"LOCK_CONFIGURATION_ENABLE"}
    [] o = "init" -> {"INITIALIZATION", "INITIALIZATION_ENABLE"}
    [] OTHER -> {}

ulClearCOSMask(o) ==
  CASE o = "hostNotReady" -> {"APPLICATION_READY"}
    [] o = "busOff" -> {"BUS_ON"}
    [] o = "unlock" -> {"LOCK_CONFIGURATION"}
    [] OTHER -> {}

(* Mutant: a channel initialisation leaves its ENABLE flag in the local    *)
(* flags.                                                                  *)
ulPostClearCOSMaskNoInit(o) ==
  CASE o \in {"busOn", "busOff"} -> {"BUS_ON_ENABLE"}
    [] o \in {"lock", "unlock"} -> {"LOCK_CONFIGURATION_ENABLE"}
    [] OTHER -> {}

ulPostClearCOSMask(o) ==
  CASE o \in {"busOn", "busOff"} -> {"BUS_ON_ENABLE"}
    [] o \in {"lock", "unlock"} -> {"LOCK_CONFIGURATION_ENABLE"}
    [] o = "init" -> {"INITIALIZATION_ENABLE"}
    [] OTHER -> {}

(* What the polling thread and the DSR strip from the local flags. *)
EnableFlag == {"BUS_ON_ENABLE", "INITIALIZATION_ENABLE",
               "LOCK_CONFIGURATION_ENABLE"}

Wanted(o) == (ulHostCOSFlags \cup ulSetCOSMask(o)) \ ulClearCOSMask(o)

(* A channel initialisation always waits for the COS handshake itself      *)
(* (CIFX_TO_WAIT_COS_CMD); the other calls use the caller's timeout.       *)
CosWait(t) == op[t] = "init" \/ wait[t]

(* Mutant: a missing acknowledge is not reported. *)
SignallingErrorNone(t) == "CIFX_NO_ERROR"

(* lSignallingError of the call. *)
SignallingError(t) == IF op[t] = "init" THEN "CIFX_DEV_FUNCTION_FAILED"
                                        ELSE "CIFX_DEV_xxx_TIMEOUT"

(* Polling mode reads the handshake flags before every look at them; with  *)
(* interrupts "handshake flags are read on interrupt, so no need to read   *)
(* them here".                                                             *)
ReadLabel == IF fIrqEnabled THEN "eval" ELSE "read"

(* DEV_WaitForBitState sleeps on the bit's event; the waits for READY and  *)
(* RUNNING poll the cached flags in either mode.                           *)
RetryLabel(t) == IF fIrqEnabled /\ stage[t] \in {"access", "ack", "com"}
                   THEN "wait" ELSE ReadLabel

DevRunning == {"READY", "RUN"} \subseteq ulDeviceCOSFlags

(* *plError of DEV_IsCommunicating. *)
ComError == IF "READY" \notin ulDeviceCOSFlags THEN "CIFX_DEV_NOT_READY"
            ELSE IF "RUN" \notin ulDeviceCOSFlags THEN "CIFX_DEV_NOT_RUNNING"
            ELSE IF "com" \in usNetxFlags THEN "CIFX_NO_ERROR"
            ELSE "CIFX_DEV_NO_COM_FLAG"

(* The state a thread waits for. *)
Reached(t) ==
  CASE stage[t] \in {"access", "ack"} -> ~Unequal(usHostFlags, usNetxFlags, "hostCos")
    [] stage[t] = "com" -> ("com" \in usNetxFlags) = (op[t] = "busOn")
    [] stage[t] = "notRunning" -> ~DevRunning
    [] stage[t] = "notReady" -> "READY" \notin ulDeviceCOSFlags
    [] OTHER -> "READY" \in ulDeviceCOSFlags

(* DEV_ReadHandshakeFlags: refresh the cached bits and take over and       *)
(* acknowledge a change the firmware has reported.                         *)
RefreshFlags ==
  /\ usNetxFlags' = cellNetx
  /\ IF Unequal(usHostFlags, cellNetx, "netxCos")
       THEN /\ usHostFlags' = Toggle(usHostFlags, "netxCos")
            /\ cellHost' = Toggle(usHostFlags, "netxCos")
            /\ ulDeviceCOSFlags' = commCOS
            /\ ulDeviceCOSFlagsChanged' =
                 IF ulDeviceCOSFlags = commCOS THEN ulDeviceCOSFlagsChanged
                 ELSE (ulDeviceCOSFlags \ commCOS) \cup (commCOS \ ulDeviceCOSFlags)
       ELSE UNCHANGED <<usHostFlags, cellHost, devVars>>

(* Mutant: the written flags are not remembered. *)
SavedFlagsKept(new) == ulHostCOSFlagsSaved

SavedFlags(new) == new

(* The critical section all three parties share: write the flags, remember *)
(* them, toggle the command bit, strip the ENABLE flags locally.  own are  *)
(* the ENABLE flags requested with this very write.                        *)
SignalCos(p, new, strip, own) ==
  /\ appCOS' = new
  /\ ulHostCOSFlagsSaved' = SavedFlags(new)
  /\ usHostFlags' = Toggle(usHostFlags, "hostCos")
  /\ cellHost' = Toggle(usHostFlags, "hostCos")
  /\ ulHostCOSFlags' = new \ strip
  /\ writer' = p
  /\ acked' = [t \in Thread |-> acked[t] /\ t # p]
  /\ clash' = (clash \/ Unequal(usHostFlags, usNetxFlags, "hostCos"))
  /\ resent' = resent \cup ((new \cap EnableFlag) \ (armed \cup own))
  /\ armed' = (armed \cup own) \ new
  /\ UNCHANGED <<usNetxFlags>>

-----------------------------------------------------------------------------
Init ==
  /\ fIrqEnabled \in BOOLEAN
  /\ pc = [t \in Thread |-> "idle"]
  /\ stage = [t \in Thread |-> "pre"]
  /\ op = [t \in Thread |-> "none"]
  /\ wait = [t \in Thread |-> FALSE]
  /\ was = [t \in Thread |-> FALSE]
  /\ tmp = [t \in Thread |-> {}]
  /\ cosRet = [t \in Thread |-> "none"]
  /\ ret = [t \in Thread |-> "none"]
  /\ calls = 0
  /\ initMutex = NoThread
  /\ ulHostCOSFlags = {} /\ ulHostCOSFlagsSaved = {} /\ appCOS = {}
  /\ commCOS \in CommState
  /\ ulDeviceCOSFlags = commCOS /\ ulDeviceCOSFlagsChanged = {}
  /\ usHostFlags = {} /\ usNetxFlags = {} /\ cellHost = {} /\ cellNetx = {}
  /\ events = {}
  /\ timerPc = "idle" /\ ulCOSChanged = {}
  /\ irqPc = "idle" /\ snapshot = {} /\ changed = {} /\ unequal = {}
  /\ irqPending = FALSE
  /\ changes = 0
  /\ writer = NoThread
  /\ acked = [t \in Thread |-> FALSE]
  /\ clash = FALSE /\ armed = {} /\ resent = {}

-----------------------------------------------------------------------------
(* Calls.  xChannelBusState samples the bus state before anything else.    *)

Call(t, o, w) ==
  /\ pc[t] = "idle" /\ calls < MaxCalls
  /\ calls' = calls + 1
  /\ op' = [op EXCEPT ![t] = o]
  /\ wait' = [wait EXCEPT ![t] = w]
  /\ was' = [was EXCEPT ![t] = o \in {"busOn", "busOff"} /\ "BUS_ON" \in commCOS]
  /\ stage' = [stage EXCEPT ![t] = "pre"]
  /\ cosRet' = [cosRet EXCEPT ![t] = "none"]
  /\ Goto(t, ReadLabel)
  /\ UNCHANGED <<fIrqEnabled, tmp, ret, initMutex, cosVars, devVars, flagVars,
                 events, timerVars, irqVars, fwVars, irqPending, histVars>>

ReadHandshakeFlags(t) ==
  /\ pc[t] = "read"
  /\ RefreshFlags
  /\ Goto(t, "eval")
  /\ UNCHANGED <<fIrqEnabled, stage, callVars, tmp, retVars, initMutex,
                 cosVars, events, timerVars, irqVars, fwVars, irqPending,
                 histVars>>

(* Leave the call with result r; a channel initialisation that owns the    *)
(* mutex releases it first.                                                *)
Return(t, r) ==
  /\ ret' = [ret EXCEPT ![t] = r]
  /\ Goto(t, IF initMutex = t THEN "release" ELSE "idle")
  /\ UNCHANGED stage

(* Start waiting for something. *)
Begin(t, s) ==
  /\ stage' = [stage EXCEPT ![t] = s]
  /\ Goto(t, ReadLabel)
  /\ UNCHANGED ret

(* The checks before DEV_DoHostCOSChange, one action per function. *)
SetHostState(t) ==
  /\ pc[t] = "eval" /\ stage[t] = "pre"
  /\ op[t] \in {"hostReady", "hostNotReady"}
  /\ IF "READY" \notin ulDeviceCOSFlags THEN Return(t, "CIFX_DEV_NOT_READY")
     ELSE IF wait[t] THEN Begin(t, "access")
     ELSE Goto(t, "remember") /\ UNCHANGED <<stage, ret>>
  /\ UNCHANGED <<fIrqEnabled, callVars, tmp, cosRet, initMutex, cosVars,
                 devVars, flagVars, events, timerVars, irqVars, fwVars,
                 irqPending, histVars>>

BusStateOn(t) ==
  /\ pc[t] = "eval" /\ stage[t] = "pre" /\ op[t] = "busOn"
  /\ IF ComError # "CIFX_DEV_NO_COM_FLAG" THEN Return(t, ComError)
     ELSE IF ~was[t] THEN Begin(t, "access")
     ELSE IF wait[t] THEN Begin(t, "com")
     ELSE Return(t, "CIFX_DEV_NO_COM_FLAG")
  /\ UNCHANGED <<fIrqEnabled, callVars, tmp, cosRet, initMutex, cosVars,
                 devVars, flagVars, events, timerVars, irqVars, fwVars,
                 irqPending, histVars>>

BusStateOff(t) ==
  /\ pc[t] = "eval" /\ stage[t] = "pre" /\ op[t] = "busOff"
  /\ IF "READY" \notin ulDeviceCOSFlags THEN Return(t, "CIFX_DEV_NOT_READY")
     ELSE IF was[t] \/ ComError = "CIFX_NO_ERROR" THEN Begin(t, "access")
     ELSE IF wait[t] THEN Begin(t, "com")
     ELSE Return(t, ComError)
  /\ UNCHANGED <<fIrqEnabled, callVars, tmp, cosRet, initMutex, cosVars,
                 devVars, flagVars, events, timerVars, irqVars, fwVars,
                 irqPending, histVars>>

ConfigLock(t) ==
  /\ pc[t] = "eval" /\ stage[t] = "pre" /\ op[t] \in {"lock", "unlock"}
  /\ IF ("CONFIG_LOCKED" \in ulDeviceCOSFlags) = (op[t] = "lock")
       THEN Return(t, "CIFX_NO_ERROR")
       ELSE Begin(t, "access")
  /\ UNCHANGED <<fIrqEnabled, callVars, tmp, cosRet, initMutex, cosVars,
                 devVars, flagVars, events, timerVars, irqVars, fwVars,
                 irqPending, histVars>>

(* DEV_DoChannelInit: fRunning, then pvInitMutex. *)
ChannelInit(t) ==
  /\ pc[t] = "eval" /\ stage[t] = "pre" /\ op[t] = "init"
  /\ was' = [was EXCEPT ![t] = DevRunning]
  /\ Goto(t, "mutex")
  /\ UNCHANGED <<fIrqEnabled, stage, op, wait, calls, tmp, retVars, initMutex,
                 cosVars, devVars, flagVars, events, timerVars, irqVars,
                 fwVars, irqPending, histVars>>

(* Mutant: pvInitMutex does not exclude. *)
InitMutexIgnored == TRUE

InitMutexFree == initMutex = NoThread

WaitInitMutex(t) ==
  /\ pc[t] = "mutex" /\ InitMutexFree
  /\ initMutex' = t
  /\ Begin(t, "access")
  /\ UNCHANGED <<fIrqEnabled, callVars, tmp, cosRet, cosVars, devVars,
                 flagVars, events, timerVars, irqVars, fwVars, irqPending,
                 histVars>>

WaitInitMutexTimeout(t) ==
  /\ pc[t] = "mutex" /\ ~InitMutexFree
  /\ Return(t, "CIFX_DRV_CMD_ACTIVE")
  /\ UNCHANGED <<fIrqEnabled, callVars, tmp, cosRet, initMutex, cosVars,
                 devVars, flagVars, events, timerVars, irqVars, fwVars,
                 irqPending, histVars>>

-----------------------------------------------------------------------------
(* DEV_DoHostCOSChange has returned r: what the call does next. *)

(* The end of a channel initialisation: the firmware must lose RUN (if it  *)
(* has not done so already), then READY, then come back.                   *)
InitWait(t) == IF wait[t] THEN Begin(t, "notReady") ELSE Return(t, "CIFX_NO_ERROR")

CosDone(t, r) ==
  /\ cosRet' = [cosRet EXCEPT ![t] = r]
  /\ CASE op[t] = "busOn" ->
            IF r # "CIFX_NO_ERROR" THEN Return(t, r)
            ELSE IF wait[t] THEN Begin(t, "com")
            ELSE Return(t, "CIFX_DEV_NO_COM_FLAG")
       [] op[t] = "busOff" ->
            IF wait[t] /\ r # "CIFX_DEV_FUNCTION_FAILED" THEN Begin(t, "com")
            ELSE Return(t, r)
       [] op[t] = "init" ->
            IF r # "CIFX_NO_ERROR" THEN Return(t, r)
            ELSE IF /\ was[t] /\ "RUN" \in ulDeviceCOSFlags
                    /\ "RUN" \notin ulDeviceCOSFlagsChanged
                   THEN Begin(t, "notRunning")
                   ELSE InitWait(t)
       [] OTHER -> Return(t, r)

(* The awaited state is there. *)
WaitOk(t) ==
  /\ pc[t] = "eval" /\ stage[t] # "pre"
  /\ Reached(t)
  /\ CASE stage[t] = "access" -> Goto(t, "change") /\ UNCHANGED <<stage, retVars>>
       [] stage[t] = "ack" -> CosDone(t, "CIFX_NO_ERROR")
       [] stage[t] = "com" -> Return(t, "CIFX_NO_ERROR") /\ UNCHANGED cosRet
       [] stage[t] = "notRunning" -> InitWait(t) /\ UNCHANGED cosRet
       [] stage[t] = "notReady" -> Begin(t, "ready") /\ UNCHANGED cosRet
       [] OTHER -> Goto(t, "load") /\ UNCHANGED <<stage, retVars>>
  /\ UNCHANGED <<fIrqEnabled, callVars, tmp, initMutex, cosVars, devVars,
                 flagVars, events, timerVars, irqVars, fwVars, irqPending,
                 histVars>>

(* It is not, and the timeout is not over: poll again or wait. *)
WaitRetry(t) ==
  /\ pc[t] = "eval" /\ stage[t] # "pre"
  /\ ~Reached(t)
  /\ CosWait(t)
  /\ Goto(t, RetryLabel(t))
  /\ UNCHANGED <<fIrqEnabled, stage, callVars, tmp, retVars, initMutex,
                 cosVars, devVars, flagVars, events, timerVars, irqVars,
                 fwVars, irqPending, histVars>>

(* The timeout is over (a timeout of 0 at the first look). *)
WaitTimeout(t) ==
  /\ pc[t] = "eval" /\ stage[t] # "pre"
  /\ ~Reached(t)
  /\ CASE stage[t] = "access" ->
            IF CosWait(t) THEN CosDone(t, "CIFX_DEV_FUNCTION_FAILED")
            ELSE Goto(t, "remember") /\ UNCHANGED <<stage, retVars>>
       [] stage[t] = "ack" ->
            CosDone(t, IF CosWait(t) THEN SignallingError(t) ELSE "CIFX_NO_ERROR")
       [] stage[t] = "com" ->
            /\ Return(t, IF op[t] = "busOn" THEN "CIFX_DEV_NO_COM_FLAG"
                                            ELSE "CIFX_DEV_BUS_STATE_OFF_TIMEOUT")
            /\ UNCHANGED cosRet
       [] stage[t] = "notRunning" ->
            Return(t, "CIFX_DEV_RESET_TIMEOUT") /\ UNCHANGED cosRet
       [] stage[t] = "notReady" -> Return(t, "CIFX_NO_ERROR") /\ UNCHANGED cosRet
       [] OTHER -> Return(t, "CIFX_DEV_NOT_READY") /\ UNCHANGED cosRet
  /\ UNCHANGED <<fIrqEnabled, callVars, tmp, initMutex, cosVars, devVars,
                 flagVars, events, timerVars, irqVars, fwVars, irqPending,
                 histVars>>

WaitBit(t) == IF stage[t] = "com" THEN "com" ELSE "hostCos"

(* OS_WaitEvent, with the event and without it. *)
WaitEvent(t) ==
  /\ pc[t] = "wait" /\ WaitBit(t) \in events
  /\ events' = events \ {WaitBit(t)}
  /\ Goto(t, "eval")
  /\ UNCHANGED <<fIrqEnabled, stage, callVars, tmp, retVars, initMutex,
                 cosVars, devVars, flagVars, timerVars, irqVars, fwVars,
                 irqPending, histVars>>

WaitEventTimeout(t) ==
  /\ pc[t] = "wait" /\ WaitBit(t) \notin events
  /\ Goto(t, "eval")
  /\ UNCHANGED <<fIrqEnabled, stage, callVars, tmp, retVars, initMutex,
                 cosVars, devVars, flagVars, events, timerVars, irqVars,
                 fwVars, irqPending, histVars>>

(* The critical sections of DEV_DoHostCOSChange (and of DEV_SetHostState   *)
(* without a timeout): signal the flags, or only note them.                *)
HostCosChange(t) ==
  /\ pc[t] = "change"
  /\ SignalCos(t, Wanted(op[t]), ulPostClearCOSMask(op[t]),
               ulSetCOSMask(op[t]) \cap EnableFlag)
  /\ Begin(t, "ack")
  /\ UNCHANGED <<fIrqEnabled, callVars, tmp, cosRet, initMutex, devVars,
                 events, timerVars, irqVars, fwVars, irqPending>>

HostCosRemember(t) ==
  /\ pc[t] = "remember"
  /\ ulHostCOSFlags' = Wanted(op[t])
  /\ armed' = armed \cup (ulSetCOSMask(op[t]) \cap EnableFlag)
  /\ CosDone(t, "CIFX_NO_ERROR")
  /\ UNCHANGED <<fIrqEnabled, callVars, tmp, initMutex, ulHostCOSFlagsSaved,
                 appCOS, devVars, flagVars, events, timerVars, irqVars,
                 fwVars, irqPending, writer, acked, clash, resent>>

(* DEV_ReadHostFlags at the end of a channel initialisation: the host bits *)
(* are read back from the cell and stored without the flag access lock.    *)
ReadHostFlagsLoad(t) ==
  /\ pc[t] = "load"
  /\ tmp' = [tmp EXCEPT ![t] = cellHost]
  /\ Goto(t, "store")
  /\ UNCHANGED <<fIrqEnabled, stage, callVars, retVars, initMutex, cosVars,
                 devVars, flagVars, events, timerVars, irqVars, fwVars,
                 irqPending, histVars>>

ReadHostFlagsStore(t) ==
  /\ pc[t] = "store"
  /\ usHostFlags' = tmp[t]
  /\ ulDeviceCOSFlags' = commCOS
  /\ clash' = (clash \/ tmp[t] # cellHost)
  /\ tmp' = [tmp EXCEPT ![t] = {}]
  /\ Return(t, "CIFX_NO_ERROR")
  /\ UNCHANGED <<fIrqEnabled, callVars, cosRet, initMutex, cosVars,
                 ulDeviceCOSFlagsChanged, usNetxFlags, cellHost, events,
                 timerVars, irqVars, fwVars, irqPending, writer, acked, armed,
                 resent>>

ReleaseInitMutex(t) ==
  /\ pc[t] = "release"
  /\ initMutex' = NoThread
  /\ Goto(t, "idle")
  /\ UNCHANGED <<fIrqEnabled, stage, callVars, tmp, retVars, cosVars, devVars,
                 flagVars, events, timerVars, irqVars, fwVars, irqPending,
                 histVars>>

-----------------------------------------------------------------------------
(* The polling thread: DEV_CheckCOSFlags, without interrupts only.  It     *)
(* skips a channel that is initialising.                                   *)

TimerStart ==
  /\ ~fIrqEnabled
  /\ timerPc = "idle" /\ InitMutexFree
  /\ initMutex' = "timer"
  /\ timerPc' = "compare"
  /\ UNCHANGED <<fIrqEnabled, threadVars, ulCOSChanged, cosVars, devVars,
                 flagVars, events, irqVars, fwVars, irqPending, histVars>>

TimerCompare ==
  /\ timerPc = "compare"
  /\ timerPc' = IF ulHostCOSFlags # appCOS THEN "bit" ELSE "refresh"
  /\ UNCHANGED <<fIrqEnabled, threadVars, ulCOSChanged, initMutex, cosVars,
                 devVars, flagVars, events, irqVars, fwVars, irqPending,
                 histVars>>

(* DEV_WaitForBitState with a timeout of 0. *)
TimerReadBit ==
  /\ timerPc = "bit"
  /\ RefreshFlags
  /\ timerPc' = "bitEval"
  /\ UNCHANGED <<fIrqEnabled, threadVars, ulCOSChanged, initMutex, cosVars,
                 events, irqVars, fwVars, irqPending, histVars>>

TimerEvalBit ==
  /\ timerPc = "bitEval"
  /\ timerPc' = IF Unequal(usHostFlags, usNetxFlags, "hostCos")
                  THEN "refresh" ELSE "write"
  /\ UNCHANGED <<fIrqEnabled, threadVars, ulCOSChanged, initMutex, cosVars,
                 devVars, flagVars, events, irqVars, fwVars, irqPending,
                 histVars>>

TimerWrite ==
  /\ timerPc = "write"
  /\ SignalCos("timer", ulHostCOSFlags, EnableFlag, {})
  /\ timerPc' = "refresh"
  /\ UNCHANGED <<fIrqEnabled, threadVars, ulCOSChanged, initMutex, devVars,
                 events, irqVars, fwVars, irqPending>>

TimerRefresh ==
  /\ timerPc = "refresh"
  /\ RefreshFlags
  /\ ulCOSChanged' = ulDeviceCOSFlagsChanged'
  /\ timerPc' = "clear"
  /\ UNCHANGED <<fIrqEnabled, threadVars, initMutex, cosVars, events, irqVars,
                 fwVars, irqPending, histVars>>

(* Mutant: the early way out keeps pvInitMutex. *)
TimerFinishLocked ==
  /\ timerPc = "clear"
  /\ ulDeviceCOSFlagsChanged' = ulDeviceCOSFlagsChanged \ ulCOSChanged
  /\ ulCOSChanged' = {}
  /\ timerPc' = "idle"
  /\ UNCHANGED <<fIrqEnabled, threadVars, initMutex, cosVars,
                 ulDeviceCOSFlags, flagVars, events, irqVars, fwVars,
                 irqPending, histVars>>

TimerFinish ==
  /\ timerPc = "clear"
  /\ ulDeviceCOSFlagsChanged' = ulDeviceCOSFlagsChanged \ ulCOSChanged
  /\ ulCOSChanged' = {}
  /\ initMutex' = NoThread
  /\ timerPc' = "idle"
  /\ UNCHANGED <<fIrqEnabled, threadVars, cosVars, ulDeviceCOSFlags, flagVars,
                 events, irqVars, fwVars, irqPending, histVars>>

-----------------------------------------------------------------------------
(* The interrupt thread: ISR, then DSR. *)

IsrConfirm ==
  /\ irqPc = "idle" /\ irqPending
  /\ irqPending' = FALSE
  /\ irqPc' = "read"
  /\ UNCHANGED <<fIrqEnabled, threadVars, initMutex, cosVars, devVars,
                 flagVars, events, timerVars, snapshot, changed, unequal,
                 fwVars, histVars>>

IsrRead ==
  /\ irqPc = "read"
  /\ snapshot' = cellNetx
  /\ irqPc' = "dsr"
  /\ UNCHANGED <<fIrqEnabled, threadVars, initMutex, cosVars, devVars,
                 flagVars, events, timerVars, changed, unequal, fwVars,
                 irqPending, histVars>>

(* usNetxFlags, usChangedBits and usUnequalBits are set once, without the  *)
(* lock; the event of the COMMUNICATING bit follows at once.               *)
DsrUpdate ==
  /\ irqPc = "dsr"
  /\ usNetxFlags' = snapshot
  /\ changed' = {b \in Bit : Unequal(usNetxFlags, snapshot, b)}
  /\ unequal' = {b \in Bit : Unequal(snapshot, usHostFlags, b)}
  /\ events' = events \cup (changed' \cap {"com"})
  /\ irqPc' = IF Unequal(snapshot, usHostFlags, "netxCos") THEN "cos" ELSE "check"
  /\ UNCHANGED <<fIrqEnabled, threadVars, initMutex, cosVars, devVars,
                 usHostFlags, cellHost, timerVars, snapshot, fwVars,
                 irqPending, histVars>>

DsrCosAck ==
  /\ irqPc = "cos"
  /\ usHostFlags' = Toggle(usHostFlags, "netxCos")
  /\ cellHost' = Toggle(usHostFlags, "netxCos")
  /\ ulDeviceCOSFlags' = commCOS
  /\ ulDeviceCOSFlagsChanged' =
       IF ulDeviceCOSFlags = commCOS THEN ulDeviceCOSFlagsChanged
       ELSE (ulDeviceCOSFlags \ commCOS) \cup (commCOS \ ulDeviceCOSFlags)
  /\ irqPc' = "check"
  /\ UNCHANGED <<fIrqEnabled, threadVars, initMutex, cosVars, usNetxFlags,
                 events, timerVars, snapshot, changed, unequal, fwVars,
                 irqPending, histVars>>

(* Are there flags to write, and were the bits equal at DsrUpdate? *)
DsrCheck ==
  /\ irqPc = "check"
  /\ irqPc' = IF ulHostCOSFlagsSaved # ulHostCOSFlags /\ "hostCos" \notin unequal
                THEN "write" ELSE "signal"
  /\ UNCHANGED <<fIrqEnabled, threadVars, initMutex, cosVars, devVars,
                 flagVars, events, timerVars, snapshot, changed, unequal,
                 fwVars, irqPending, histVars>>

DsrWrite ==
  /\ irqPc = "write"
  /\ SignalCos("dsr", ulHostCOSFlags, EnableFlag, {})
  /\ irqPc' = "signal"
  /\ UNCHANGED <<fIrqEnabled, threadVars, initMutex, devVars, events,
                 timerVars, snapshot, changed, unequal, fwVars, irqPending>>

(* Mutant: the acknowledge of a command the DSR has followed up with a new *)
(* one is not signalled.                                                   *)
DsrEventsUnequal == IF Unequal(usHostFlags, usNetxFlags, "hostCos")
                      THEN changed ELSE changed \ {"hostCos"}

DsrEvents == changed

DsrSignal ==
  /\ irqPc = "signal"
  /\ events' = events \cup DsrEvents
  /\ changed' = {} /\ unequal' = {}
  /\ irqPc' = "idle"
  /\ UNCHANGED <<fIrqEnabled, threadVars, initMutex, cosVars, devVars,
                 flagVars, timerVars, snapshot, fwVars, irqPending, histVars>>

-----------------------------------------------------------------------------
(* The firmware (external).  It reads ulApplicationCOS when it finds the   *)
(* host's command bit toggled, and reports changes of its own state and of *)
(* the COMMUNICATING flag when it likes.                                   *)

DeviceAck ==
  /\ Unequal(cellHost, cellNetx, "hostCos")
  /\ cellNetx' = Toggle(cellNetx, "hostCos")
  /\ irqPending' = fIrqEnabled
  /\ acked' = [t \in Thread |-> acked[t] \/ writer = t]
  /\ UNCHANGED <<fIrqEnabled, threadVars, initMutex, cosVars, devVars,
                 flagVars, events, timerVars, irqVars, commCOS, changes,
                 writer, clash, armed, resent>>

DeviceCos(s) ==
  /\ changes < MaxChange /\ s # commCOS
  /\ ~Unequal(cellHost, cellNetx, "netxCos")
  /\ changes' = changes + 1
  /\ commCOS' = s
  /\ cellNetx' = Toggle(cellNetx, "netxCos")
  /\ irqPending' = fIrqEnabled
  /\ UNCHANGED <<fIrqEnabled, threadVars, initMutex, cosVars, devVars,
                 flagVars, events, timerVars, irqVars, histVars>>

DeviceCom ==
  /\ changes < MaxChange
  /\ changes' = changes + 1
  /\ cellNetx' = Toggle(cellNetx, "com")
  /\ irqPending' = fIrqEnabled
  /\ UNCHANGED <<fIrqEnabled, threadVars, initMutex, cosVars, devVars,
                 flagVars, events, timerVars, irqVars, commCOS, histVars>>

-----------------------------------------------------------------------------
ThreadStep(t) ==
  \/ ReadHandshakeFlags(t) \/ SetHostState(t) \/ BusStateOn(t) \/ BusStateOff(t)
  \/ ConfigLock(t) \/ ChannelInit(t) \/ WaitInitMutex(t) \/ WaitOk(t)
  \/ WaitRetry(t) \/ WaitEvent(t) \/ HostCosChange(t) \/ HostCosRemember(t)
  \/ ReadHostFlagsLoad(t) \/ ReadHostFlagsStore(t) \/ ReleaseInitMutex(t)

ThreadTimeout(t) == WaitTimeout(t) \/ WaitEventTimeout(t) \/ WaitInitMutexTimeout(t)

TimerStep == \/ TimerStart \/ TimerCompare \/ TimerReadBit \/ TimerEvalBit
             \/ TimerWrite \/ TimerRefresh \/ TimerFinish

IrqStep == \/ IsrConfirm \/ IsrRead \/ DsrUpdate \/ DsrCosAck \/ DsrCheck
           \/ DsrWrite \/ DsrSignal

Next ==
  \/ \E t \in Thread, o \in Op, w \in BOOLEAN : Call(t, o, w)
  \/ \E t \in Thread : ThreadStep(t) \/ ThreadTimeout(t)
  \/ TimerStep \/ IrqStep
  \/ DeviceAck \/ DeviceCom \/ \E s \in CommState : DeviceCos(s)

Spec == Init /\ [][Next]_vars

(* Threads run unless blocked, the polling thread keeps its interval, the  *)
(* interrupt thread is woken, and the firmware answers COS commands.  A    *)
(* timeout of 0 is over at once, and the waits for RUN, READY and          *)
(* COMMUNICATING end by their (finite) timeouts if nothing else ends them; *)
(* the wait for the COS handshake gets no such help.                       *)
Fairness ==
  /\ \A t \in Thread :
       /\ WF_vars(ThreadStep(t) \/ (~CosWait(t) /\ WaitTimeout(t)))
       /\ WF_vars(stage[t] \notin {"access", "ack"} /\ WaitEventTimeout(t))
       /\ SF_vars(stage[t] \notin {"access", "ack"} /\ WaitTimeout(t))
  /\ WF_vars(TimerStep)
  /\ WF_vars(IrqStep)
  /\ WF_vars(DeviceAck)

FairSpec == Spec /\ Fairness

-----------------------------------------------------------------------------
(* Properties. *)

Label == {"idle", "read", "eval", "wait", "mutex", "change", "remember",
          "load", "store", "release"}
Stage == {"pre", "access", "ack", "com", "notRunning", "notReady", "ready"}
CosResult == {"none", "CIFX_NO_ERROR", "CIFX_DEV_FUNCTION_FAILED",
              "CIFX_DEV_xxx_TIMEOUT"}
Result == CosResult \cup
  {"CIFX_DEV_NOT_READY", "CIFX_DEV_NOT_RUNNING", "CIFX_DEV_NO_COM_FLAG",
   "CIFX_DRV_CMD_ACTIVE", "CIFX_DEV_BUS_STATE_OFF_TIMEOUT",
   "CIFX_DEV_RESET_TIMEOUT"}

(* Every variable keeps its type. *)
TypeOK ==
  /\ fIrqEnabled \in BOOLEAN
  /\ pc \in [Thread -> Label] /\ stage \in [Thread -> Stage]
  /\ op \in [Thread -> Op \cup {"none"}]
  /\ wait \in [Thread -> BOOLEAN] /\ was \in [Thread -> BOOLEAN]
  /\ tmp \in [Thread -> SUBSET Bit]
  /\ cosRet \in [Thread -> CosResult] /\ ret \in [Thread -> Result]
  /\ calls \in 0 .. MaxCalls /\ changes \in 0 .. MaxChange
  /\ initMutex \in Thread \cup {NoThread, "timer"}
  /\ ulHostCOSFlags \subseteq AppFlag /\ ulHostCOSFlagsSaved \subseteq AppFlag
  /\ appCOS \subseteq AppFlag
  /\ commCOS \subseteq CommFlag /\ ulDeviceCOSFlags \subseteq CommFlag
  /\ ulDeviceCOSFlagsChanged \subseteq CommFlag
  /\ usHostFlags \subseteq Bit /\ usNetxFlags \subseteq Bit
  /\ cellHost \subseteq Bit /\ cellNetx \subseteq Bit
  /\ events \subseteq Bit /\ snapshot \subseteq Bit
  /\ changed \subseteq Bit /\ unequal \subseteq Bit
  /\ timerPc \in {"idle", "compare", "bit", "bitEval", "write", "refresh", "clear"}
  /\ ulCOSChanged \subseteq CommFlag
  /\ irqPc \in {"idle", "read", "dsr", "cos", "check", "write", "signal"}
  /\ irqPending \in BOOLEAN /\ clash \in BOOLEAN
  /\ writer \in Party
  /\ acked \in [Thread -> BOOLEAN]
  /\ armed \subseteq EnableFlag /\ resent \subseteq EnableFlag

(* DEV_DoHostCOSChange waited and returned CIFX_NO_ERROR: the firmware has *)
(* read the flags the call wrote.                                          *)
Acknowledged(t) ==
  cosRet[t] = "CIFX_NO_ERROR" /\ CosWait(t) => acked[t]

(* "wait for access to ulApplicationCOS ..., toggle bits and wait for      *)
(* firmware to acknowledge COS": success means acknowledged.               *)
CosAcknowledged == \A t \in Thread : Acknowledged(t)

(* As long as no party has acted on an outdated test of the command bit    *)
(* (and DEV_ReadHostFlags has not overwritten a newer value of the host    *)
(* bits), success means acknowledged, although the netX bits are           *)
(* cached and the acknowledge interrupt races with timeouts.               *)
UndisturbedAcknowledged == ~clash => CosAcknowledged

(* The inductive invariant behind it.  Each machinery runs in its own mode *)
(* only; undisturbed, the host bits are what the cell shows and a stale    *)
(* copy of the netX bits never shows "equal" too early; and a thread that  *)
(* waits for its acknowledge has either got it or is the last writer of a  *)
(* command still pending.                                                  *)
ModeInv ==
  /\ \A t \in Thread : pc[t] = "read" => ~fIrqEnabled
  /\ timerPc # "idle" => ~fIrqEnabled
  /\ irqPc # "idle" \/ irqPending => fIrqEnabled

FlagInv ==
  LET equal(f) == ~Unequal(usHostFlags, f, "hostCos")
  IN ~clash =>
       /\ usHostFlags = cellHost
       /\ equal(usNetxFlags) => equal(cellNetx)
       /\ fIrqEnabled => (equal(usNetxFlags) => equal(snapshot))
       /\ irqPc = "dsr" => (equal(snapshot) => equal(cellNetx))

AckInv ==
  ~clash => \A t \in Thread :
    stage[t] = "ack" /\ pc[t] \in {"read", "eval", "wait"} =>
      acked[t] \/ (writer = t /\ Unequal(cellHost, cellNetx, "hostCos"))

ResultInv ==
  \A t \in Thread :
    /\ \/ pc[t] \in {"mutex", "change", "remember"}
       \/ pc[t] \in {"read", "eval", "wait"} /\ stage[t] \in {"pre", "access", "ack"}
       => cosRet[t] = "none"
    /\ pc[t] = "remember" => ~CosWait(t)

CosInv == TypeOK /\ ModeInv /\ FlagInv /\ AckInv /\ ResultInv
          /\ UndisturbedAcknowledged

(* With one application thread and no interrupts pvInitMutex keeps the     *)
(* polling thread out: a successful COS handshake of a channel             *)
(* initialisation was acknowledged, whatever happened before.              *)
InitAcknowledged ==
  ~fIrqEnabled => \A t \in Thread : op[t] = "init" => Acknowledged(t)

(* One xChannelReset signals INITIALIZATION_ENABLE once: no later COS      *)
(* command of any party makes the firmware initialise the channel again.   *)
InitNotRepeated == "INITIALIZATION_ENABLE" \notin resent

(* ... because outside the critical section the local flags never hold it. *)
OnceInv == InitNotRepeated /\ "INITIALIZATION_ENABLE" \notin ulHostCOSFlags

(* "remember his flags, and update them with next COS handshake.           *)
(* PostClearMask will be cleared by DSR or DEV_CheckCOSFlags()": an ENABLE *)
(* flag is signalled once per request.                                     *)
EnableSignalledOnce == resent = {}

(* A thread that waits in DEV_DoHostCOSChange for the command bit comes to *)
(* its end without help of its timeout, unless a party has acted on an     *)
(* outdated test: then the acknowledge bit may be toggled twice between    *)
(* two interrupts, which the DSR takes for no change and does not signal.  *)
Waiting(t) == stage[t] \in {"access", "ack"} /\ pc[t] \in {"read", "eval", "wait"}
CosWaitEnds == \A t \in Thread : Waiting(t) ~> (~Waiting(t) \/ clash)

(* The host and the firmware stop exchanging COS commands once the         *)
(* application has stopped: no party keeps rewriting unchanged flags.      *)
CosSettles == <>[](~Unequal(cellHost, cellNetx, "hostCos"))

(* Without interrupts every flag the application has set or cleared gets   *)
(* to ulApplicationCOS, also after xChannelHostState with timeout 0.       *)
CosPropagated == ~fIrqEnabled => <>[](appCOS = ulHostCOSFlags)
=============================================================================

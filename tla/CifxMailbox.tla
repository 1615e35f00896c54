---------------------------- MODULE CifxMailbox ----------------------------
(***************************************************************************)
(* The packet interface of one communication channel: application threads  *)
(* calling xChannelPutPacket, xChannelGetPacket and xChannelGetMBXState,   *)
(* the handshake cell they share with the netX device, and the interrupt   *)
(* thread (ISR and DSR) that keeps the cached device flags up to date.     *)
(*                                                                         *)
(* Every mailbox has one command and one acknowledge bit.  The mailbox     *)
(* changes hands each time one side toggles its bit; a pair of equal bits  *)
(* means "empty", a pair of unequal bits "full".  Flags are modelled as    *)
(* the set of bits that are 1.  A third pair carries the device's          *)
(* change-of-state (COS) command, through which a channel becomes READY.   *)
(*                                                                         *)
(* The host never looks at the device's half of the cell when it runs      *)
(* with interrupts: it trusts usNetxFlags, a copy the DSR refreshes from a *)
(* snapshot the ISR took.  That this stale copy is always safe to act on   *)
(* is the heart of the module.                                             *)
(***************************************************************************)
EXTENDS Naturals, Sequences

CONSTANTS
  Thread,      \* application threads
  NoThread,    \* owner of a free mutex or lock
  Size,        \* packet lengths tried: "fits" and, optionally, "long"
  MaxCalls,    \* bound: API calls of all threads
  MaxPosts,    \* bound: packets the device sends
  MaxCos       \* bound: COS commands the device issues

ASSUME ThreadAssumption == NoThread \notin Thread

ASSUME BoundAssumption ==
  /\ "fits" \in Size /\ Size \subseteq {"fits", "long"}
  /\ MaxCalls \in Nat
  /\ MaxPosts \in Nat
  /\ MaxCos \in Nat

Bit == {"send", "recv", "cos"}

(* A packet is its number: the n-th call made, the n-th packet the device   *)
(* sends.  0 is the content of a mailbox nobody has written yet.           *)
Packet == 0 .. (MaxCalls + MaxPosts)

VARIABLES
  fIrqEnabled,                  \* DEVICEINSTANCE: interrupt or polling mode
  pc, op, pkt, size, tmp, ret,  \* per thread: control, call, packet, whether
                                \* it fits, register of ^=, result of the call
  calls,                        \* calls made so far
  sendMutex, recvMutex, pvLock, \* owners of the two mailbox mutexes and of
                                \* the flag access lock
  usHostFlags, usNetxFlags,     \* CHANNELINSTANCE: own flags, cached netX flags
  ulDeviceCOSFlags,             \* CHANNELINSTANCE: cached READY state
  ulSendPacketCnt,              \* CHANNELINSTANCE: diagnostic counters
  ulRecvPacketCnt,
  events,                       \* ahHandshakeBitEvents that are set
  irqPc, snapshot, changed,     \* interrupt thread: control, ISR-to-DSR
                                \* buffer, usChangedBits
  cellHost, cellNetx,           \* DPM: handshake cell, both halves
  sendMbx, recvMbx,             \* DPM: contents of the mailboxes
  commCOS,                      \* DPM: ulCommunicationCOS (READY or not)
  cosCount,                     \* DPM: COS commands issued so far
  irqPending,                   \* device interrupt request line
  accepted, taken,              \* history: packets handed to, read by device
  posted, received              \* history: packets of, read from the device

threadVars == <<pc, op, pkt, size, tmp, ret, calls>>
lockVars   == <<sendMutex, recvMutex, pvLock>>
flagVars   == <<usHostFlags, usNetxFlags, ulDeviceCOSFlags>>
cntVars    == <<ulSendPacketCnt, ulRecvPacketCnt>>
irqVars    == <<irqPc, snapshot, changed>>
cellVars   == <<cellHost, cellNetx>>
dpmVars    == <<sendMbx, recvMbx, commCOS, cosCount>>
histVars   == <<accepted, taken, posted, received>>
vars == <<fIrqEnabled, threadVars, lockVars, flagVars, cntVars, events,
          irqVars, cellVars, dpmVars, irqPending, histVars>>

-----------------------------------------------------------------------------
(* Handshake bits. *)

Toggle(flags, b) == IF b \in flags THEN flags \ {b} ELSE flags \cup {b}

Unequal(f, g, b) == (b \in f) # (b \in g)

(* Mutant: the 8 bit handshake cell is read 16 bits wide. *)
NetxFlagsWide == cellNetx \cup {"reserved"}

(* HWIF_READ of the device's half of the handshake cell. *)
NetxFlags == cellNetx

(* Mutant: the flags are acknowledged without being read. *)
NewCOSFlagsUnread == ulDeviceCOSFlags

(* HWIF_READ of ulCommunicationCOS. *)
NewCOSFlags == commCOS

(* Mutant: a mutex that does not exclude. *)
MutexIgnored(m) == TRUE

MutexFree(m) == m = NoThread

(* Mutant: the flag access lock is missing. *)
LockIgnored == TRUE

LockFree == pvLock = NoThread

(* The bit of the mailbox a call uses, and its desired state: a send       *)
(* mailbox must be empty, a receive mailbox full.                          *)
MbxBit(t) == IF op[t] = "put" THEN "send" ELSE "recv"

BitStateReached(t) ==
  IF op[t] = "put" THEN ~Unequal(usHostFlags, usNetxFlags, "send")
                   ELSE Unequal(usHostFlags, usNetxFlags, "recv")

Goto(t, l) == pc' = [pc EXCEPT ![t] = l]

(* DEV_IsReady and DEV_WaitForBitState start by reading the handshake      *)
(* flags in polling mode; with interrupts "handshake flags are read on     *)
(* interrupt, so no need to read them here".                               *)
ReadyLabel == IF fIrqEnabled THEN "readyEval" ELSE "ready"
BitLabel == IF fIrqEnabled THEN "bitEval" ELSE "bit"

(* Mutant: the polling loop tests the cached flags without reading them.   *)
RetryLabelCached == IF fIrqEnabled THEN "wait" ELSE "bitEval"

(* A bit that is not yet in the desired state is waited for or polled.     *)
RetryLabel == IF fIrqEnabled THEN "wait" ELSE "bit"

(* Mutant: the event is taken for the bit ("so we don't need to check bit  *)
(* state afterwards"), although it may be left over from an earlier wait.  *)
WakeLabelUnchecked == "copy"

(* After OS_WaitEvent the bit is looked at again. *)
WakeLabel == "bitEval"

(* Mutant: lRet starts as CIFX_NO_ERROR and no path sets an error.         *)
TimeoutResultNoError(t) == "CIFX_NO_ERROR"

TimeoutResult(t) == IF op[t] = "put" THEN "CIFX_DEV_MAILBOX_FULL"
                                     ELSE "CIFX_DEV_GET_NO_PACKET"

-----------------------------------------------------------------------------
Init ==
  /\ fIrqEnabled \in BOOLEAN
  /\ pc = [t \in Thread |-> "idle"]
  /\ op = [t \in Thread |-> "none"]
  /\ pkt = [t \in Thread |-> 0]
  /\ size = [t \in Thread |-> "fits"]
  /\ tmp = [t \in Thread |-> {}]
  /\ ret = [t \in Thread |-> "none"]
  /\ calls = 0
  /\ sendMutex = NoThread /\ recvMutex = NoThread /\ pvLock = NoThread
  /\ usHostFlags = {} /\ usNetxFlags = {}
  /\ commCOS \in {"READY", "NOT_READY"}
  /\ ulDeviceCOSFlags = commCOS
  /\ ulSendPacketCnt = 0 /\ ulRecvPacketCnt = 0
  /\ events = {}
  /\ irqPc = "idle" /\ snapshot = {} /\ changed = {}
  /\ cellHost = {} /\ cellNetx = {}
  /\ sendMbx = 0 /\ recvMbx = 0
  /\ cosCount = 0
  /\ irqPending = FALSE
  /\ accepted = <<>> /\ taken = <<>> /\ posted = <<>> /\ received = <<>>

-----------------------------------------------------------------------------
(* An application thread enters one of the three calls.  size tells        *)
(* whether the packet fits the mailbox (put) or the caller's buffer (get). *)

Call(t, o, s) ==
  /\ pc[t] = "idle" /\ calls < MaxCalls
  /\ calls' = calls + 1
  /\ op' = [op EXCEPT ![t] = o]
  /\ pkt' = [pkt EXCEPT ![t] = IF o = "put" THEN calls + 1 ELSE 0]
  /\ size' = [size EXCEPT ![t] = s]
  /\ Goto(t, IF o = "state" THEN ReadyLabel ELSE "mutex")
  /\ UNCHANGED <<fIrqEnabled, tmp, ret, lockVars, flagVars, cntVars, events,
                 irqVars, cellVars, dpmVars, irqPending, histVars>>

(* OS_WaitMutex(pvSendMBXMutex / pvRecvMBXMutex) succeeds ... *)
WaitMutex(t) ==
  /\ pc[t] = "mutex"
  /\ \/ /\ op[t] = "put" /\ MutexFree(sendMutex)
        /\ sendMutex' = t /\ UNCHANGED recvMutex
     \/ /\ op[t] = "get" /\ MutexFree(recvMutex)
        /\ recvMutex' = t /\ UNCHANGED sendMutex
  /\ Goto(t, ReadyLabel)
  /\ UNCHANGED <<fIrqEnabled, op, pkt, size, tmp, ret, calls, pvLock,
                 flagVars, cntVars, events, irqVars, cellVars, dpmVars,
                 irqPending, histVars>>

(* ... or runs into the caller's timeout. *)
WaitMutexTimeout(t) ==
  /\ pc[t] = "mutex"
  /\ ~MutexFree(IF op[t] = "put" THEN sendMutex ELSE recvMutex)
  /\ ret' = [ret EXCEPT ![t] = "CIFX_DRV_CMD_ACTIVE"]
  /\ Goto(t, "idle")
  /\ UNCHANGED <<fIrqEnabled, op, pkt, size, tmp, calls, lockVars, flagVars,
                 cntVars, events, irqVars, cellVars, dpmVars, irqPending,
                 histVars>>

-----------------------------------------------------------------------------
(* DEV_ReadHandshakeFlags(ptChannel, 0, 1), polling mode only: refresh the *)
(* cached netX flags and, if the device issued a COS command, take over    *)
(* its COS flags and acknowledge, all under the flag access lock.  It runs *)
(* for DEV_IsReady ("ready") and for every poll of the mailbox bit ("bit").*)

AfterRead(l) == IF l \in {"ready", "readyAck"} THEN "readyEval" ELSE "bitEval"

ReadHandshakeFlags(t) ==
  /\ ~fIrqEnabled
  /\ pc[t] \in {"ready", "bit"}
  /\ LockFree
  /\ usNetxFlags' = NetxFlags
  /\ IF Unequal(usHostFlags, NetxFlags, "cos")
       THEN /\ pvLock' = t
            /\ Goto(t, IF pc[t] = "ready" THEN "readyAck" ELSE "bitAck")
       ELSE UNCHANGED pvLock /\ Goto(t, AfterRead(pc[t]))
  /\ UNCHANGED <<fIrqEnabled, op, pkt, size, tmp, ret, calls, sendMutex,
                 recvMutex, usHostFlags, ulDeviceCOSFlags, cntVars, events,
                 irqVars, cellVars, dpmVars, irqPending, histVars>>

ReadHandshakeFlagsAck(t) ==
  /\ pc[t] \in {"readyAck", "bitAck"}
  /\ ulDeviceCOSFlags' = NewCOSFlags
  /\ usHostFlags' = Toggle(usHostFlags, "cos")
  /\ cellHost' = Toggle(usHostFlags, "cos")
  /\ pvLock' = NoThread
  /\ Goto(t, AfterRead(pc[t]))
  /\ UNCHANGED <<fIrqEnabled, op, pkt, size, tmp, ret, calls, sendMutex,
                 recvMutex, usNetxFlags, cntVars, events, irqVars, cellNetx,
                 dpmVars, irqPending, histVars>>

(* Leave the call with result r; a call that owns no mutex returns at once.*)
Return(t, r) ==
  /\ ret' = [ret EXCEPT ![t] = r]
  /\ Goto(t, IF op[t] = "state" THEN "idle" ELSE "release")

(* DEV_IsReady, and the length check of DEV_PutPacket. *)
IsReady(t) ==
  /\ pc[t] = "readyEval"
  /\ \/ /\ ulDeviceCOSFlags # "READY"
        /\ Return(t, "CIFX_DEV_NOT_READY")
     \/ /\ ulDeviceCOSFlags = "READY"
        /\ op[t] = "put" /\ size[t] = "long"
        /\ Return(t, "CIFX_DEV_MAILBOX_TOO_SHORT")
     \/ /\ ulDeviceCOSFlags = "READY"
        /\ op[t] = "state"
        /\ Return(t, "CIFX_NO_ERROR")
     \/ /\ ulDeviceCOSFlags = "READY"
        /\ op[t] = "get" \/ (op[t] = "put" /\ size[t] = "fits")
        /\ Goto(t, BitLabel) /\ UNCHANGED ret
  /\ UNCHANGED <<fIrqEnabled, op, pkt, size, tmp, calls, lockVars, flagVars,
                 cntVars, events, irqVars, cellVars, dpmVars, irqPending,
                 histVars>>

-----------------------------------------------------------------------------
(* DEV_WaitForBitState: the mailbox is ours ... *)
BitStateOk(t) ==
  /\ pc[t] = "bitEval"
  /\ BitStateReached(t)
  /\ Goto(t, "copy")
  /\ UNCHANGED <<fIrqEnabled, op, pkt, size, tmp, ret, calls, lockVars,
                 flagVars, cntVars, events, irqVars, cellVars, dpmVars,
                 irqPending, histVars>>

(* ... or not yet: poll again, or wait for the DSR's event ... *)
BitStateRetry(t) ==
  /\ pc[t] = "bitEval"
  /\ ~BitStateReached(t)
  /\ Goto(t, RetryLabel)
  /\ UNCHANGED <<fIrqEnabled, op, pkt, size, tmp, ret, calls, lockVars,
                 flagVars, cntVars, events, irqVars, cellVars, dpmVars,
                 irqPending, histVars>>

(* ... unless the caller's timeout (0 included) has run out. *)
BitStateTimeout(t) ==
  /\ pc[t] = "bitEval"
  /\ ~BitStateReached(t)
  /\ Return(t, TimeoutResult(t))
  /\ UNCHANGED <<fIrqEnabled, op, pkt, size, tmp, calls, lockVars, flagVars,
                 cntVars, events, irqVars, cellVars, dpmVars, irqPending,
                 histVars>>

(* OS_WaitEvent: the event is consumed by the one thread that waits.       *)
WaitEvent(t) ==
  /\ pc[t] = "wait"
  /\ MbxBit(t) \in events
  /\ events' = events \ {MbxBit(t)}
  /\ Goto(t, WakeLabel)
  /\ UNCHANGED <<fIrqEnabled, op, pkt, size, tmp, ret, calls, lockVars,
                 flagVars, cntVars, irqVars, cellVars, dpmVars, irqPending,
                 histVars>>

(* OS_WaitEvent returns without the event: timeout or spurious wakeup; the *)
(* bit is looked at once more in either case.                              *)
WaitEventTimeout(t) ==
  /\ pc[t] = "wait"
  /\ MbxBit(t) \notin events
  /\ Goto(t, WakeLabel)
  /\ UNCHANGED <<fIrqEnabled, op, pkt, size, tmp, ret, calls, lockVars,
                 flagVars, cntVars, events, irqVars, cellVars, dpmVars,
                 irqPending, histVars>>

-----------------------------------------------------------------------------
(* Packet copy into or out of the mailbox memory.  A packet longer than    *)
(* the caller's buffer is cut, reported, and gone from the mailbox.        *)
CopyPacket(t) ==
  /\ pc[t] = "copy"
  /\ \/ /\ op[t] = "put"
        /\ ulSendPacketCnt' = ulSendPacketCnt + 1
        /\ sendMbx' = pkt[t]
        /\ ret' = [ret EXCEPT ![t] = "CIFX_NO_ERROR"]
        /\ UNCHANGED <<pkt, ulRecvPacketCnt>>
     \/ /\ op[t] = "get"
        /\ ulRecvPacketCnt' = ulRecvPacketCnt + 1
        /\ pkt' = [pkt EXCEPT ![t] = recvMbx]
        /\ ret' = [ret EXCEPT ![t] = IF size[t] = "fits"
                                       THEN "CIFX_NO_ERROR"
                                       ELSE "CIFX_BUFFER_TOO_SHORT"]
        /\ UNCHANGED <<sendMbx, ulSendPacketCnt>>
  /\ Goto(t, "load")
  /\ UNCHANGED <<fIrqEnabled, op, size, tmp, calls, lockVars, flagVars,
                 events, irqVars, cellVars, recvMbx, commCOS, cosCount,
                 irqPending, histVars>>

(* DEV_ToggleBit inside OS_EnterLock .. OS_LeaveLock: usHostFlags ^= mask  *)
(* is a load and a store, the store is followed by the write of the cell.  *)
(* (The register is cleared afterwards: it is dead.)                       *)
ToggleLoad(t) ==
  /\ pc[t] = "load"
  /\ LockFree
  /\ pvLock' = t
  /\ tmp' = [tmp EXCEPT ![t] = usHostFlags]
  /\ Goto(t, "store")
  /\ UNCHANGED <<fIrqEnabled, op, pkt, size, ret, calls, sendMutex, recvMutex,
                 flagVars, cntVars, events, irqVars, cellVars, dpmVars,
                 irqPending, histVars>>

ToggleStore(t) ==
  /\ pc[t] = "store"
  /\ usHostFlags' = Toggle(tmp[t], MbxBit(t))
  /\ cellHost' = Toggle(tmp[t], MbxBit(t))
  /\ pvLock' = NoThread
  /\ IF op[t] = "put"
       THEN accepted' = Append(accepted, pkt[t]) /\ UNCHANGED received
       ELSE received' = Append(received, pkt[t]) /\ UNCHANGED accepted
  /\ tmp' = [tmp EXCEPT ![t] = {}]
  /\ Goto(t, "release")
  /\ UNCHANGED <<fIrqEnabled, op, pkt, size, ret, calls, sendMutex, recvMutex,
                 usNetxFlags, ulDeviceCOSFlags, cntVars, events, irqVars,
                 cellNetx, dpmVars, irqPending, taken, posted>>

(* OS_ReleaseMutex, on every path that acquired it. *)
ReleaseMutex(t) ==
  /\ pc[t] = "release"
  /\ IF op[t] = "put" THEN sendMutex' = NoThread /\ UNCHANGED recvMutex
                      ELSE recvMutex' = NoThread /\ UNCHANGED sendMutex
  /\ Goto(t, "idle")
  /\ UNCHANGED <<fIrqEnabled, op, pkt, size, tmp, ret, calls, pvLock,
                 flagVars, cntVars, events, irqVars, cellVars, dpmVars,
                 irqPending, histVars>>

-----------------------------------------------------------------------------
(* netx_irq_thread: cifXTKitISRHandler, then cifXTKitDSRHandler.           *)

(* The ISR confirms the interrupt before it reads the flags ... *)
IsrConfirm ==
  /\ irqPc = "idle" /\ irqPending
  /\ irqPending' = FALSE
  /\ irqPc' = "read"
  /\ UNCHANGED <<fIrqEnabled, threadVars, lockVars, flagVars, cntVars, events,
                 snapshot, changed, cellVars, dpmVars, histVars>>

(* ... so that a bit toggled after this read raises a new one. *)
IsrRead ==
  /\ irqPc = "read"
  /\ snapshot' = NetxFlags
  /\ irqPc' = "dsr"
  /\ UNCHANGED <<fIrqEnabled, threadVars, lockVars, flagVars, cntVars, events,
                 changed, cellVars, dpmVars, irqPending, histVars>>

(* Mutant: the interrupt is confirmed after the flags were read.           *)
DsrUpdateLateConfirm ==
  /\ irqPc = "dsr"
  /\ irqPending' = FALSE
  /\ usNetxFlags' = snapshot
  /\ changed' = {b \in Bit : Unequal(usNetxFlags, snapshot, b)}
  /\ irqPc' = IF Unequal(snapshot, usHostFlags, "cos") THEN "cos" ELSE "events"
  /\ UNCHANGED <<fIrqEnabled, threadVars, lockVars, usHostFlags,
                 ulDeviceCOSFlags, cntVars, events, snapshot, cellVars,
                 dpmVars, histVars>>

(* The DSR takes over the snapshot; it holds no lock here. *)
DsrUpdate ==
  /\ irqPc = "dsr"
  /\ usNetxFlags' = snapshot
  /\ changed' = {b \in Bit : Unequal(usNetxFlags, snapshot, b)}
  /\ irqPc' = IF Unequal(snapshot, usHostFlags, "cos") THEN "cos" ELSE "events"
  /\ UNCHANGED <<fIrqEnabled, threadVars, lockVars, usHostFlags,
                 ulDeviceCOSFlags, cntVars, events, snapshot, cellVars,
                 dpmVars, irqPending, histVars>>

(* Device COS command: read the COS flags and acknowledge, under the lock. *)
DsrCosAck ==
  /\ irqPc = "cos"
  /\ LockFree
  /\ ulDeviceCOSFlags' = NewCOSFlags
  /\ usHostFlags' = Toggle(usHostFlags, "cos")
  /\ cellHost' = Toggle(usHostFlags, "cos")
  /\ irqPc' = "events"
  /\ UNCHANGED <<fIrqEnabled, threadVars, lockVars, usNetxFlags, cntVars,
                 events, snapshot, changed, cellNetx, dpmVars, irqPending,
                 histVars>>

(* Mutant: the receive event is left to the notification callback. *)
SignalledBitsNoRecv == changed \ {"recv"}

SignalledBits == changed

(* OS_SetEvent for every bit that changed; then the interrupt is unmasked. *)
DsrSignal ==
  /\ irqPc = "events"
  /\ events' = events \cup SignalledBits
  /\ changed' = {}
  /\ irqPc' = "idle"
  /\ UNCHANGED <<fIrqEnabled, threadVars, lockVars, flagVars, cntVars,
                 snapshot, cellVars, dpmVars, irqPending, histVars>>

-----------------------------------------------------------------------------
(* The netX device (external): it follows the same toggle protocol from    *)
(* the other side and raises an interrupt whenever it toggles a bit.       *)

DeviceTake ==
  /\ Unequal(cellHost, cellNetx, "send")
  /\ taken' = Append(taken, sendMbx)
  /\ cellNetx' = Toggle(cellNetx, "send")
  /\ irqPending' = fIrqEnabled
  /\ UNCHANGED <<fIrqEnabled, threadVars, lockVars, flagVars, cntVars, events,
                 irqVars, cellHost, dpmVars, accepted, posted, received>>

DevicePost ==
  /\ ~Unequal(cellHost, cellNetx, "recv")
  /\ Len(posted) < MaxPosts
  /\ recvMbx' = Len(posted) + 1
  /\ posted' = Append(posted, Len(posted) + 1)
  /\ cellNetx' = Toggle(cellNetx, "recv")
  /\ irqPending' = fIrqEnabled
  /\ UNCHANGED <<fIrqEnabled, threadVars, lockVars, flagVars, cntVars, events,
                 irqVars, cellHost, sendMbx, commCOS, cosCount, accepted,
                 taken, received>>

DeviceCos ==
  /\ ~Unequal(cellHost, cellNetx, "cos")
  /\ cosCount < MaxCos
  /\ cosCount' = cosCount + 1
  /\ commCOS' = IF commCOS = "READY" THEN "NOT_READY" ELSE "READY"
  /\ cellNetx' = Toggle(cellNetx, "cos")
  /\ irqPending' = fIrqEnabled
  /\ UNCHANGED <<fIrqEnabled, threadVars, lockVars, flagVars, cntVars, events,
                 irqVars, cellHost, sendMbx, recvMbx, histVars>>

-----------------------------------------------------------------------------
(* Steps a thread takes unless it is blocked; timeouts are kept apart.     *)
ThreadStep(t) ==
  \/ WaitMutex(t) \/ ReadHandshakeFlags(t) \/ ReadHandshakeFlagsAck(t)
  \/ IsReady(t) \/ BitStateOk(t) \/ BitStateRetry(t)
  \/ WaitEvent(t) \/ CopyPacket(t) \/ ToggleLoad(t) \/ ToggleStore(t)
  \/ ReleaseMutex(t)

ThreadTimeout(t) ==
  WaitMutexTimeout(t) \/ BitStateTimeout(t) \/ WaitEventTimeout(t)

IrqStep == IsrConfirm \/ IsrRead \/ DsrUpdate \/ DsrCosAck \/ DsrSignal

Next ==
  \/ \E t \in Thread, s \in Size : Call(t, "put", s) \/ Call(t, "get", s)
  \/ \E t \in Thread : Call(t, "state", "fits")
  \/ \E t \in Thread : ThreadStep(t) \/ ThreadTimeout(t)
  \/ IrqStep
  \/ DeviceTake \/ DevicePost \/ DeviceCos

Spec == Init /\ [][Next]_vars

(* Threads that are not blocked are scheduled, the interrupt thread runs   *)
(* when the line is raised, and the firmware empties the send mailbox.     *)
(* Nothing is assumed of calls, timeouts or what else the device does.     *)
Fairness ==
  /\ \A t \in Thread : WF_vars(ThreadStep(t))
  /\ WF_vars(IrqStep)
  /\ WF_vars(DeviceTake)

FairSpec == Spec /\ Fairness

-----------------------------------------------------------------------------
(* The inductive part of the argument, in named pieces. *)

Label == {"idle", "mutex", "ready", "readyAck", "readyEval", "bit", "bitAck",
          "bitEval", "wait", "copy", "load", "store", "release"}

Result == {"none", "CIFX_NO_ERROR", "CIFX_DRV_CMD_ACTIVE",
           "CIFX_DEV_NOT_READY", "CIFX_DEV_MAILBOX_TOO_SHORT",
           "CIFX_DEV_MAILBOX_FULL", "CIFX_DEV_GET_NO_PACKET",
           "CIFX_BUFFER_TOO_SHORT"}

(* Every variable keeps the type the code's declarations give it. *)
TypeOK ==
  /\ fIrqEnabled \in BOOLEAN
  /\ pc \in [Thread -> Label]
  /\ op \in [Thread -> {"none", "put", "get", "state"}]
  /\ pkt \in [Thread -> Packet]
  /\ size \in [Thread -> Size]
  /\ tmp \in [Thread -> SUBSET Bit]
  /\ ret \in [Thread -> Result]
  /\ calls \in 0 .. MaxCalls
  /\ sendMutex \in Thread \cup {NoThread}
  /\ recvMutex \in Thread \cup {NoThread}
  /\ pvLock \in Thread \cup {NoThread}
  /\ usHostFlags \in SUBSET Bit /\ usNetxFlags \in SUBSET Bit
  /\ commCOS \in {"READY", "NOT_READY"}
  /\ ulDeviceCOSFlags \in {"READY", "NOT_READY"}
  /\ ulSendPacketCnt \in Nat /\ ulRecvPacketCnt \in Nat
  /\ events \in SUBSET Bit
  /\ irqPc \in {"idle", "read", "dsr", "cos", "events"}
  /\ snapshot \in SUBSET Bit /\ changed \in SUBSET Bit
  /\ cellHost \in SUBSET Bit /\ cellNetx \in SUBSET Bit
  /\ sendMbx \in Packet /\ recvMbx \in Packet
  /\ cosCount \in Nat
  /\ irqPending \in BOOLEAN
  /\ accepted \in Seq(Packet) /\ taken \in Seq(Packet)
  /\ posted \in Seq(Packet) /\ received \in Seq(Packet)

(* Inside a call, between OS_WaitMutex and OS_ReleaseMutex; copying; and   *)
(* with the flag access lock held over more than one step.                 *)
Busy(t, o) == op[t] = o /\ pc[t] \notin {"idle", "mutex"}
Copying(t, o) == op[t] = o /\ pc[t] \in {"copy", "load", "store"}
Locking(t) == pc[t] \in {"readyAck", "bitAck", "store"}

(* The mailbox mutexes and the lock are held exactly where the code says.  *)
MutexInv ==
  \A t \in Thread :
    /\ Busy(t, "put") <=> sendMutex = t
    /\ Busy(t, "get") <=> recvMutex = t
    /\ pc[t] # "idle" => op[t] # "none"
    /\ pc[t] \in {"mutex", "bit", "bitAck", "bitEval", "wait", "copy", "load",
                  "store", "release"} => op[t] \in {"put", "get"}

LockInv ==
  /\ cellHost = usHostFlags
  /\ \A t \in Thread : Locking(t) <=> pvLock = t
  /\ \A t \in Thread : pc[t] = "store" => tmp[t] = usHostFlags

(* Only the mode's own machinery runs. *)
ModeInv ==
  /\ fIrqEnabled => \A t \in Thread :
                       pc[t] \notin {"ready", "readyAck", "bit", "bitAck"}
  /\ ~fIrqEnabled => irqPc = "idle" /\ irqPending = FALSE

(* A stale copy errs on the safe side.  The three copies of the device's   *)
(* send bit (cached, snapshot, cell) are ordered by age and agree as soon  *)
(* as the oldest shows "empty"; dually for the receive bit and "full".     *)
FlagInv ==
  LET equal(f) == ~Unequal(usHostFlags, f, "send")
      full(f) == Unequal(usHostFlags, f, "recv")
  IN /\ equal(usNetxFlags) => equal(cellNetx)
     /\ full(usNetxFlags) => full(cellNetx)
     /\ fIrqEnabled =>
          /\ equal(usNetxFlags) => equal(snapshot)
          /\ irqPc = "dsr" => (equal(snapshot) => equal(cellNetx))
          /\ full(usNetxFlags) => full(snapshot)
          /\ irqPc = "dsr" => (full(snapshot) => full(cellNetx))
     /\ \A t \in Thread : /\ Copying(t, "put") => equal(usNetxFlags)
                          /\ Copying(t, "get") => full(usNetxFlags)

(* A full mailbox holds the one packet that is under way. *)
PipeInv ==
  /\ accepted = IF Unequal(cellHost, cellNetx, "send")
                  THEN Append(taken, sendMbx) ELSE taken
  /\ posted = IF Unequal(cellHost, cellNetx, "recv")
                THEN Append(received, recvMbx) ELSE received
  /\ \A t \in Thread : pc[t] \in {"load", "store"} =>
       pkt[t] = IF op[t] = "put" THEN sendMbx ELSE recvMbx

(* Packet numbers are unique, and the result tells whether they were sent. *)
Sent(p) == \E i \in DOMAIN accepted : accepted[i] = p
ResultInv ==
  /\ \A p \in Packet : Sent(p) => p <= calls
  /\ \A t \in Thread : op[t] = "put" =>
       /\ pkt[t] <= calls
       /\ \A u \in Thread \ {t} : op[u] = "put" => pkt[u] # pkt[t]
       /\ pc[t] \in {"load", "store"} => ret[t] = "CIFX_NO_ERROR"
       /\ Sent(pkt[t]) <=> (pc[t] \in {"release", "idle"} /\ ret[t] = "CIFX_NO_ERROR")

(* Once the device's COS command is acknowledged (equal bits in the cell), *)
(* the cached ulDeviceCOSFlags that DEV_IsReady consults is the device's   *)
(* current state: no thread acknowledges a change it has not taken over.   *)
CosFresh ==
  ~Unequal(cellHost, cellNetx, "cos") => ulDeviceCOSFlags = commCOS

(* The inductive invariant: none of the properties below is inductive on   *)
(* its own, all of them follow from this conjunction.                      *)
MailboxInv == /\ TypeOK /\ MutexInv /\ LockInv /\ ModeInv /\ FlagInv
              /\ PipeInv /\ ResultInv /\ CosFresh

-----------------------------------------------------------------------------
(* Properties. *)

(* While a thread copies a packet between DEV_WaitForBitState and          *)
(* DEV_ToggleBit, the mailbox memory is its own: no second thread copies   *)
(* in the same direction and the device does not own the mailbox, although *)
(* the decision was taken on a possibly outdated copy of the device flags. *)
MailboxExclusive ==
  \A t \in Thread : pc[t] \in {"copy", "load", "store"} =>
    /\ op[t] = "put" => ~Unequal(cellHost, cellNetx, "send")
    /\ op[t] = "get" => Unequal(cellHost, cellNetx, "recv")
    /\ \A u \in Thread \ {t} : pc[u] \in {"copy", "load", "store"} => op[u] # op[t]

(* xChannelPutPacket returns CIFX_NO_ERROR exactly for the packets it has   *)
(* handed to the device: a timeout, a NOT_READY or a CMD_ACTIVE never      *)
(* leaves a packet behind, whatever raced with it.                         *)
PutResultHonest ==
  \A t \in Thread : (pc[t] = "idle" /\ op[t] = "put") =>
    (ret[t] = "CIFX_NO_ERROR" <=> \E i \in DOMAIN accepted : accepted[i] = pkt[t])

(* The send mailbox implements a one-packet pipe from the callers of       *)
(* xChannelPutPacket to the device: nothing lost, doubled or reordered.    *)
SendPipe == INSTANCE PacketPipe WITH entered <- accepted, left <- taken
SendPipeSpec == SendPipe!PipeSpec

(* The receive mailbox implements a one-packet pipe from the device to the *)
(* callers of xChannelGetPacket.                                           *)
RecvPipe == INSTANCE PacketPipe WITH entered <- posted, left <- received
RecvPipeSpec == RecvPipe!PipeSpec

(* Every xChannelPutPacket returns even if its timeout never expires: the  *)
(* device empties the mailbox and the acknowledge is never missed, neither *)
(* by the polling loop nor between the bit test and OS_WaitEvent.          *)
PutReturns ==
  \A t \in Thread : (pc[t] # "idle" /\ op[t] = "put") ~> (pc[t] = "idle")

(* A thread that waits in DEV_WaitForBitState for a packet which is in the *)
(* receive mailbox comes to copy it (or to its timeout).                   *)
GetWakes ==
  \A t \in Thread :
    (/\ pc[t] \in {"bit", "bitAck", "bitEval", "wait"} /\ op[t] = "get"
     /\ Unequal(cellHost, cellNetx, "recv")) ~> (pc[t] \in {"copy", "release"})

(* With interrupts every device COS command is acknowledged by the DSR.    *)
CosAnswered ==
  (fIrqEnabled /\ Unequal(cellHost, cellNetx, "cos"))
    ~> ~Unequal(cellHost, cellNetx, "cos")
=============================================================================

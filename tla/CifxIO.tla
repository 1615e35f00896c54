------------------------------- MODULE CifxIO -------------------------------
(***************************************************************************)
(* Process data, synchronisation and notifications of a channel:           *)
(* xChannelIORead and xChannelIOWrite with their area mutexes, the PLC     *)
(* functions that hand the area to the application, xChannelSyncState, the *)
(* notification callbacks, and the DSR that reports changed handshake bits *)
(* to all of them.                                                         *)
(*                                                                         *)
(* An area has one pair of handshake bits and is owned by the host or by   *)
(* the device depending on whether they are equal.  A bit is modelled by   *)
(* the number of times its owner toggled it, of which the code sees the    *)
(* parity; the counts say which frame a buffer should hold.  A frame has   *)
(* two units that are copied one after the other.                          *)
(*                                                                         *)
(* Sections under pvLock are single steps (CifxMailbox is about the lock   *)
(* itself); usHostFlags is the host's half of the cell as well, being      *)
(* written together with it.  Handshake bits of mailboxes and COS are left *)
(* to CifxMailbox and CifxHostCos.  A DMA buffer takes the place of the    *)
(* DPM area and differs from it only without handshake.                    *)
(***************************************************************************)
EXTENDS Naturals

CONSTANTS
  Thread,        \* application threads
  NoThread,      \* owner of a free mutex
  Scenario,      \* a device's modes and what an application does with it
  NumCh,         \* communication channels
  SyncCh,        \* SyncCh[t]: the channel whose sync bit thread t uses
  MaxCalls,      \* bound: calls of a thread
  MaxToggle      \* bound: toggles of one bit by the device

Area == {"in", "out"}
Bit == Area \cup {"com"}
Slot == {"PD0_IN", "PD0_OUT", "SYNC", "COM_STATE"}
Channel == 0 .. NumCh - 1
IoChannel == 0         \* the channel whose areas and callbacks are modelled
Unit == 1 .. 2         \* an area is copied in two units
Op == {"Read", "Write", "PlcRead", "PlcWrite", "Signal", "Ack", "Wait",
       "Register", "Unregister"}
Mode == {"NOT_EQUAL", "EQUAL", "NONE"}
SyncMode == {"OFF", "DEV_CTRL", "HST_CTRL"}

ASSUME IOAssumption ==
  /\ NoThread \notin Thread
  /\ NumCh \in Nat \ {0} /\ SyncCh \in [Thread -> Channel]
  /\ Scenario \subseteq [irq : BOOLEAN, dma : BOOLEAN, mode : [Area -> Mode],
                         sync : SyncMode, slot : Slot, changes : Nat,
                         plan : [Thread -> SUBSET Op]]
  /\ MaxCalls \in Nat /\ MaxToggle \in Nat

(* What the functions without a mutex leave to their callers: an area that  *)
(* one thread uses through the PLC functions is not used by another thread, *)
(* and the sync bit of a channel is toggled by one thread.                  *)
ASSUME UsageAssumption ==
  \A s \in Scenario : \A t, u \in Thread : t # u =>
    /\ "PlcRead" \in s.plan[t] => s.plan[u] \cap {"Read", "PlcRead"} = {}
    /\ "PlcWrite" \in s.plan[t] => s.plan[u] \cap {"Write", "PlcWrite"} = {}
    /\ SyncCh[t] = SyncCh[u] => \/ s.plan[t] \cap {"Signal", "Ack"} = {}
                               \/ s.plan[u] \cap {"Signal", "Ack"} = {}

VARIABLES
  sc,           \* the scenario; a running device keeps its modes.  sc.changes
                \* bounds the changes of COS and COM state
  inArea,       \* DPM: frame numbers in the units of the input area
  outArea,      \* DPM: writer and frame number of the units of the output area
  cellNetx,     \* DPM: toggles of the device's bits
  cellSync,     \* DPM: toggles of the device's sync bits
  irqPending,
  usHostFlags, usNetxFlags,      \* own toggles, cached toggles of the device
  usHSyncFlags, usNSyncFlags,    \* the same for the sync bits
  running,      \* ulDeviceCOSFlags has READY and RUN
  events,       \* handshake bit events that are set; <<"sync", c>> for sync
  mutex,        \* pvMutex of the areas
  pfn, pvUser,  \* callback slots: registration number, 0 for NULL
  th,           \* locals of the threads
  irq,          \* locals of ISR and DSR
  devIn, devOut,   \* the device: input units written, its copy of the output
  calls, changes,
  regs,         \* history: registrations made so far
  told,         \* history: 1 + toggles of the device a callback reported
  gone,         \* history: registrations undone, and those of them that were
  goneBefore,   \* undone before this DSR began
  called        \* history: what the DSR called last

devVars  == <<inArea, outArea, cellNetx, cellSync, irqPending, devIn, devOut>>
hostVars == <<usHostFlags, usNetxFlags, usHSyncFlags, usNSyncFlags, running,
              events, mutex, pfn, pvUser>>
fIrqEnabled == sc.irq
mode        == sc.mode    \* bit states DEV_GetIOBitstate gives for the areas
syncMode    == sc.sync    \* bSyncHskMode
fixed       == sc
areas    == <<inArea, outArea>>
histVars == <<regs, told, gone, goneBefore, called>>
vars == <<devVars, hostVars, fixed, th, irq, calls, changes, histVars>>

Zero(S) == [x \in S |-> 0]
NoLocals == [pc |-> "idle", op |-> "Read", st |-> "NONE", buf |-> Zero(Unit),
             sync |-> Zero(Channel), ret |-> "OK"]
NoIrq == [st |-> "idle", netx |-> Zero(Bit), sync |-> Zero(Channel),
          host |-> Zero(Area), syncs |-> {}, bits |-> {}, pfn |-> 0]
NoCall == [slot |-> "none", pfn |-> 0, pvUser |-> 0]

Init ==
  /\ sc \in Scenario
  /\ inArea = Zero(Unit)
  /\ outArea = [i \in Unit |-> [by |-> NoThread, nr |-> 0]]
  /\ cellNetx = Zero(Bit) /\ cellSync = Zero(Channel) /\ irqPending = FALSE
  /\ usHostFlags = Zero(Area) /\ usNetxFlags = Zero(Bit)
  /\ usHSyncFlags = Zero(Channel) /\ usNSyncFlags = Zero(Channel)
  /\ running = TRUE /\ events = {}
  /\ mutex = [a \in Area |-> NoThread]
  /\ pfn = Zero(Slot) /\ pvUser = Zero(Slot)
  /\ th = [t \in Thread |-> NoLocals] /\ irq = NoIrq
  /\ devIn = 0 /\ devOut = [done |-> 0, copy |-> outArea]
  /\ calls = [t \in Thread |-> 0] /\ changes = 0
  /\ regs = 0 /\ told = Zero(Slot) /\ gone = {} /\ goneBefore = {}
  /\ called = NoCall
-----------------------------------------------------------------------------
(* Bits. *)

Unequal(m, n) == m % 2 # n % 2
HasState(st, m, n) == st = (IF Unequal(m, n) THEN "NOT_EQUAL" ELSE "EQUAL")

AreaOf(t) == IF th[t].op \in {"Read", "PlcRead"} THEN "in" ELSE "out"
Loc(t, l) == th' = [th EXCEPT ![t] = l]
Goto(t, label) == Loc(t, [th[t] EXCEPT !.pc = label])
Return(t, r) == Loc(t, [th[t] EXCEPT !.pc = "idle", !.ret = r])

(* DEV_ReadHandshakeFlags, which polling mode calls and interrupt mode does *)
(* not need.                                                                *)
ReadFlags == usNetxFlags' = IF fIrqEnabled THEN usNetxFlags ELSE cellNetx

(* DEV_IsCommunicating after ReadFlags. *)
ComState == IF ~running THEN "NOT_RUNNING"
            ELSE IF usNetxFlags'["com"] % 2 = 0 THEN "NO_COM_FLAG" ELSE "OK"

(* Everything a step of a thread leaves alone if it does not say otherwise. *)
SyncSame  == UNCHANGED <<usHSyncFlags, usNSyncFlags>>
SlotsSame == UNCHANGED <<pfn, pvUser, histVars>>
Elsewhere == UNCHANGED <<cellNetx, cellSync, irqPending, devIn, devOut, running,
                         fixed, irq, changes>>
-----------------------------------------------------------------------------
(* xChannelIORead and xChannelIOWrite. *)

(* DEV_IsRunning, and the bit state of the area, which is not looked up     *)
(* again after the wait for the mutex.                                      *)
StartIO(t) ==
  /\ th[t].pc = "start" /\ th[t].op \in {"Read", "Write"}
  /\ ReadFlags
  /\ IF ~running THEN Return(t, "NOT_RUNNING")
     ELSE Loc(t, [th[t] EXCEPT !.pc = "mutex", !.st = mode[AreaOf(t)]])
  /\ SyncSame /\ SlotsSame /\ Elsewhere
  /\ UNCHANGED <<areas, usHostFlags, events, mutex, calls>>

(* Mutant: a mutex that does not exclude. *)
MutexIgnored(a) == TRUE
MutexFree(a) == mutex[a] = NoThread

TakeMutex(t) ==
  /\ th[t].pc = "mutex"
  /\ LET a == AreaOf(t) IN
     \/ /\ MutexFree(a)
        /\ IF sc.dma /\ th[t].st = "NONE"
           THEN Return(t, "DMA_HANDSHAKEMODE_NOT_SUPPORTED") /\ UNCHANGED mutex
           ELSE /\ mutex' = [mutex EXCEPT ![a] = t]
                /\ Goto(t, IF th[t].st = "NONE" THEN "copy1" ELSE "bit")
     \/ ~MutexFree(a) /\ Return(t, "CMD_ACTIVE") /\ UNCHANGED mutex
  /\ SyncSame /\ SlotsSame /\ Elsewhere
  /\ UNCHANGED <<areas, usHostFlags, usNetxFlags, events, calls>>

(* DEV_WaitForBitState: read the flags, test them, wait. *)
ReadBit(t) ==
  /\ th[t].pc = "bit" /\ ReadFlags /\ Goto(t, "eval")
  /\ SyncSame /\ SlotsSame /\ Elsewhere
  /\ UNCHANGED <<areas, usHostFlags, events, mutex, calls>>

BitReached(t) ==
  HasState(th[t].st, usHostFlags[AreaOf(t)], usNetxFlags[AreaOf(t)])

EvalBit(t) ==
  /\ th[t].pc = "eval"
  /\ IF BitReached(t) THEN Goto(t, "copy1") /\ UNCHANGED mutex
     ELSE \/ Goto(t, "event") /\ UNCHANGED mutex
          \/ /\ Return(t, "EXCHANGE_FAILED")
             /\ mutex' = [mutex EXCEPT ![AreaOf(t)] = NoThread]
  /\ SyncSame /\ SlotsSame /\ Elsewhere
  /\ UNCHANGED <<areas, usHostFlags, usNetxFlags, events, calls>>

(* OS_WaitEvent in interrupt mode, OS_Sleep(0) in polling mode. *)
WaitBit(t) ==
  /\ th[t].pc = "event" /\ (fIrqEnabled => <<"bit", AreaOf(t)>> \in events)
  /\ events' = events \ {<<"bit", AreaOf(t)>>} /\ Goto(t, "bit")
  /\ SyncSame /\ SlotsSame /\ Elsewhere
  /\ UNCHANGED <<areas, usHostFlags, usNetxFlags, mutex, calls>>

(* The bit is looked at once more. *)
WaitTimeout(t) ==
  /\ th[t].pc = "event" /\ fIrqEnabled
  /\ IF BitReached(t) THEN Goto(t, "copy1") /\ UNCHANGED mutex
     ELSE /\ Return(t, "EXCHANGE_FAILED")
          /\ mutex' = [mutex EXCEPT ![AreaOf(t)] = NoThread]
  /\ SyncSame /\ SlotsSame /\ Elsewhere
  /\ UNCHANGED <<areas, usHostFlags, usNetxFlags, events, calls>>

(* HWIF_READN, HWIF_WRITEN; a PLC application does the same by itself. *)
CopyUnit(t, i, label) ==
  /\ IF AreaOf(t) = "in"
     THEN /\ Loc(t, [th[t] EXCEPT !.pc = label, !.buf = [@ EXCEPT ![i] = inArea[i]]])
          /\ UNCHANGED outArea
     ELSE /\ outArea' = [outArea EXCEPT ![i] = [by |-> t, nr |-> usHostFlags["out"] + 1]]
          /\ Goto(t, label)
  /\ SyncSame /\ SlotsSame /\ Elsewhere
  /\ UNCHANGED <<inArea, usHostFlags, usNetxFlags, events, mutex, calls>>

Copy(t) ==
  \/ th[t].pc = "copy1" /\ CopyUnit(t, 1, "copy2")
  \/ th[t].pc = "copy2" /\ CopyUnit(t, 2,
       IF th[t].st = "NONE" THEN "end" ELSE "toggle")

(* DEV_ToggleBit under pvLock. *)
ToggleArea(t) ==
  /\ th[t].pc = "toggle" /\ th[t].op \in {"Read", "Write"}
  /\ usHostFlags' = [usHostFlags EXCEPT ![AreaOf(t)] = @ + 1]
  /\ Goto(t, "end")
  /\ SyncSame /\ SlotsSame /\ Elsewhere
  /\ UNCHANGED <<areas, usNetxFlags, events, mutex, calls>>

(* The COM flag decides on the result, not on the exchange. *)
EndIO(t) ==
  /\ th[t].pc = "end" /\ th[t].op \in {"Read", "Write"}
  /\ ReadFlags /\ Return(t, ComState)
  /\ mutex' = [mutex EXCEPT ![AreaOf(t)] = NoThread]
  /\ SyncSame /\ SlotsSame /\ Elsewhere
  /\ UNCHANGED <<areas, usHostFlags, events, calls>>
-----------------------------------------------------------------------------
(* The PLC functions: xChannelPLCIsReadReady or xChannelPLCIsWriteReady,    *)
(* the application's access, xChannelPLCActivateRead or ...Write.           *)

PlcReady(t) ==
  /\ th[t].pc = "start" /\ th[t].op \in {"PlcRead", "PlcWrite"}
  /\ ReadFlags
  /\ LET a == AreaOf(t) IN
     IF ComState = "NOT_RUNNING" THEN Return(t, "NOT_RUNNING")
     ELSE IF mode[a] = "NONE" \/ HasState(mode[a], usHostFlags[a], usNetxFlags'[a])
     THEN Loc(t, [th[t] EXCEPT !.pc = "copy1", !.st = mode[a]])
     ELSE Return(t, "NOT_READY")
  /\ SyncSame /\ SlotsSame /\ Elsewhere
  /\ UNCHANGED <<areas, usHostFlags, events, mutex, calls>>

(* An application that was told to toggle without handshake need not. *)
PlcActivate(t) ==
  /\ th[t].pc \in {"toggle", "end"} /\ th[t].op \in {"PlcRead", "PlcWrite"}
  /\ ReadFlags
  /\ usHostFlags' = IF ComState = "NOT_RUNNING" \/ th[t].pc = "end"
                    THEN usHostFlags
                    ELSE [usHostFlags EXCEPT ![AreaOf(t)] = @ + 1]
  /\ Return(t, ComState)
  /\ SyncSame /\ SlotsSame /\ Elsewhere
  /\ UNCHANGED <<areas, events, mutex, calls>>
-----------------------------------------------------------------------------
(* xChannelSyncState.  usNSyncFlags holds the bits of all channels, but is  *)
(* read and stored under the lock of one channel only.                      *)

SyncOps == {"Signal", "Ack", "Wait"}
SyncGoal == IF syncMode = "HST_CTRL" THEN "EQUAL" ELSE "NOT_EQUAL"

StartSync(t) ==
  /\ th[t].pc = "start" /\ th[t].op \in SyncOps
  /\ IF \/ th[t].op = "Signal" /\ syncMode # "HST_CTRL"
        \/ th[t].op = "Ack" /\ syncMode # "DEV_CTRL"
        \/ th[t].op = "Wait" /\ syncMode = "OFF"
     THEN Return(t, "SYNC_STATE_INVALID_MODE")
     ELSE Goto(t, IF fIrqEnabled THEN "syncEval" ELSE "syncRead")
  /\ SyncSame /\ SlotsSame /\ Elsewhere
  /\ UNCHANGED <<areas, usHostFlags, usNetxFlags, events, mutex, calls>>

ReadSync(t) ==
  /\ th[t].pc = "syncRead"
  /\ Loc(t, [th[t] EXCEPT !.pc = "syncStore", !.sync = cellSync])
  /\ SyncSame /\ SlotsSame /\ Elsewhere
  /\ UNCHANGED <<areas, usHostFlags, usNetxFlags, events, mutex, calls>>

StoreSync(t) ==
  /\ th[t].pc = "syncStore" /\ usNSyncFlags' = th[t].sync
  /\ usNetxFlags' = IF SyncCh[t] = IoChannel THEN cellNetx ELSE usNetxFlags
  /\ Goto(t, "syncEval") /\ SlotsSame /\ Elsewhere
  /\ UNCHANGED <<usHSyncFlags, areas, usHostFlags, events, mutex, calls>>

(* Mutant: the state of the sync bit is not waited for. *)
SyncReachedAlways(c) == TRUE
SyncReached(c) == HasState(SyncGoal, usHSyncFlags[c], usNSyncFlags[c])

EvalSync(t) ==
  /\ th[t].pc = "syncEval"
  /\ IF SyncReached(SyncCh[t]) THEN Goto(t, "syncToggle")
     ELSE Goto(t, "syncEvent") \/ Return(t, "SYNC_STATE_TIMEOUT")
  /\ SyncSame /\ SlotsSame /\ Elsewhere
  /\ UNCHANGED <<areas, usHostFlags, usNetxFlags, events, mutex, calls>>

WaitSync(t) ==
  /\ th[t].pc = "syncEvent" /\ (fIrqEnabled => <<"sync", SyncCh[t]>> \in events)
  /\ events' = events \ {<<"sync", SyncCh[t]>>}
  /\ Goto(t, IF fIrqEnabled THEN "syncEval" ELSE "syncRead")
  /\ SyncSame /\ SlotsSame /\ Elsewhere
  /\ UNCHANGED <<areas, usHostFlags, usNetxFlags, mutex, calls>>

SyncTimeout(t) ==
  /\ th[t].pc = "syncEvent" /\ fIrqEnabled
  /\ IF SyncReached(SyncCh[t]) THEN Goto(t, "syncToggle")
     ELSE Return(t, "SYNC_STATE_TIMEOUT")
  /\ SyncSame /\ SlotsSame /\ Elsewhere
  /\ UNCHANGED <<areas, usHostFlags, usNetxFlags, events, mutex, calls>>

(* DEV_ToggleSyncBit, not for CIFX_SYNC_WAIT_CMD; DEV_IsCommunicating. *)
ToggleSync(t) ==
  /\ th[t].pc = "syncToggle" /\ ReadFlags
  /\ usHSyncFlags' = IF th[t].op = "Wait" THEN usHSyncFlags
                     ELSE [usHSyncFlags EXCEPT ![SyncCh[t]] = @ + 1]
  /\ Return(t, ComState) /\ SlotsSame /\ Elsewhere
  /\ UNCHANGED <<usNSyncFlags, areas, usHostFlags, events, mutex, calls>>
-----------------------------------------------------------------------------
(* xChannelRegisterNotification and xChannelUnregisterNotification.  The    *)
(* n-th registration has callback n and user pointer n; one thread at a     *)
(* time uses a slot.                                                        *)

SlotBit(s) == CASE s = "PD0_IN" -> "in" [] s = "PD0_OUT" -> "out" [] OTHER -> "com"
Seen(s) == IF s = "SYNC" THEN usNSyncFlags[IoChannel] ELSE usNetxFlags[SlotBit(s)]
Live(s) == IF s = "SYNC" THEN cellSync[IoChannel] ELSE cellNetx[SlotBit(s)]

(* The state of the bits a notification is about: netx is the device's bit. *)
Due(s, netx) ==
  CASE s = "COM_STATE" -> TRUE
    [] s = "SYNC" -> HasState(SyncGoal, usHSyncFlags[IoChannel], netx)
    [] OTHER -> HasState(mode[SlotBit(s)], usHostFlags[SlotBit(s)], netx)

Register(t) ==
  /\ th[t].pc = "start" /\ th[t].op = "Register"
  /\ LET s == sc.slot IN
     IF ~fIrqEnabled
     THEN Return(t, "INTERRUPT_DISABLED") /\ UNCHANGED <<pfn, pvUser, regs, told>>
     ELSE IF pfn[s] # 0
     THEN Return(t, "CALLBACK_ALREADY_USED") /\ UNCHANGED <<pfn, pvUser, regs, told>>
     ELSE /\ regs' = regs + 1 /\ told' = [told EXCEPT ![s] = 0]
          /\ pfn' = [pfn EXCEPT ![s] = regs + 1]
          /\ pvUser' = [pvUser EXCEPT ![s] = regs + 1]
          /\ Goto(t, "report")
  /\ SyncSame /\ Elsewhere
  /\ UNCHANGED <<areas, usHostFlags, usNetxFlags, events, mutex, calls, gone,
                 goneBefore, called>>

(* Mutant: the application is only told of later changes. *)
DueNowNever(s) == FALSE
DueNow(s) == Due(s, Seen(s))

(* The callback is called at once if the bits already are in that state. *)
Report(t) ==
  /\ th[t].pc = "report"
  /\ LET s == sc.slot IN
     told' = IF DueNow(s) THEN [told EXCEPT ![s] = Seen(s) + 1] ELSE told
  /\ Return(t, "OK") /\ SyncSame /\ Elsewhere
  /\ UNCHANGED <<areas, usHostFlags, usNetxFlags, events, mutex, calls, pfn,
                 pvUser, regs, gone, goneBefore, called>>

(* Mutant: only the user pointer is reset. *)
ClearedPfnKept(s) == pfn
ClearedPfn(s) == [pfn EXCEPT ![s] = 0]

Unregister(t) ==
  /\ th[t].pc = "start" /\ th[t].op = "Unregister"
  /\ LET s == sc.slot IN
     IF pfn[s] = 0
     THEN Return(t, "CALLBACK_NOT_REGISTERED") /\ UNCHANGED <<pfn, pvUser, gone>>
     ELSE /\ pfn' = ClearedPfn(s) /\ pvUser' = [pvUser EXCEPT ![s] = 0]
          /\ gone' = gone \cup {pfn[s]} /\ Return(t, "OK")
  /\ SyncSame /\ Elsewhere
  /\ UNCHANGED <<areas, usHostFlags, usNetxFlags, events, mutex, calls, regs, told,
                 goneBefore, called>>
-----------------------------------------------------------------------------
(* The interrupt thread: cifXTKitISRHandler, then cifXTKitDSRHandler.       *)

IrqOnly == UNCHANGED <<areas, cellNetx, cellSync, devIn, devOut, fixed, th, calls, changes,
                       usHostFlags, usHSyncFlags, running, mutex, pfn, pvUser,
                       regs, gone>>

Isr ==
  /\ fIrqEnabled /\ irq.st = "idle" /\ irqPending
  /\ irqPending' = FALSE /\ goneBefore' = gone /\ called' = NoCall
  /\ irq' = [irq EXCEPT !.st = "sync", !.netx = cellNetx, !.sync = cellSync]
  /\ IrqOnly /\ UNCHANGED <<usNetxFlags, usNSyncFlags, events, told>>

(* Work for the DSR: the changed bits. *)
ChangedSync == {c \in Channel : /\ Unequal(irq.sync[c], usNSyncFlags[c])
                                /\ HasState(SyncGoal, usHSyncFlags[c], irq.sync[c])}
ChangedBits == {b \in Bit : Unequal(irq.netx[b], usNetxFlags[b])}

(* It looks at the channels in order, and at the COM flag before the areas. *)
BitOrder == [com |-> 1, in |-> 2, out |-> 3]
SyncPhase == irq.st \in {"syncWork", "syncCall"}
Rank(x) == IF SyncPhase THEN x ELSE BitOrder[x]
Todo == IF SyncPhase THEN irq.syncs ELSE irq.bits
First == {x \in Todo : \A y \in Todo : Rank(x) <= Rank(y)}
Finished(x) == IF SyncPhase THEN [irq EXCEPT !.syncs = @ \ {x}]
               ELSE [irq EXCEPT !.bits = @ \ {x}]

DsrSync ==
  /\ irq.st = "sync"
  /\ irq' = [irq EXCEPT !.st = "syncWork", !.syncs = ChangedSync]
  /\ usNSyncFlags' = irq.sync
  /\ IrqOnly
  /\ UNCHANGED <<irqPending, usNetxFlags, events, told, goneBefore, called>>

(* usUnequalBits is computed once, from the host's flags at this moment. *)
DsrFlags ==
  /\ irq.st = "syncWork" /\ irq.syncs = {}
  /\ irq' = [irq EXCEPT !.st = "bitWork", !.bits = ChangedBits, !.host = usHostFlags]
  /\ usNetxFlags' = irq.netx
  /\ IrqOnly
  /\ UNCHANGED <<irqPending, usNSyncFlags, events, told, goneBefore, called>>

DsrEnd ==
  /\ irq.st = "bitWork" /\ irq.bits = {} /\ irq' = NoIrq
  /\ IrqOnly
  /\ UNCHANGED <<irqPending, usNetxFlags, usNSyncFlags, events, told, goneBefore,
                 called>>

DsrSlot(x) == IF SyncPhase
              THEN IF x = IoChannel THEN "SYNC" ELSE "none"
              ELSE CASE x = "in"  -> "PD0_IN"
                     [] x = "out" -> "PD0_OUT"
                     [] OTHER     -> "COM_STATE"

(* Mutant: the event of the next channel is set. *)
DsrEventNext(x) == IF SyncPhase THEN <<"sync", x + 1>> ELSE <<"bit", x>>

DsrEvent(x) == IF SyncPhase THEN <<"sync", x>> ELSE <<"bit", x>>

(* ProcessIOArea: is the area in the state the callback is for? *)
DsrDue(x) == x \in Area => HasState(mode[x], irq.host[x], usNetxFlags[x])

(* The pointer to the callback is tested ... *)
DsrTest ==
  /\ irq.st \in {"syncWork", "bitWork"}
  /\ \E x \in First :
       LET s == DsrSlot(x)
           call == s # "none" /\ (irq.st = "bitWork" => DsrDue(x)) /\ pfn[s] # 0
       IN /\ irq' = IF call
                    THEN [irq EXCEPT !.st = IF @ = "syncWork" THEN "syncCall" ELSE "bitCall",
                                     !.pfn = pfn[s]]
                    ELSE Finished(x)
          /\ events' = IF call /\ s # "COM_STATE" THEN events ELSE events \cup {DsrEvent(x)}
  /\ IrqOnly
  /\ UNCHANGED <<irqPending, usNetxFlags, usNSyncFlags, told, goneBefore, called>>

(* ... and the callback called.  ProcessIOArea keeps the pointer it tested; *)
(* elsewhere the compiler may read it again.  The user pointer is read now. *)
DsrCall ==
  /\ irq.st \in {"syncCall", "bitCall"}
  /\ \E x \in First :
       LET s == DsrSlot(x)
       IN /\ \E f \in IF s \in {"PD0_IN", "PD0_OUT"} THEN {irq.pfn} ELSE {irq.pfn, pfn[s]} :
               /\ called' = [slot |-> s, pfn |-> f, pvUser |-> pvUser[s]]
               /\ told' = IF f = pfn[s] THEN [told EXCEPT ![s] = Seen(s) + 1] ELSE told
          /\ events' = events \cup {DsrEvent(x)}
          /\ irq' = [Finished(x) EXCEPT !.st = IF @ = "syncCall" THEN "syncWork" ELSE "bitWork",
                                        !.pfn = 0]
  /\ IrqOnly
  /\ UNCHANGED <<irqPending, usNetxFlags, usNSyncFlags, goneBefore>>
-----------------------------------------------------------------------------
(* The device (external).  It works on an area while it owns it.  Without   *)
(* handshake nothing is promised about the data, so none is exchanged.      *)

DevOnly == UNCHANGED <<hostVars, fixed, th, irq, calls, histVars>>
DeviceOwns(a) ==
  mode[a] # "NONE" /\ ~HasState(mode[a], usHostFlags[a], cellNetx[a])

HandOver(a) == /\ cellNetx' = [cellNetx EXCEPT ![a] = @ + 1] /\ irqPending' = TRUE

DeviceIn ==
  /\ DeviceOwns("in") /\ cellNetx["in"] < MaxToggle
  /\ inArea' = [inArea EXCEPT ![devIn + 1] = cellNetx["in"] + 1]
  /\ IF devIn = 0 THEN devIn' = 1 /\ UNCHANGED <<cellNetx, irqPending>>
     ELSE devIn' = 0 /\ HandOver("in")
  /\ DevOnly /\ UNCHANGED <<outArea, devOut, cellSync, changes>>

DeviceOut ==
  /\ DeviceOwns("out") /\ cellNetx["out"] < MaxToggle
  /\ IF devOut.done = 1
     THEN /\ devOut' = [done |-> 2, copy |-> [devOut.copy EXCEPT ![2] = outArea[2]]]
          /\ HandOver("out")
     ELSE /\ devOut' = [done |-> 1, copy |-> [devOut.copy EXCEPT ![1] = outArea[1]]]
          /\ UNCHANGED <<cellNetx, irqPending>>
  /\ DevOnly /\ UNCHANGED <<areas, devIn, cellSync, changes>>

(* A sync signal, or the acknowledge of the host's. *)
DeviceSync ==
  /\ \E c \in Channel :
       /\ syncMode # "OFF" /\ cellSync[c] < MaxToggle
       /\ ~HasState(SyncGoal, usHSyncFlags[c], cellSync[c])
       /\ cellSync' = [cellSync EXCEPT ![c] = @ + 1]
  /\ irqPending' = TRUE
  /\ DevOnly /\ UNCHANGED <<areas, cellNetx, devIn, devOut, changes>>

(* The COM flag changes; the channel stops or starts, which the driver      *)
(* learns through the COS handshake.                                        *)
DeviceChange ==
  /\ changes < sc.changes /\ changes' = changes + 1
  /\ \/ HandOver("com") /\ UNCHANGED running
     \/ running' = ~running /\ UNCHANGED <<cellNetx, irqPending>>
  /\ UNCHANGED <<areas, cellSync, devIn, devOut, usHostFlags, usNetxFlags, usHSyncFlags,
                 usNSyncFlags, events, mutex, pfn, pvUser, fixed, th, irq, calls,
                 histVars>>
-----------------------------------------------------------------------------
Call(t) ==
  /\ th[t].pc = "idle" /\ calls[t] < MaxCalls
  /\ \E o \in sc.plan[t] : Loc(t, [NoLocals EXCEPT !.pc = "start", !.op = o])
  /\ calls' = [calls EXCEPT ![t] = @ + 1]
  /\ SyncSame /\ SlotsSame /\ Elsewhere
  /\ UNCHANGED <<areas, usHostFlags, usNetxFlags, events, mutex>>

Step(t) ==
  \/ StartIO(t) \/ TakeMutex(t) \/ ReadBit(t) \/ EvalBit(t) \/ WaitBit(t)
  \/ WaitTimeout(t) \/ Copy(t) \/ ToggleArea(t) \/ EndIO(t)
  \/ PlcReady(t) \/ PlcActivate(t)
  \/ StartSync(t) \/ ReadSync(t) \/ StoreSync(t) \/ EvalSync(t) \/ WaitSync(t)
  \/ SyncTimeout(t) \/ ToggleSync(t)
  \/ Register(t) \/ Report(t) \/ Unregister(t)

Interrupt == Isr \/ DsrSync \/ DsrFlags \/ DsrTest \/ DsrCall \/ DsrEnd
Device == DeviceIn \/ DeviceOut \/ DeviceSync \/ DeviceChange

Next == (\E t \in Thread : Call(t) \/ Step(t)) \/ Interrupt \/ Device

Spec == Init /\ [][Next]_vars

(* The interrupt thread is woken by the interrupt, and a thread inside a    *)
(* call runs on.                                                            *)
FairSpec == /\ Spec /\ WF_vars(Interrupt)
            /\ \A t \in Thread : WF_vars(Step(t))
-----------------------------------------------------------------------------
Result == {"OK", "NOT_RUNNING", "NO_COM_FLAG", "CMD_ACTIVE", "EXCHANGE_FAILED",
           "DMA_HANDSHAKEMODE_NOT_SUPPORTED", "NOT_READY",
           "SYNC_STATE_INVALID_MODE", "SYNC_STATE_TIMEOUT", "INTERRUPT_DISABLED",
           "CALLBACK_ALREADY_USED", "CALLBACK_NOT_REGISTERED"}
OutUnit == [by : Thread \cup {NoThread}, nr : Nat]
Label == {"idle", "start", "mutex", "bit", "eval", "event", "copy1", "copy2", "toggle", "end",
          "syncRead", "syncStore", "syncEval", "syncEvent", "syncToggle", "report"}
DsrState == {"idle", "sync", "syncWork", "syncCall", "bitWork", "bitCall"}

(* Every variable has the type its declaration in the code gives it. *)
TypeOK ==
  /\ sc \in Scenario
  /\ inArea \in [Unit -> Nat] /\ outArea \in [Unit -> OutUnit]
  /\ cellNetx \in [Bit -> Nat] /\ cellSync \in [Channel -> Nat]
  /\ irqPending \in BOOLEAN
  /\ usHostFlags \in [Area -> Nat] /\ usNetxFlags \in [Bit -> Nat]
  /\ usHSyncFlags \in [Channel -> Nat] /\ usNSyncFlags \in [Channel -> Nat]
  /\ running \in BOOLEAN
  /\ events \subseteq ({"bit"} \X Bit) \cup ({"sync"} \X Channel)
  /\ mutex \in [Area -> Thread \cup {NoThread}]
  /\ pfn \in [Slot -> Nat] /\ pvUser \in [Slot -> Nat]
  /\ th \in [Thread -> [pc : Label, op : Op, st : Mode, buf : [Unit -> Nat],
                        sync : [Channel -> Nat], ret : Result]]
  /\ irq \in [st : DsrState, netx : [Bit -> Nat], sync : [Channel -> Nat],
              host : [Area -> Nat], syncs : SUBSET Channel, bits : SUBSET Bit, pfn : Nat]
  /\ devIn \in 0 .. 1 /\ devOut \in [done : 0 .. 2, copy : [Unit -> OutUnit]]
  /\ calls \in [Thread -> 0 .. MaxCalls] /\ changes \in 0 .. sc.changes
  /\ regs \in Nat /\ told \in [Slot -> Nat] /\ gone \subseteq 1 .. regs

Ahead(a) == IF mode[a] = "NOT_EQUAL" THEN 1 ELSE 0

(* xChannelIORead, xChannelIOWrite and the PLC functions: with a handshake  *)
(* every frame is exchanged once, in order and in one piece, although       *)
(* several threads exchange data and, with interrupts, decide by flags that *)
(* may be out of date.  A thread about to give an input area back has read  *)
(* the frame after the last one read; the device has taken all of one       *)
(* call's output data, the data of the call after the last one taken.       *)
ProcessDataExact ==
  /\ \A t \in Thread :
       th[t].pc = "toggle" /\ AreaOf(t) = "in" =>
         LET n == cellNetx["in"] IN
         (\A i \in Unit : th[t].buf[i] = n) /\ n = usHostFlags["in"] + Ahead("in")
  /\ devOut.done = 2 =>
       /\ devOut.copy[1] = devOut.copy[2]
       /\ devOut.copy[1].nr + Ahead("out") = cellNetx["out"]

(* xChannelSyncState: one thread per channel, every sync of the device is   *)
(* acknowledged once and no signal is given before the last one was         *)
(* acknowledged.  Only with interrupts: in polling mode a thread that syncs *)
(* another channel may put back usNSyncFlags of an earlier moment between   *)
(* this thread's read and its test.                                         *)
SyncAlternates ==
  fIrqEnabled => \A c \in Channel :
    usHSyncFlags[c] \in IF syncMode = "DEV_CTRL"
                        THEN {cellSync[c], cellSync[c] - 1}
                        ELSE {cellSync[c], cellSync[c] + 1}

(* xChannelUnregisterNotification does not wait for the DSR.  Still, a DSR  *)
(* that begins after it never calls the callback any more, and the one for  *)
(* process data is never called through a NULL pointer.                     *)
LateCallBounded ==
  /\ called.pfn \notin goneBefore
  /\ called.slot \in {"PD0_IN", "PD0_OUT"} => called.pfn # 0

(* A registered callback is told of every state it is for, also if the bit  *)
(* changes while it is being registered, unless the state passes before.    *)
(* The COM flag may change and change back unnoticed.                       *)
Untold ==
  LET s == sc.slot IN
  /\ pfn[s] # 0 /\ Due(s, Live(s))
  /\ IF s = "COM_STATE" THEN told[s] = 0 \/ Unequal(told[s], Live(s) + 1)
                        ELSE told[s] # Live(s) + 1
NotificationArrives == Untold ~> ~Untold
=============================================================================

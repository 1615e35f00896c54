----------------------------- MODULE CifxIOProofs -----------------------------
(***************************************************************************)
(* Proofs about CifxIO, for any number of threads, channels and calls.     *)
(* The argument about process data: the cached flags of the device never   *)
(* lag behind what the host has already reacted to, so that a thread that  *)
(* sees its state in them really owns the area; and the area mutex, or the *)
(* caller's discipline with the PLC functions, lets only one thread see    *)
(* it.                                                                     *)
(***************************************************************************)
EXTENDS CifxIO, TLAPS

-----------------------------------------------------------------------------
(* The inductive invariant.                                                 *)

LockedLabel == {"bit", "eval", "event", "copy1", "copy2", "toggle", "end"}
CopyLabel == {"copy1", "copy2", "toggle"}
SyncLabel == {"syncRead", "syncStore", "syncEval", "syncEvent", "syncToggle"}

\* Which lines a call runs through, with which bit state.
FlowAt(t) ==
  /\ th[t].pc # "idle" => th[t].op \in sc.plan[t]
  /\ th[t].pc \in {"mutex", "bit", "eval", "event"} => th[t].op \in {"Read", "Write"}
  /\ th[t].pc \in CopyLabel \cup {"end"} =>
       th[t].op \in {"Read", "Write", "PlcRead", "PlcWrite"}
  /\ th[t].pc \in LockedLabel \cup {"mutex"} => th[t].st = mode[AreaOf(t)]
  /\ th[t].pc \in {"bit", "eval", "event", "toggle"} => th[t].st # "NONE"
  /\ th[t].pc \in SyncLabel =>
       \/ th[t].op = "Wait" /\ syncMode # "OFF"
       \/ th[t].op = "Signal" /\ syncMode = "HST_CTRL"
       \/ th[t].op = "Ack" /\ syncMode = "DEV_CTRL"
  /\ th[t].pc \in {"syncRead", "syncStore"} => ~fIrqEnabled

FlowInv == \A t \in Thread : FlowAt(t)

\* xChannelIORead and xChannelIOWrite hold the mutex of their area.
MutexInv ==
  \A t \in Thread : th[t].pc \in LockedLabel /\ th[t].op \in {"Read", "Write"} =>
                      mutex[AreaOf(t)] = t

\* The toggles of the device with which it is the host's turn.
Turn(a) == usHostFlags[a] + Ahead(a)

\* The device is never more than one toggle behind that, the cached flags are
\* neither, and they never run ahead.
LagInv ==
  /\ irq.st # "idle" => fIrqEnabled
  /\ \A a \in Area : mode[a] # "NONE" =>
       /\ cellNetx[a] <= Turn(a) /\ Turn(a) <= usNetxFlags[a] + 1
       /\ usNetxFlags[a] <= cellNetx[a]
       /\ irq.st \in {"sync", "syncWork", "syncCall"} =>
            usNetxFlags[a] <= irq.netx[a] /\ irq.netx[a] <= cellNetx[a]

\* A thread that copies data has seen that it is the host's turn.
HoldInv ==
  \A t \in Thread : th[t].pc \in CopyLabel /\ th[t].st # "NONE" =>
                      usNetxFlags[AreaOf(t)] = Turn(AreaOf(t))

\* The input area holds the device's last frame while it is the host's turn.
InInv ==
  mode["in"] # "NONE" =>
    /\ cellNetx["in"] = Turn("in") =>
         devIn = 0 /\ inArea[1] = cellNetx["in"] /\ inArea[2] = cellNetx["in"]
    /\ devIn = 1 => inArea[1] = cellNetx["in"] + 1
    /\ \A t \in Thread : AreaOf(t) = "in" =>
         /\ th[t].pc \in {"copy2", "toggle"} => th[t].buf[1] = cellNetx["in"]
         /\ th[t].pc = "toggle" => th[t].buf[2] = cellNetx["in"]

\* The output area holds one whole frame of the host while it is the device's.
OutInv ==
  IF mode["out"] = "NONE" THEN devOut.done = 0
  ELSE /\ cellNetx["out"] # Turn("out") =>
            /\ outArea[1] = outArea[2] /\ outArea[1].nr = usHostFlags["out"]
            /\ devOut.done = 1 => devOut.copy[1] = outArea[1]
       /\ devOut.done = 1 => cellNetx["out"] # Turn("out")
       /\ devOut.done = 2 => /\ devOut.copy[1] = devOut.copy[2]
                             /\ devOut.copy[1].nr + Ahead("out") = cellNetx["out"]
       /\ \A t \in Thread : AreaOf(t) = "out" =>
            LET frame == [by |-> t, nr |-> usHostFlags["out"] + 1]
            IN /\ th[t].pc \in {"copy2", "toggle"} => outArea[1] = frame
               /\ th[t].pc = "toggle" => outArea[2] = frame

\* The same lag for the sync bits, with interrupts.
SyncTurn(c) == usHSyncFlags[c] + IF syncMode = "HST_CTRL" THEN 0 ELSE 1

SyncInv ==
  fIrqEnabled =>
    /\ \A c \in Channel :
         /\ cellSync[c] <= SyncTurn(c) /\ SyncTurn(c) <= usNSyncFlags[c] + 1
         /\ usNSyncFlags[c] <= cellSync[c]
         /\ irq.st = "sync" => usNSyncFlags[c] <= irq.sync[c] /\ irq.sync[c] <= cellSync[c]
         /\ syncMode = "OFF" => cellSync[c] = usHSyncFlags[c]
    /\ \A t \in Thread : th[t].pc = "syncToggle" /\ th[t].op # "Wait" =>
         usNSyncFlags[SyncCh[t]] = SyncTurn(SyncCh[t])

\* Registrations: a number is in one slot or gone, and the DSR holds one that
\* was there when it began or later.
NotifyInv ==
  /\ goneBefore \subseteq gone
  /\ \A s \in Slot : pfn[s] <= regs /\ pfn[s] \notin gone /\ (s # sc.slot => pfn[s] = 0)
  /\ irq.st \notin {"syncCall", "bitCall"} => irq.pfn = 0
  /\ irq.st \in {"syncCall", "bitCall"} => irq.pfn # 0 /\ irq.pfn \notin goneBefore
  /\ irq.st = "syncCall" => IoChannel \in irq.syncs

IOInv ==
  /\ TypeOK /\ FlowInv /\ MutexInv /\ LagInv /\ HoldInv /\ InInv /\ OutInv /\ SyncInv
  /\ NotifyInv /\ LateCallBounded

-----------------------------------------------------------------------------
(* Types.                                                                   *)

Locals == [pc : Label, op : Op, st : Mode, buf : [Unit -> Nat], sync : [Channel -> Nat], ret : Result]

IrqLocals == [st : DsrState, netx : [Bit -> Nat], sync : [Channel -> Nat], host : [Area -> Nat],
              syncs : SUBSET Channel, bits : SUBSET Bit, pfn : Nat]

\* TypeOK in parts.
TypeSc == sc \in Scenario
TypeMisc == irqPending \in BOOLEAN /\ running \in BOOLEAN
TypeUsed == calls \in [Thread -> 0 .. MaxCalls] /\ changes \in 0 .. sc.changes
TypeAreas ==
  /\ inArea \in [Unit -> Nat] /\ outArea \in [Unit -> OutUnit]
  /\ devIn \in 0 .. 1 /\ devOut \in [done : 0 .. 2, copy : [Unit -> OutUnit]]
TypeFlags == cellNetx \in [Bit -> Nat] /\ usHostFlags \in [Area -> Nat] /\ usNetxFlags \in [Bit -> Nat]
TypeSync ==
  /\ cellSync \in [Channel -> Nat]
  /\ usHSyncFlags \in [Channel -> Nat] /\ usNSyncFlags \in [Channel -> Nat]
TypeEvents == events \subseteq ({"bit"} \X Bit) \cup ({"sync"} \X Channel)
TypeMutex == mutex \in [Area -> Thread \cup {NoThread}]
TypeSlots ==
  /\ pfn \in [Slot -> Nat] /\ pvUser \in [Slot -> Nat]
  /\ regs \in Nat /\ told \in [Slot -> Nat] /\ gone \subseteq 1 .. regs
TypeTh == th \in [Thread -> Locals]
TypeDsr == irq \in IrqLocals

(* The parts make up TypeOK. *)
LEMMA TypeParts ==
  TypeOK <=> /\ TypeSc /\ TypeMisc /\ TypeUsed /\ TypeAreas /\ TypeFlags /\ TypeSync /\ TypeEvents
             /\ TypeMutex /\ TypeSlots /\ TypeTh /\ TypeDsr
  BY DEF TypeOK, TypeSc, TypeMisc, TypeUsed, TypeAreas, TypeFlags, TypeSync, TypeEvents, TypeMutex,
     TypeSlots, TypeTh, TypeDsr, Locals, IrqLocals

(* What a scenario is. *)
LEMMA ScenarioFact ==
  ASSUME TypeSc
  PROVE  /\ sc.irq \in BOOLEAN /\ sc.mode \in [Area -> Mode] /\ sc.sync \in SyncMode
         /\ sc.slot \in Slot /\ sc.changes \in Nat /\ sc.plan \in [Thread -> SUBSET Op]
  BY IOAssumption DEF TypeSc

(* A thread goes to another line of its call. *)
LEMMA GotoFact ==
  ASSUME TypeTh, NEW t \in Thread, NEW l, Goto(t, l)
  PROVE  /\ th'[t].pc = l /\ th'[t].op = th[t].op /\ th'[t].st = th[t].st
         /\ th'[t].buf = th[t].buf /\ th'[t].sync = th[t].sync /\ th'[t].ret = th[t].ret
         /\ \A u \in Thread : u # t => th'[u] = th[u]
  BY DEF TypeTh, Locals, Goto, Loc

(* A thread returns from its call. *)
LEMMA ReturnFact ==
  ASSUME TypeTh, NEW t \in Thread, NEW r, Return(t, r)
  PROVE  /\ th'[t].pc = "idle" /\ th'[t].op = th[t].op /\ th'[t].st = th[t].st
         /\ th'[t].buf = th[t].buf /\ th'[t].sync = th[t].sync /\ th'[t].ret = r
         /\ \A u \in Thread : u # t => th'[u] = th[u]
  BY DEF TypeTh, Locals, Return, Loc

(* Both keep the types. *)
LEMMA LocType ==
  ASSUME TypeTh, NEW t \in Thread
  PROVE  /\ \A l \in Label : Goto(t, l) => TypeTh'
         /\ \A r \in Result : Return(t, r) => TypeTh'
         /\ \A x \in Locals : Loc(t, x) => TypeTh'
<1>1. ASSUME NEW x \in Locals, Loc(t, x) PROVE TypeTh'
  BY <1>1 DEF Loc, TypeTh
<1>2. \A l \in Label : [th[t] EXCEPT !.pc = l] \in Locals
  BY DEF TypeTh, Locals
<1>3. \A r \in Result : [th[t] EXCEPT !.pc = "idle", !.ret = r] \in Locals
  BY DEF TypeTh, Locals, Label
<1> QED
  BY <1>1, <1>2, <1>3 DEF Goto, Return


(* So does an assignment to another local variable on the way. *)
LEMMA EditType ==
  ASSUME TypeTh, NEW t \in Thread, NEW l \in Label
  PROVE  /\ \A m \in Mode : [th[t] EXCEPT !.pc = l, !.st = m] \in Locals
         /\ \A b \in [Unit -> Nat] : [th[t] EXCEPT !.pc = l, !.buf = b] \in Locals
         /\ \A s \in [Channel -> Nat] : [th[t] EXCEPT !.pc = l, !.sync = s] \in Locals
<1>1. th[t] \in Locals
  BY DEF TypeTh
<1>2. \A m \in Mode : [th[t] EXCEPT !.pc = l, !.st = m] \in Locals
  BY <1>1 DEF Locals
<1>3. \A b \in [Unit -> Nat] : [th[t] EXCEPT !.pc = l, !.buf = b] \in Locals
  BY <1>1 DEF Locals
<1>4. \A s \in [Channel -> Nat] : [th[t] EXCEPT !.pc = l, !.sync = s] \in Locals
  BY <1>1 DEF Locals
<1> QED
  BY <1>2, <1>3, <1>4

(* A call begins. *)
LEMMA CallFact ==
  ASSUME TypeTh, NEW t \in Thread, Call(t)
  PROVE  /\ th'[t].pc = "start" /\ th'[t].op \in sc.plan[t]
         /\ \A u \in Thread : u # t => th'[u] = th[u]
<1>1. PICK o \in sc.plan[t] : Loc(t, [NoLocals EXCEPT !.pc = "start", !.op = o])
  BY DEF Call
<1>2. /\ th'[t] = [NoLocals EXCEPT !.pc = "start", !.op = o]
      /\ \A u \in Thread : u # t => th'[u] = th[u]
  BY <1>1 DEF Loc, TypeTh
<1> QED
  BY <1>2 DEF NoLocals

(* xChannelIORead and xChannelIOWrite go for the mutex. *)
LEMMA StartIOFact ==
  ASSUME TypeTh, NEW t \in Thread, StartIO(t)
  PROVE  /\ th'[t].op = th[t].op /\ th[t].op \in {"Read", "Write"} /\ th[t].pc = "start"
         /\ th'[t].pc = "idle" \/ (th'[t].pc = "mutex" /\ th'[t].st = mode[AreaOf(t)])
         /\ \A u \in Thread : u # t => th'[u] = th[u]
<1>1. \/ Return(t, "NOT_RUNNING")
      \/ Loc(t, [th[t] EXCEPT !.pc = "mutex", !.st = mode[AreaOf(t)]])
  BY DEF StartIO
<1>2. th[t].op \in {"Read", "Write"} /\ th[t].pc = "start"
  BY DEF StartIO
<1>3. CASE Return(t, "NOT_RUNNING")
  BY <1>2, <1>3, ReturnFact
<1>4. CASE Loc(t, [th[t] EXCEPT !.pc = "mutex", !.st = mode[AreaOf(t)]])
  <2>1. /\ th'[t] = [th[t] EXCEPT !.pc = "mutex", !.st = mode[AreaOf(t)]]
        /\ \A u \in Thread : u # t => th'[u] = th[u]
    BY <1>4 DEF Loc, TypeTh
  <2> QED
    BY <1>2, <2>1 DEF TypeTh, Locals
<1> QED
  BY <1>1, <1>3, <1>4

(* A thread gets the mutex of its area, or gives up. *)
LEMMA TakeMutexFact ==
  ASSUME TypeTh, NEW t \in Thread, TakeMutex(t)
  PROVE  /\ th[t].pc = "mutex" /\ th'[t].op = th[t].op /\ th'[t].st = th[t].st
         /\ \/ th'[t].pc = "idle" /\ mutex' = mutex
            \/ /\ mutex[AreaOf(t)] = NoThread /\ mutex' = [mutex EXCEPT ![AreaOf(t)] = t]
               /\ th'[t].pc = IF th[t].st = "NONE" THEN "copy1" ELSE "bit"
         /\ \A u \in Thread : u # t => th'[u] = th[u]
<1>1. /\ th[t].pc = "mutex"
      /\ \/ \E r \in Result : Return(t, r) /\ mutex' = mutex
         \/ /\ mutex[AreaOf(t)] = NoThread /\ mutex' = [mutex EXCEPT ![AreaOf(t)] = t]
            /\ Goto(t, IF th[t].st = "NONE" THEN "copy1" ELSE "bit")
  BY DEF TakeMutex, MutexFree, Result
<1> QED
  BY <1>1, GotoFact, ReturnFact

(* The PLC functions let the application at an area that is the host's. *)
LEMMA PlcReadyFact ==
  ASSUME TypeTh, NEW t \in Thread, PlcReady(t)
  PROVE  /\ th[t].pc = "start" /\ th'[t].op = th[t].op /\ th[t].op \in {"PlcRead", "PlcWrite"}
         /\ \/ th'[t].pc = "idle"
            \/ /\ th'[t].pc = "copy1" /\ th'[t].st = mode[AreaOf(t)]
               /\ \/ mode[AreaOf(t)] = "NONE"
                  \/ HasState(mode[AreaOf(t)], usHostFlags[AreaOf(t)], usNetxFlags'[AreaOf(t)])
         /\ \A u \in Thread : u # t => th'[u] = th[u]
<1>1. th[t].pc = "start" /\ th[t].op \in {"PlcRead", "PlcWrite"}
  BY DEF PlcReady
<1>2. \/ \E r : Return(t, r)
      \/ /\ Loc(t, [th[t] EXCEPT !.pc = "copy1", !.st = mode[AreaOf(t)]])
         /\ \/ mode[AreaOf(t)] = "NONE"
            \/ HasState(mode[AreaOf(t)], usHostFlags[AreaOf(t)], usNetxFlags'[AreaOf(t)])
  BY Zenon DEF PlcReady
<1>3. CASE \E r : Return(t, r)
  BY <1>1, <1>3, ReturnFact
<1>4. CASE ~ \E r : Return(t, r)
  <2>1. /\ th'[t] = [th[t] EXCEPT !.pc = "copy1", !.st = mode[AreaOf(t)]]
        /\ \A u \in Thread : u # t => th'[u] = th[u]
    BY <1>2, <1>4 DEF Loc, TypeTh
  <2>2. /\ th'[t].pc = "copy1" /\ th'[t].st = mode[AreaOf(t)]
        /\ th'[t].op = th[t].op
    BY <2>1 DEF TypeTh, Locals
  <2> QED
    BY <1>1, <1>2, <1>4, <2>1, <2>2
<1> QED
  BY <1>3, <1>4

(* A thread reads the sync bits. *)
LEMMA ReadSyncFact ==
  ASSUME TypeTh, NEW t \in Thread, ReadSync(t)
  PROVE  /\ th[t].pc = "syncRead" /\ th'[t].pc = "syncStore" /\ th'[t].op = th[t].op
         /\ \A u \in Thread : u # t => th'[u] = th[u]
<1>1. /\ th'[t] = [th[t] EXCEPT !.pc = "syncStore", !.sync = cellSync]
      /\ \A u \in Thread : u # t => th'[u] = th[u]
  BY DEF Loc, TypeTh, ReadSync
<1>2. th[t].pc = "syncRead"
  BY DEF ReadSync
<1> QED
  BY <1>1, <1>2 DEF TypeTh, Locals

(* A thread copies one unit of its area. *)
LEMMA CopyUnitFact ==
  ASSUME TypeTh, NEW t \in Thread, NEW i \in Unit, NEW l, CopyUnit(t, i, l)
  PROVE  /\ th'[t].pc = l /\ th'[t].op = th[t].op /\ th'[t].st = th[t].st
         /\ AreaOf(t) = "in" => th'[t].buf = [th[t].buf EXCEPT ![i] = inArea[i]]
         /\ \A u \in Thread : u # t => th'[u] = th[u]
<1>1. CASE AreaOf(t) = "in"
  <2>1. Loc(t, [th[t] EXCEPT !.pc = l, !.buf = [th[t].buf EXCEPT ![i] = inArea[i]]])
    BY <1>1 DEF CopyUnit
  <2>2. /\ th'[t] = [th[t] EXCEPT !.pc = l, !.buf = [th[t].buf EXCEPT ![i] = inArea[i]]]
        /\ \A u \in Thread : u # t => th'[u] = th[u]
    BY <2>1 DEF Loc, TypeTh
  <2>3. /\ th'[t].pc = l /\ th'[t].op = th[t].op /\ th'[t].st = th[t].st
        /\ th'[t].buf = [th[t].buf EXCEPT ![i] = inArea[i]]
    BY <2>2 DEF TypeTh, Locals
  <2> QED
    BY <1>1, <2>2, <2>3
<1>2. CASE AreaOf(t) # "in"
  BY <1>2, GotoFact DEF CopyUnit
<1> QED
  BY <1>1, <1>2

(* The same for a step of the copying. *)
LEMMA CopyFact ==
  ASSUME TypeTh, NEW t \in Thread, Copy(t)
  PROVE  /\ th'[t].op = th[t].op /\ th'[t].st = th[t].st
         /\ \/ th[t].pc = "copy1" /\ th'[t].pc = "copy2"
            \/ th[t].pc = "copy2" /\ th'[t].pc = IF th[t].st = "NONE" THEN "end" ELSE "toggle"
         /\ \A u \in Thread : u # t => th'[u] = th[u]
<1> DEFINE Moves(l) == /\ th'[t].pc = l /\ th'[t].op = th[t].op /\ th'[t].st = th[t].st
                       /\ \A u \in Thread : u # t => th'[u] = th[u]
<1>1. ASSUME NEW i \in Unit, NEW l, CopyUnit(t, i, l) PROVE Moves(l)
  BY <1>1, CopyUnitFact
<1>2. 1 \in Unit /\ 2 \in Unit
  BY DEF Unit
<1>3. \/ th[t].pc = "copy1" /\ CopyUnit(t, 1, "copy2")
      \/ th[t].pc = "copy2" /\ th[t].st = "NONE" /\ CopyUnit(t, 2, "end")
      \/ th[t].pc = "copy2" /\ th[t].st # "NONE" /\ CopyUnit(t, 2, "toggle")
  BY DEF Copy
<1>4. \/ th[t].pc = "copy1" /\ Moves("copy2")
      \/ th[t].pc = "copy2" /\ th[t].st = "NONE" /\ Moves("end")
      \/ th[t].pc = "copy2" /\ th[t].st # "NONE" /\ Moves("toggle")
  <2> HIDE DEF Moves
  <2> QED
    BY <1>1, <1>2, <1>3, Zenon
<1> QED
  BY <1>4

-----------------------------------------------------------------------------
(* What the steps leave alone.                                              *)

(* A thread changes neither what the device and the interrupt own, nor the  *)
(* scenario.                                                                *)
LEMMA ThreadFrame ==
  ASSUME NEW t \in Thread, Call(t) \/ Step(t)
  PROVE  UNCHANGED <<cellNetx, cellSync, irqPending, devIn, devOut, running, sc, irq, changes, inArea,
                     goneBefore, called>>
<1> USE DEF Elsewhere, fixed
<1>1. UNCHANGED <<cellNetx, cellSync, irqPending, devIn, devOut, running, sc, irq, changes>>
  BY DEF Call, Step, StartIO, TakeMutex, ReadBit, EvalBit, WaitBit, WaitTimeout, Copy, CopyUnit,
     ToggleArea, EndIO, PlcReady, PlcActivate, StartSync, ReadSync, StoreSync, EvalSync, WaitSync,
     SyncTimeout, ToggleSync, Register, Report, Unregister
<1>2. UNCHANGED <<inArea, goneBefore, called>>
  BY DEF Call, Step, StartIO, TakeMutex, ReadBit, EvalBit, WaitBit, WaitTimeout, Copy, CopyUnit,
     ToggleArea, EndIO, PlcReady, PlcActivate, StartSync, ReadSync, StoreSync, EvalSync, WaitSync,
     SyncTimeout, ToggleSync, Register, Report, Unregister, SlotsSame, histVars, areas
<1> QED
  BY <1>1, <1>2

(* The interrupt changes only cached flags, events and its own locals. *)
LEMMA InterruptFrame ==
  ASSUME Interrupt
  PROVE  UNCHANGED <<inArea, outArea, cellNetx, cellSync, devIn, devOut, sc, th, calls, changes,
                     usHostFlags, usHSyncFlags, running, mutex, pfn, pvUser, regs, gone>>
<1>1. IrqOnly
  BY DEF Interrupt, Isr, DsrSync, DsrFlags, DsrTest, DsrCall, DsrEnd
<1> QED
  BY <1>1 DEF IrqOnly, areas, fixed

(* The device changes only the DPM, and the state the driver learns of. *)
LEMMA DeviceFrame ==
  ASSUME Device
  PROVE  UNCHANGED <<usHostFlags, usNetxFlags, usHSyncFlags, usNSyncFlags, events, mutex, pfn, pvUser,
                     sc, th, irq, calls, regs, told, gone, goneBefore, called, outArea>>
<1>1. CASE DeviceIn \/ DeviceOut \/ DeviceSync
  BY <1>1 DEF DeviceIn, DeviceOut, DeviceSync, DevOnly, hostVars, histVars, fixed, areas
<1>2. CASE DeviceChange
  BY <1>2 DEF DeviceChange, histVars, fixed, areas
<1> QED
  BY <1>1, <1>2 DEF Device

(* Which steps of a thread change which variables. *)
LEMMA ThreadChanges ==
  ASSUME NEW t \in Thread, Call(t) \/ Step(t)
  PROVE  /\ UNCHANGED calls \/ Call(t)
         /\ UNCHANGED outArea \/ Copy(t)
         /\ UNCHANGED usHostFlags \/ ToggleArea(t) \/ PlcActivate(t)
         /\ UNCHANGED usNetxFlags \/ StartIO(t) \/ ReadBit(t) \/ EndIO(t) \/ PlcReady(t)
               \/ PlcActivate(t) \/ StoreSync(t) \/ ToggleSync(t)
         /\ UNCHANGED usHSyncFlags \/ ToggleSync(t)
         /\ UNCHANGED usNSyncFlags \/ StoreSync(t)
         /\ UNCHANGED events \/ WaitBit(t) \/ WaitSync(t)
         /\ UNCHANGED mutex \/ TakeMutex(t) \/ EvalBit(t) \/ WaitTimeout(t) \/ EndIO(t)
         /\ UNCHANGED <<pfn, pvUser>> \/ Register(t) \/ Unregister(t)
         /\ UNCHANGED regs \/ Register(t)
         /\ UNCHANGED told \/ Register(t) \/ Report(t)
         /\ UNCHANGED gone \/ Unregister(t)
<1> USE DEF SyncSame, SlotsSame, areas, histVars
<1>1. CASE Call(t)
  BY <1>1 DEF Call
<1>2. CASE StartIO(t)
  BY <1>2 DEF StartIO
<1>3. CASE TakeMutex(t)
  BY <1>3 DEF TakeMutex
<1>4. CASE ReadBit(t)
  BY <1>4 DEF ReadBit
<1>5. CASE EvalBit(t)
  BY <1>5 DEF EvalBit
<1>6. CASE WaitBit(t)
  BY <1>6 DEF WaitBit
<1>7. CASE WaitTimeout(t)
  BY <1>7 DEF WaitTimeout
<1>8. CASE Copy(t)
  BY <1>8 DEF Copy, CopyUnit
<1>9. CASE ToggleArea(t)
  BY <1>9 DEF ToggleArea
<1>10. CASE EndIO(t)
  BY <1>10 DEF EndIO
<1>11. CASE PlcReady(t)
  BY <1>11 DEF PlcReady
<1>12. CASE PlcActivate(t)
  BY <1>12 DEF PlcActivate
<1>13. CASE StartSync(t)
  BY <1>13 DEF StartSync
<1>14. CASE ReadSync(t)
  BY <1>14 DEF ReadSync
<1>15. CASE StoreSync(t)
  BY <1>15 DEF StoreSync
<1>16. CASE EvalSync(t)
  BY <1>16 DEF EvalSync
<1>17. CASE WaitSync(t)
  BY <1>17 DEF WaitSync
<1>18. CASE SyncTimeout(t)
  BY <1>18 DEF SyncTimeout
<1>19. CASE ToggleSync(t)
  BY <1>19 DEF ToggleSync
<1>20. CASE Register(t)
  BY <1>20 DEF Register
<1>21. CASE Report(t)
  BY <1>21 DEF Report
<1>22. CASE Unregister(t)
  BY <1>22 DEF Unregister
<1> QED
  BY <1>1, <1>2, <1>3, <1>4, <1>5, <1>6, <1>7, <1>8, <1>9, <1>10, <1>11, <1>12, <1>13, <1>14,
     <1>15, <1>16, <1>17, <1>18, <1>19, <1>20, <1>21, <1>22 DEF Step

(* Where the steps of a thread lead. *)
LEMMA ThreadMoves ==
  ASSUME TypeTh, NEW t \in Thread, Call(t) \/ Step(t)
  PROVE  /\ \A u \in Thread : u # t => th'[u] = th[u]
         /\ \/ th'[t].pc \notin CopyLabel \/ th'[t].st = "NONE"
            \/ EvalBit(t) \/ WaitTimeout(t) \/ Copy(t) \/ PlcReady(t)
         /\ th'[t].pc \notin {"copy2", "toggle"} \/ Copy(t)
         /\ th'[t].pc # "syncToggle" \/ EvalSync(t) \/ SyncTimeout(t)
<1>1. \A u \in Thread : u # t => th'[u] = th[u]
  <2>1. PICK l : Loc(t, l)
    <3> USE DEF Goto, Return
    <3>1. CASE Call(t)
      BY <3>1, Zenon DEF Call
    <3>2. CASE StartIO(t)
      BY <3>2, Zenon DEF StartIO
    <3>3. CASE TakeMutex(t)
      BY <3>3, Zenon DEF TakeMutex
    <3>4. CASE ReadBit(t)
      BY <3>4, Zenon DEF ReadBit
    <3>5. CASE EvalBit(t)
      BY <3>5, Zenon DEF EvalBit
    <3>6. CASE WaitBit(t)
      BY <3>6, Zenon DEF WaitBit
    <3>7. CASE WaitTimeout(t)
      BY <3>7, Zenon DEF WaitTimeout
    <3>8. CASE Copy(t)
      BY <3>8, Zenon DEF Copy, CopyUnit
    <3>9. CASE ToggleArea(t)
      BY <3>9, Zenon DEF ToggleArea
    <3>10. CASE EndIO(t)
      BY <3>10, Zenon DEF EndIO
    <3>11. CASE PlcReady(t)
      BY <3>11, Zenon DEF PlcReady
    <3>12. CASE PlcActivate(t)
      BY <3>12, Zenon DEF PlcActivate
    <3>13. CASE StartSync(t)
      BY <3>13, Zenon DEF StartSync
    <3>14. CASE ReadSync(t)
      BY <3>14, Zenon DEF ReadSync
    <3>15. CASE StoreSync(t)
      BY <3>15, Zenon DEF StoreSync
    <3>16. CASE EvalSync(t)
      BY <3>16, Zenon DEF EvalSync
    <3>17. CASE WaitSync(t)
      BY <3>17, Zenon DEF WaitSync
    <3>18. CASE SyncTimeout(t)
      BY <3>18, Zenon DEF SyncTimeout
    <3>19. CASE ToggleSync(t)
      BY <3>19, Zenon DEF ToggleSync
    <3>20. CASE Register(t)
      BY <3>20, Zenon DEF Register
    <3>21. CASE Report(t)
      BY <3>21, Zenon DEF Report
    <3>22. CASE Unregister(t)
      BY <3>22, Zenon DEF Unregister
    <3> QED
      BY <3>1, <3>2, <3>3, <3>4, <3>5, <3>6, <3>7, <3>8, <3>9, <3>10, <3>11, <3>12, <3>13, <3>14,
         <3>15, <3>16, <3>17, <3>18, <3>19, <3>20, <3>21, <3>22 DEF Step
  <2> QED
    BY <2>1 DEF Loc, TypeTh
<1> USE GotoFact, ReturnFact DEF CopyLabel
<1>2. CASE Call(t)
  BY <1>1, <1>2, CallFact
<1>3. CASE StartIO(t)
  BY <1>1, <1>3, StartIOFact
<1>4. CASE TakeMutex(t)
  BY <1>1, <1>4, TakeMutexFact
<1>5. CASE ReadBit(t)
  BY <1>1, <1>5 DEF ReadBit
<1>6. CASE EvalBit(t)
  BY <1>1, <1>6 DEF EvalBit
<1>7. CASE WaitBit(t)
  BY <1>1, <1>7 DEF WaitBit
<1>8. CASE WaitTimeout(t)
  BY <1>1, <1>8 DEF WaitTimeout
<1>9. CASE Copy(t)
  BY <1>1, <1>9, CopyFact
<1>10. CASE ToggleArea(t)
  BY <1>1, <1>10 DEF ToggleArea
<1>11. CASE EndIO(t)
  BY <1>1, <1>11 DEF EndIO
<1>12. CASE PlcReady(t)
  BY <1>1, <1>12, PlcReadyFact
<1>13. CASE PlcActivate(t)
  BY <1>1, <1>13 DEF PlcActivate
<1>14. CASE StartSync(t)
  BY <1>1, <1>14 DEF StartSync
<1>15. CASE ReadSync(t)
  BY <1>1, <1>15, ReadSyncFact
<1>16. CASE StoreSync(t)
  BY <1>1, <1>16 DEF StoreSync
<1>17. CASE EvalSync(t)
  BY <1>1, <1>17 DEF EvalSync
<1>18. CASE WaitSync(t)
  BY <1>1, <1>18 DEF WaitSync
<1>19. CASE SyncTimeout(t)
  BY <1>1, <1>19 DEF SyncTimeout
<1>20. CASE ToggleSync(t)
  BY <1>1, <1>20 DEF ToggleSync
<1>21. CASE Register(t)
  BY <1>1, <1>21 DEF Register
<1>22. CASE Report(t)
  BY <1>1, <1>22 DEF Report
<1>23. CASE Unregister(t)
  BY <1>1, <1>23 DEF Unregister
<1> QED
  BY <1>2, <1>3, <1>4, <1>5, <1>6, <1>7, <1>8, <1>9, <1>10, <1>11, <1>12, <1>13, <1>14, <1>15,
     <1>16, <1>17, <1>18, <1>19, <1>20, <1>21, <1>22, <1>23 DEF Step

(* What is known of the device's bit of a slot is a number of toggles. *)
LEMMA SeenType ==
  ASSUME TypeFlags, TypeSync, NEW s \in Slot
  PROVE  Seen(s) \in Nat
  BY IOAssumption DEF Seen, SlotBit, Slot, TypeFlags, TypeSync, Bit, Area, IoChannel, Channel

(* A callback that is about to be called belongs to a slot. *)
LEMMA DsrCallSlot ==
  ASSUME TypeDsr, NotifyInv, irq.st \in {"syncCall", "bitCall"}, NEW x \in First
  PROVE  DsrSlot(x) \in Slot
<1>1. CASE irq.st = "syncCall"
  <2>1. x \in Nat /\ x <= 0
    BY <1>1, IOAssumption DEF First, Todo, SyncPhase, Rank, NotifyInv, IoChannel, TypeDsr,
       IrqLocals, Channel
  <2> QED
    BY <1>1, <2>1 DEF DsrSlot, SyncPhase, IoChannel, Slot
<1>2. CASE irq.st = "bitCall"
  BY <1>2 DEF DsrSlot, SyncPhase, Slot
<1> QED
  BY <1>1, <1>2


-----------------------------------------------------------------------------
(* Whose turn it is.                                                        *)

(* If two counts of toggles differ as little as those of host and device,   *)
(* comparing their parities tells whose turn it is.                         *)
LEMMA ParityFact ==
  ASSUME NEW m \in {"EQUAL", "NOT_EQUAL"}, NEW h \in Nat, NEW n \in Nat,
         n <= h + (IF m = "NOT_EQUAL" THEN 1 ELSE 0),
         h + (IF m = "NOT_EQUAL" THEN 1 ELSE 0) <= n + 1
  PROVE  HasState(m, h, n) <=> n = h + (IF m = "NOT_EQUAL" THEN 1 ELSE 0)
<1>1. CASE n = h
  BY <1>1 DEF HasState, Unequal
<1>2. CASE n = h + 1
  <2>1. n % 2 # h % 2
    BY <1>2
  <2> QED
    BY <1>2, <2>1 DEF HasState, Unequal
<1>3. CASE h = n + 1
  <2>1. n % 2 # h % 2
    BY <1>3
  <2> QED
    BY <1>3, <2>1 DEF HasState, Unequal
<1> QED
  BY <1>1, <1>2, <1>3

(* The host's turn, judged by the cached flags or by the DPM. *)
LEMMA TurnFact ==
  ASSUME TypeSc, TypeFlags, LagInv, NEW a \in Area, mode[a] # "NONE"
  PROVE  /\ HasState(mode[a], usHostFlags[a], usNetxFlags[a]) <=> usNetxFlags[a] = Turn(a)
         /\ HasState(mode[a], usHostFlags[a], cellNetx[a]) <=> cellNetx[a] = Turn(a)
<1>1. mode[a] \in {"EQUAL", "NOT_EQUAL"}
  BY ScenarioFact DEF mode, Mode
<1>2. usHostFlags[a] \in Nat /\ usNetxFlags[a] \in Nat /\ cellNetx[a] \in Nat
  BY DEF TypeFlags, Bit
<1>3. Turn(a) = usHostFlags[a] + (IF mode[a] = "NOT_EQUAL" THEN 1 ELSE 0)
  BY DEF Turn, Ahead
<1>4. /\ usNetxFlags[a] <= Turn(a) /\ Turn(a) <= usNetxFlags[a] + 1
      /\ cellNetx[a] <= Turn(a) /\ Turn(a) <= cellNetx[a] + 1
  BY <1>2, <1>3 DEF LagInv
<1> QED
  BY <1>1, <1>2, <1>3, <1>4, ParityFact

(* The device works on an area only before the host's turn. *)
LEMMA OwnerFact ==
  ASSUME TypeSc, TypeFlags, LagInv, NEW a \in Area, DeviceOwns(a)
  PROVE  mode[a] # "NONE" /\ cellNetx[a] < Turn(a)
<1>1. mode[a] # "NONE" /\ cellNetx[a] # Turn(a)
  BY TurnFact DEF DeviceOwns
<1>2. usHostFlags[a] \in Nat /\ cellNetx[a] \in Nat
  BY DEF TypeFlags, Bit
<1>3. cellNetx[a] <= Turn(a)
  BY <1>1 DEF LagInv
<1> QED
  BY <1>1, <1>2, <1>3 DEF Turn, Ahead

(* Two threads do not work on the same area at the same time. *)
LEMMA Exclusive ==
  ASSUME TypeSc, TypeTh, FlowInv, MutexInv, NEW t \in Thread, NEW u \in Thread, t # u,
         th[t].pc \in CopyLabel, th[u].pc \in CopyLabel
  PROVE  AreaOf(t) # AreaOf(u)
<1>1. /\ th[t].op \in {"Read", "Write", "PlcRead", "PlcWrite"} /\ th[t].op \in sc.plan[t]
      /\ th[u].op \in {"Read", "Write", "PlcRead", "PlcWrite"} /\ th[u].op \in sc.plan[u]
  BY DEF FlowInv, FlowAt, CopyLabel
<1>2. CASE th[t].op \in {"Read", "Write"} /\ th[u].op \in {"Read", "Write"}
  BY <1>2 DEF MutexInv, CopyLabel, LockedLabel
<1>3. CASE th[t].op \in {"PlcRead", "PlcWrite"} \/ th[u].op \in {"PlcRead", "PlcWrite"}
  <2>1. sc \in Scenario
    BY DEF TypeSc
  <2>2. /\ "PlcRead" \in sc.plan[t] => sc.plan[u] \cap {"Read", "PlcRead"} = {}
        /\ "PlcWrite" \in sc.plan[t] => sc.plan[u] \cap {"Write", "PlcWrite"} = {}
        /\ "PlcRead" \in sc.plan[u] => sc.plan[t] \cap {"Read", "PlcRead"} = {}
        /\ "PlcWrite" \in sc.plan[u] => sc.plan[t] \cap {"Write", "PlcWrite"} = {}
    BY <2>1, UsageAssumption
  <2> QED
    BY <1>1, <1>3, <2>2 DEF AreaOf
<1> QED
  BY <1>1, <1>2, <1>3

(* The scenario does not change. *)
LEMMA TypeScStep ==
  ASSUME IOInv, [Next]_vars
  PROVE  TypeSc'
<1>0. TypeSc
  BY TypeParts DEF IOInv
<1>1. ASSUME UNCHANGED <<sc>> PROVE TypeSc'
  BY <1>1, <1>0 DEF TypeSc
<1> QED
  <2>1. ASSUME NEW t \in Thread, Call(t) \/ Step(t) PROVE TypeSc'
    BY <2>1, <1>1, ThreadFrame
  <2>2. CASE Interrupt
    BY <2>2, <1>1, InterruptFrame
  <2>3. CASE Device
    BY <2>3, <1>1, DeviceFrame
  <2>4. CASE UNCHANGED vars
    BY <2>4, <1>1 DEF vars, devVars, hostVars, fixed, areas, histVars
  <2> QED
    BY <2>1, <2>2, <2>3, <2>4 DEF Next

(* irqPending and running stay Boolean. *)
LEMMA TypeMiscStep ==
  ASSUME IOInv, [Next]_vars
  PROVE  TypeMisc'
<1>0. TypeMisc
  BY TypeParts DEF IOInv
<1> USE DEF TypeMisc, SyncSame, SlotsSame, Elsewhere, IrqOnly, DevOnly, areas, fixed, histVars,
   hostVars
<1>1. ASSUME Isr PROVE TypeMisc'
  BY <1>1, <1>0 DEF Isr
<1>2. ASSUME DeviceIn PROVE TypeMisc'
  BY <1>2, <1>0, Zenon DEF DeviceIn, HandOver
<1>3. ASSUME DeviceOut PROVE TypeMisc'
  BY <1>3, <1>0, Zenon DEF DeviceOut, HandOver
<1>4. ASSUME DeviceSync PROVE TypeMisc'
  BY <1>4, <1>0 DEF DeviceSync
<1>5. ASSUME DeviceChange PROVE TypeMisc'
  BY <1>5, <1>0 DEF DeviceChange, HandOver
<1>6. ASSUME UNCHANGED <<irqPending, running>> PROVE TypeMisc'
  BY <1>6, <1>0
<1> HIDE DEF TypeMisc, SyncSame, SlotsSame, Elsewhere, IrqOnly, DevOnly, areas, fixed, histVars,
   hostVars
<1> QED
  <2>1. ASSUME NEW t \in Thread, Call(t) \/ Step(t) PROVE TypeMisc'
    BY <2>1, <1>6, ThreadFrame
  <2>2. CASE Interrupt
    BY <2>2, <1>1, <1>6, InterruptFrame DEF Interrupt, DsrSync, DsrFlags, DsrTest, DsrCall,
       DsrEnd, SyncSame, SlotsSame, Elsewhere, IrqOnly, DevOnly, CopyUnit, areas, histVars,
       hostVars
  <2>3. CASE Device
    BY <2>3, <1>2, <1>3, <1>4, <1>5, <1>6 DEF Device
  <2>4. CASE UNCHANGED vars
    BY <2>4, <1>6 DEF vars, devVars, hostVars, fixed, areas, histVars
  <2> QED
    BY <2>1, <2>2, <2>3, <2>4 DEF Next

(* The bounds are kept. *)
LEMMA TypeUsedStep ==
  ASSUME IOInv, [Next]_vars
  PROVE  TypeUsed'
<1>0. TypeUsed /\ TypeSc
  BY TypeParts DEF IOInv
<1> USE DEF TypeUsed, SyncSame, SlotsSame, Elsewhere, IrqOnly, DevOnly, areas, fixed, histVars,
   hostVars
<1>1. ASSUME NEW t \in Thread, Call(t) PROVE TypeUsed'
  <2>1. MaxCalls \in Nat
    BY IOAssumption
  <2> QED
    BY <1>1, <1>0, <2>1 DEF Call
<1>2. ASSUME DeviceChange PROVE TypeUsed'
  <2>1. sc.changes \in Nat
    BY <1>0, ScenarioFact
  <2> QED
    BY <1>2, <1>0, <2>1 DEF DeviceChange
<1>3. ASSUME UNCHANGED <<calls, changes, sc>> PROVE TypeUsed'
  BY <1>3, <1>0
<1> HIDE DEF TypeUsed, SyncSame, SlotsSame, Elsewhere, IrqOnly, DevOnly, areas, fixed, histVars,
   hostVars
<1> QED
  <2>1. ASSUME NEW t \in Thread, Call(t) \/ Step(t) PROVE TypeUsed'
    BY <2>1, <1>1, <1>3, ThreadFrame, ThreadChanges
  <2>2. CASE Interrupt
    BY <2>2, <1>3, InterruptFrame
  <2>3. CASE Device
    BY <2>3, <1>2, <1>3, DeviceFrame DEF Device, DeviceIn, DeviceOut, DeviceSync, SyncSame,
       SlotsSame, Elsewhere, IrqOnly, DevOnly, CopyUnit, areas, histVars, hostVars
  <2>4. CASE UNCHANGED vars
    BY <2>4, <1>3 DEF vars, devVars, hostVars, fixed, areas, histVars
  <2> QED
    BY <2>1, <2>2, <2>3, <2>4 DEF Next

(* The areas and the copies of the device keep their types. *)
LEMMA TypeAreasStep ==
  ASSUME IOInv, [Next]_vars
  PROVE  TypeAreas'
<1>0. TypeAreas /\ TypeFlags
  BY TypeParts DEF IOInv
<1> USE DEF TypeAreas, OutUnit, Unit, SyncSame, SlotsSame, Elsewhere, IrqOnly, DevOnly, areas,
   fixed, histVars, hostVars
<1>1. ASSUME NEW t \in Thread, Copy(t) PROVE TypeAreas'
  BY <1>1, <1>0 DEF Copy, CopyUnit, TypeFlags, Area, Bit
<1>2. ASSUME DeviceIn PROVE TypeAreas'
  BY <1>2, <1>0 DEF DeviceIn, HandOver, TypeFlags, Area, Bit
<1>3. ASSUME DeviceOut PROVE TypeAreas'
  BY <1>3, <1>0 DEF DeviceOut, HandOver
<1>4. ASSUME UNCHANGED <<inArea, outArea, devIn, devOut>> PROVE TypeAreas'
  BY <1>4, <1>0
<1> HIDE DEF TypeAreas, OutUnit, Unit, SyncSame, SlotsSame, Elsewhere, IrqOnly, DevOnly, areas,
   fixed, histVars, hostVars
<1> QED
  <2>1. ASSUME NEW t \in Thread, Call(t) \/ Step(t) PROVE TypeAreas'
    BY <2>1, <1>1, <1>4, ThreadFrame, ThreadChanges
  <2>2. CASE Interrupt
    BY <2>2, <1>4, InterruptFrame
  <2>3. CASE Device
    BY <2>3, <1>2, <1>3, <1>4, DeviceFrame DEF Device, DeviceSync, DeviceChange, SyncSame,
       SlotsSame, Elsewhere, IrqOnly, DevOnly, CopyUnit, areas, histVars, hostVars
  <2>4. CASE UNCHANGED vars
    BY <2>4, <1>4 DEF vars, devVars, hostVars, fixed, areas, histVars
  <2> QED
    BY <2>1, <2>2, <2>3, <2>4 DEF Next

(* The flags keep their types. *)
LEMMA TypeFlagsStep ==
  ASSUME IOInv, [Next]_vars
  PROVE  TypeFlags'
<1>0. TypeFlags /\ TypeDsr
  BY TypeParts DEF IOInv
<1> USE DEF TypeFlags, ReadFlags, SyncSame, SlotsSame, Elsewhere, IrqOnly, DevOnly, areas, fixed,
   histVars, hostVars
<1>1. ASSUME NEW t \in Thread, StartIO(t) PROVE TypeFlags'
  BY <1>1, <1>0 DEF StartIO
<1>2. ASSUME NEW t \in Thread, ReadBit(t) PROVE TypeFlags'
  BY <1>2, <1>0 DEF ReadBit
<1>3. ASSUME NEW t \in Thread, ToggleArea(t) PROVE TypeFlags'
  BY <1>3, <1>0 DEF ToggleArea, AreaOf, Area
<1>4. ASSUME NEW t \in Thread, EndIO(t) PROVE TypeFlags'
  BY <1>4, <1>0 DEF EndIO
<1>5. ASSUME NEW t \in Thread, PlcReady(t) PROVE TypeFlags'
  BY <1>5, <1>0 DEF PlcReady
<1>6. ASSUME NEW t \in Thread, PlcActivate(t) PROVE TypeFlags'
  BY <1>6, <1>0 DEF PlcActivate, AreaOf, Area
<1>7. ASSUME NEW t \in Thread, StoreSync(t) PROVE TypeFlags'
  BY <1>7, <1>0 DEF StoreSync
<1>8. ASSUME NEW t \in Thread, ToggleSync(t) PROVE TypeFlags'
  BY <1>8, <1>0 DEF ToggleSync
<1>9. ASSUME DsrFlags PROVE TypeFlags'
  BY <1>9, <1>0 DEF DsrFlags, TypeDsr, IrqLocals
<1>10. ASSUME DeviceIn PROVE TypeFlags'
  BY <1>10, <1>0 DEF DeviceIn, HandOver, Bit, Area
<1>11. ASSUME DeviceOut PROVE TypeFlags'
  BY <1>11, <1>0 DEF DeviceOut, HandOver, Bit, Area
<1>12. ASSUME DeviceChange PROVE TypeFlags'
  BY <1>12, <1>0 DEF DeviceChange, HandOver, Bit, Area
<1>13. ASSUME UNCHANGED <<cellNetx, usHostFlags, usNetxFlags>> PROVE TypeFlags'
  BY <1>13, <1>0
<1> HIDE DEF TypeFlags, ReadFlags, SyncSame, SlotsSame, Elsewhere, IrqOnly, DevOnly, areas, fixed,
   histVars, hostVars
<1> QED
  <2>1. ASSUME NEW t \in Thread, Call(t) \/ Step(t) PROVE TypeFlags'
    BY <2>1, <1>1, <1>2, <1>3, <1>4, <1>5, <1>6, <1>7, <1>8, <1>13, ThreadFrame, ThreadChanges
  <2>2. CASE Interrupt
    BY <2>2, <1>9, <1>13, InterruptFrame DEF Interrupt, Isr, DsrSync, DsrTest, DsrCall, DsrEnd,
       SyncSame, SlotsSame, Elsewhere, IrqOnly, DevOnly, CopyUnit, areas, histVars, hostVars
  <2>3. CASE Device
    BY <2>3, <1>10, <1>11, <1>12, <1>13, DeviceFrame DEF Device, DeviceSync, SyncSame, SlotsSame,
       Elsewhere, IrqOnly, DevOnly, CopyUnit, areas, histVars, hostVars
  <2>4. CASE UNCHANGED vars
    BY <2>4, <1>13 DEF vars, devVars, hostVars, fixed, areas, histVars
  <2> QED
    BY <2>1, <2>2, <2>3, <2>4 DEF Next

(* The sync flags keep their types. *)
LEMMA TypeSyncStep ==
  ASSUME IOInv, [Next]_vars
  PROVE  TypeSync'
<1>0. TypeSync /\ TypeDsr /\ TypeTh
  BY TypeParts DEF IOInv
<1> USE DEF TypeSync, SyncSame, SlotsSame, Elsewhere, IrqOnly, DevOnly, areas, fixed, histVars,
   hostVars
<1>1. ASSUME NEW t \in Thread, StoreSync(t) PROVE TypeSync'
  BY <1>1, <1>0 DEF StoreSync, TypeTh, Locals
<1>2. ASSUME NEW t \in Thread, ToggleSync(t) PROVE TypeSync'
  BY <1>2, <1>0, IOAssumption DEF ToggleSync
<1>3. ASSUME DsrSync PROVE TypeSync'
  BY <1>3, <1>0 DEF DsrSync, TypeDsr, IrqLocals
<1>4. ASSUME DeviceSync PROVE TypeSync'
  BY <1>4, <1>0 DEF DeviceSync
<1>5. ASSUME UNCHANGED <<cellSync, usHSyncFlags, usNSyncFlags>> PROVE TypeSync'
  BY <1>5, <1>0
<1> HIDE DEF TypeSync, SyncSame, SlotsSame, Elsewhere, IrqOnly, DevOnly, areas, fixed, histVars,
   hostVars
<1> QED
  <2>1. ASSUME NEW t \in Thread, Call(t) \/ Step(t) PROVE TypeSync'
    BY <2>1, <1>1, <1>2, <1>5, ThreadFrame, ThreadChanges
  <2>2. CASE Interrupt
    BY <2>2, <1>3, <1>5, InterruptFrame DEF Interrupt, Isr, DsrFlags, DsrTest, DsrCall, DsrEnd,
       SyncSame, SlotsSame, Elsewhere, IrqOnly, DevOnly, CopyUnit, areas, histVars, hostVars
  <2>3. CASE Device
    BY <2>3, <1>4, <1>5, DeviceFrame DEF Device, DeviceIn, DeviceOut, DeviceChange, SyncSame,
       SlotsSame, Elsewhere, IrqOnly, DevOnly, CopyUnit, areas, histVars, hostVars
  <2>4. CASE UNCHANGED vars
    BY <2>4, <1>5 DEF vars, devVars, hostVars, fixed, areas, histVars
  <2> QED
    BY <2>1, <2>2, <2>3, <2>4 DEF Next

(* Only events of bits and channels are set. *)
LEMMA TypeEventsStep ==
  ASSUME IOInv, [Next]_vars
  PROVE  TypeEvents'
<1>0. TypeEvents /\ TypeDsr
  BY TypeParts DEF IOInv
<1> USE DEF TypeEvents, SyncSame, SlotsSame, Elsewhere, IrqOnly, DevOnly, areas, fixed, histVars,
   hostVars
<1>1. ASSUME NEW t \in Thread, WaitBit(t) PROVE TypeEvents'
  BY <1>1, <1>0 DEF WaitBit
<1>2. ASSUME NEW t \in Thread, WaitSync(t) PROVE TypeEvents'
  BY <1>2, <1>0 DEF WaitSync
<1>3. ASSUME DsrTest PROVE TypeEvents'
  BY <1>3, <1>0 DEF DsrTest, DsrEvent, First, Todo, SyncPhase, TypeDsr, IrqLocals, DsrState
<1>4. ASSUME DsrCall PROVE TypeEvents'
  BY <1>4, <1>0 DEF DsrCall, DsrEvent, First, Todo, SyncPhase, TypeDsr, IrqLocals, DsrState
<1>5. ASSUME UNCHANGED <<events>> PROVE TypeEvents'
  BY <1>5, <1>0
<1> HIDE DEF TypeEvents, SyncSame, SlotsSame, Elsewhere, IrqOnly, DevOnly, areas, fixed, histVars,
   hostVars
<1> QED
  <2>1. ASSUME NEW t \in Thread, Call(t) \/ Step(t) PROVE TypeEvents'
    BY <2>1, <1>1, <1>2, <1>5, ThreadFrame, ThreadChanges
  <2>2. CASE Interrupt
    BY <2>2, <1>3, <1>4, <1>5, InterruptFrame DEF Interrupt, Isr, DsrSync, DsrFlags, DsrEnd,
       SyncSame, SlotsSame, Elsewhere, IrqOnly, DevOnly, CopyUnit, areas, histVars, hostVars
  <2>3. CASE Device
    BY <2>3, <1>5, DeviceFrame
  <2>4. CASE UNCHANGED vars
    BY <2>4, <1>5 DEF vars, devVars, hostVars, fixed, areas, histVars
  <2> QED
    BY <2>1, <2>2, <2>3, <2>4 DEF Next

(* The mutexes keep their type. *)
LEMMA TypeMutexStep ==
  ASSUME IOInv, [Next]_vars
  PROVE  TypeMutex'
<1>0. TypeMutex
  BY TypeParts DEF IOInv
<1> USE DEF TypeMutex, AreaOf, Area, SyncSame, SlotsSame, Elsewhere, IrqOnly, DevOnly, areas,
   fixed, histVars, hostVars
<1>1. ASSUME NEW t \in Thread, TakeMutex(t) PROVE TypeMutex'
  BY <1>1, <1>0 DEF TakeMutex
<1>2. ASSUME NEW t \in Thread, EvalBit(t) PROVE TypeMutex'
  BY <1>2, <1>0 DEF EvalBit
<1>3. ASSUME NEW t \in Thread, WaitTimeout(t) PROVE TypeMutex'
  BY <1>3, <1>0 DEF WaitTimeout
<1>4. ASSUME NEW t \in Thread, EndIO(t) PROVE TypeMutex'
  BY <1>4, <1>0 DEF EndIO
<1>5. ASSUME UNCHANGED <<mutex>> PROVE TypeMutex'
  BY <1>5, <1>0
<1> HIDE DEF TypeMutex, AreaOf, Area, SyncSame, SlotsSame, Elsewhere, IrqOnly, DevOnly, areas,
   fixed, histVars, hostVars
<1> QED
  <2>1. ASSUME NEW t \in Thread, Call(t) \/ Step(t) PROVE TypeMutex'
    BY <2>1, <1>1, <1>2, <1>3, <1>4, <1>5, ThreadFrame, ThreadChanges
  <2>2. CASE Interrupt
    BY <2>2, <1>5, InterruptFrame
  <2>3. CASE Device
    BY <2>3, <1>5, DeviceFrame
  <2>4. CASE UNCHANGED vars
    BY <2>4, <1>5 DEF vars, devVars, hostVars, fixed, areas, histVars
  <2> QED
    BY <2>1, <2>2, <2>3, <2>4 DEF Next

(* The callback slots and their history keep their types. *)
LEMMA TypeSlotsStep ==
  ASSUME IOInv, [Next]_vars
  PROVE  TypeSlots'
<1>0. TypeSlots /\ TypeSc /\ TypeFlags /\ TypeSync /\ TypeDsr /\ NotifyInv
  BY TypeParts DEF IOInv
<1> USE DEF TypeSlots, SyncSame, SlotsSame, Elsewhere, IrqOnly, DevOnly, areas, fixed, histVars,
   hostVars
<1>1. ASSUME NEW t \in Thread, Register(t) PROVE TypeSlots'
  <2>1. sc.slot \in Slot
    BY <1>0, ScenarioFact
  <2> QED
    BY <1>1, <1>0, <2>1 DEF Register
<1>2. ASSUME NEW t \in Thread, Report(t) PROVE TypeSlots'
  <2>1. sc.slot \in Slot /\ Seen(sc.slot) \in Nat
    BY <1>0, ScenarioFact, SeenType
  <2> QED
    BY <1>2, <1>0, <2>1 DEF Report
<1>3. ASSUME NEW t \in Thread, Unregister(t) PROVE TypeSlots'
  <2>1. sc.slot \in Slot
    BY <1>0, ScenarioFact
  <2>2. pfn[sc.slot] # 0 => pfn[sc.slot] \in 1 .. regs
    BY <1>0, <2>1 DEF NotifyInv
  <2>3. /\ UNCHANGED <<regs, told>>
        /\ \/ UNCHANGED <<pfn, pvUser, gone>>
           \/ /\ pfn[sc.slot] # 0 /\ pfn' = [pfn EXCEPT ![sc.slot] = 0]
              /\ pvUser' = [pvUser EXCEPT ![sc.slot] = 0] /\ gone' = gone \cup {pfn[sc.slot]}
    BY <1>3 DEF Unregister, ClearedPfn
  <2>4. CASE UNCHANGED <<pfn, pvUser, gone>>
    BY <1>0, <2>3, <2>4
  <2>5. CASE pfn[sc.slot] # 0 /\ gone' = gone \cup {pfn[sc.slot]}
    <3>1. gone' \subseteq 1 .. regs'
      BY <1>0, <2>2, <2>3, <2>5
    <3>2. pfn' \in [Slot -> Nat] /\ pvUser' \in [Slot -> Nat]
      BY <1>0, <2>3
    <3> QED
      BY <1>0, <2>3, <3>1, <3>2
  <2> QED
    BY <2>3, <2>4, <2>5
<1>4. ASSUME DsrCall PROVE TypeSlots'
  <2>1. irq.st \in {"syncCall", "bitCall"} /\ UNCHANGED <<pfn, pvUser, regs, gone>>
    BY <1>4 DEF DsrCall
  <2>2. PICK x \in First : told' = told \/ told' = [told EXCEPT ![DsrSlot(x)] = Seen(DsrSlot(x)) + 1]
    BY <1>4 DEF DsrCall
  <2>3. DsrSlot(x) \in Slot
    BY <1>0, <2>1, DsrCallSlot
  <2>4. Seen(DsrSlot(x)) \in Nat
    BY <1>0, <2>3, SeenType
  <2> QED
    BY <1>0, <2>1, <2>2, <2>3, <2>4
<1>5. ASSUME UNCHANGED <<pfn, pvUser, regs, told, gone>> PROVE TypeSlots'
  BY <1>5, <1>0
<1> HIDE DEF TypeSlots, SyncSame, SlotsSame, Elsewhere, IrqOnly, DevOnly, areas, fixed, histVars,
   hostVars
<1> QED
  <2>1. ASSUME NEW t \in Thread, Call(t) \/ Step(t) PROVE TypeSlots'
    BY <2>1, <1>1, <1>2, <1>3, <1>5, ThreadFrame, ThreadChanges
  <2>2. CASE Interrupt
    BY <2>2, <1>4, <1>5, InterruptFrame DEF Interrupt, Isr, DsrSync, DsrFlags, DsrTest, DsrEnd,
       SyncSame, SlotsSame, Elsewhere, IrqOnly, DevOnly, CopyUnit, areas, histVars, hostVars
  <2>3. CASE Device
    BY <2>3, <1>5, DeviceFrame
  <2>4. CASE UNCHANGED vars
    BY <2>4, <1>5 DEF vars, devVars, hostVars, fixed, areas, histVars
  <2> QED
    BY <2>1, <2>2, <2>3, <2>4 DEF Next

(* The locals of the threads keep their types. *)
LEMMA TypeThStep ==
  ASSUME IOInv, [Next]_vars
  PROVE  TypeTh'
<1>0. TypeTh /\ TypeSc /\ TypeFlags /\ TypeSync /\ TypeAreas
  BY TypeParts DEF IOInv
<1> USE DEF SyncSame, SlotsSame, Elsewhere, IrqOnly, DevOnly, areas, fixed, histVars, hostVars,
   Label, Result
<1>1. ASSUME NEW t \in Thread, Call(t) PROVE TypeTh'
  <2>1. \A o \in Op : [NoLocals EXCEPT !.pc = "start", !.op = o] \in Locals
    BY DEF NoLocals, Zero, Locals, Mode
  <2>2. sc.plan[t] \subseteq Op
    BY <1>0, ScenarioFact
  <2> QED
    BY <1>1, <1>0, <2>1, <2>2, LocType DEF Call
<1>2. ASSUME NEW t \in Thread, StartIO(t) PROVE TypeTh'
  <2>1. mode[AreaOf(t)] \in Mode
    BY <1>0, ScenarioFact DEF mode, AreaOf, Area
  <2>2. \A m \in Mode : [th[t] EXCEPT !.pc = "mutex", !.st = m] \in Locals
    BY <1>0, EditType
  <2> QED
    BY <1>2, <1>0, <2>1, <2>2, LocType DEF StartIO
<1>3. ASSUME NEW t \in Thread, TakeMutex(t) PROVE TypeTh'
  BY <1>3, <1>0, LocType DEF TakeMutex
<1>4. ASSUME NEW t \in Thread, ReadBit(t) PROVE TypeTh'
  BY <1>4, <1>0, LocType DEF ReadBit
<1>5. ASSUME NEW t \in Thread, EvalBit(t) PROVE TypeTh'
  BY <1>5, <1>0, LocType DEF EvalBit
<1>6. ASSUME NEW t \in Thread, WaitBit(t) PROVE TypeTh'
  BY <1>6, <1>0, LocType DEF WaitBit
<1>7. ASSUME NEW t \in Thread, WaitTimeout(t) PROVE TypeTh'
  BY <1>7, <1>0, LocType DEF WaitTimeout
<1>8. ASSUME NEW t \in Thread, Copy(t) PROVE TypeTh'
  <2>1. \A b \in [Unit -> Nat], l \in Label : [th[t] EXCEPT !.pc = l, !.buf = b] \in Locals
    BY <1>0, EditType
  <2>2. \A i \in Unit : [th[t].buf EXCEPT ![i] = inArea[i]] \in [Unit -> Nat]
    BY <1>0 DEF TypeTh, Locals, TypeAreas
  <2>3. PICK i \in Unit, l \in Label : CopyUnit(t, i, l)
    BY <1>8 DEF Copy, Unit
  <2>4. [th[t] EXCEPT !.pc = l, !.buf = [@ EXCEPT ![i] = inArea[i]]] \in Locals
    BY <2>1, <2>2
  <2> QED
    BY <1>0, <2>3, <2>4, LocType DEF CopyUnit
<1>9. ASSUME NEW t \in Thread, ToggleArea(t) PROVE TypeTh'
  BY <1>9, <1>0, LocType DEF ToggleArea
<1>10. ASSUME NEW t \in Thread, EndIO(t) PROVE TypeTh'
  BY <1>10, <1>0, LocType DEF EndIO, ComState
<1>11. ASSUME NEW t \in Thread, PlcReady(t) PROVE TypeTh'
  <2>1. mode[AreaOf(t)] \in Mode
    BY <1>0, ScenarioFact DEF mode, AreaOf, Area
  <2>2. \A m \in Mode : [th[t] EXCEPT !.pc = "copy1", !.st = m] \in Locals
    BY <1>0, EditType
  <2> QED
    BY <1>11, <1>0, <2>1, <2>2, LocType DEF PlcReady
<1>12. ASSUME NEW t \in Thread, PlcActivate(t) PROVE TypeTh'
  BY <1>12, <1>0, LocType DEF PlcActivate, ComState
<1>13. ASSUME NEW t \in Thread, StartSync(t) PROVE TypeTh'
  BY <1>13, <1>0, LocType DEF StartSync
<1>14. ASSUME NEW t \in Thread, ReadSync(t) PROVE TypeTh'
  <2>1. [th[t] EXCEPT !.pc = "syncStore", !.sync = cellSync] \in Locals
    BY <1>0, EditType DEF TypeSync
  <2> QED
    BY <1>14, <1>0, <2>1, LocType DEF ReadSync
<1>15. ASSUME NEW t \in Thread, StoreSync(t) PROVE TypeTh'
  BY <1>15, <1>0, LocType DEF StoreSync
<1>16. ASSUME NEW t \in Thread, EvalSync(t) PROVE TypeTh'
  BY <1>16, <1>0, LocType DEF EvalSync
<1>17. ASSUME NEW t \in Thread, WaitSync(t) PROVE TypeTh'
  BY <1>17, <1>0, LocType DEF WaitSync
<1>18. ASSUME NEW t \in Thread, SyncTimeout(t) PROVE TypeTh'
  BY <1>18, <1>0, LocType DEF SyncTimeout
<1>19. ASSUME NEW t \in Thread, ToggleSync(t) PROVE TypeTh'
  BY <1>19, <1>0, LocType DEF ToggleSync, ComState
<1>20. ASSUME NEW t \in Thread, Register(t) PROVE TypeTh'
  BY <1>20, <1>0, LocType DEF Register
<1>21. ASSUME NEW t \in Thread, Report(t) PROVE TypeTh'
  BY <1>21, <1>0, LocType DEF Report
<1>22. ASSUME NEW t \in Thread, Unregister(t) PROVE TypeTh'
  BY <1>22, <1>0, LocType DEF Unregister
<1>23. ASSUME UNCHANGED <<th>> PROVE TypeTh'
  BY <1>23, <1>0 DEF TypeTh
<1> HIDE DEF SyncSame, SlotsSame, Elsewhere, IrqOnly, DevOnly, areas, fixed, histVars, hostVars,
   Label, Result
<1> QED
  <2>1. ASSUME NEW t \in Thread, Call(t) \/ Step(t) PROVE TypeTh'
    BY <2>1, <1>1, <1>2, <1>3, <1>4, <1>5, <1>6, <1>7, <1>8, <1>9, <1>10, <1>11, <1>12, <1>13,
       <1>14, <1>15, <1>16, <1>17, <1>18, <1>19, <1>20, <1>21, <1>22, <1>23 DEF Step
  <2>2. CASE Interrupt
    BY <2>2, <1>23, InterruptFrame
  <2>3. CASE Device
    BY <2>3, <1>23, DeviceFrame
  <2>4. CASE UNCHANGED vars
    BY <2>4, <1>23 DEF vars, devVars, hostVars, fixed, areas, histVars
  <2> QED
    BY <2>1, <2>2, <2>3, <2>4 DEF Next

(* The locals of ISR and DSR keep their types. *)
LEMMA TypeDsrStep ==
  ASSUME IOInv, [Next]_vars
  PROVE  TypeDsr'
<1>0. TypeDsr /\ TypeFlags /\ TypeSync /\ TypeSlots /\ NotifyInv
  BY TypeParts DEF IOInv
<1> USE DEF TypeDsr, IrqLocals, DsrState
<1>1. ASSUME Isr PROVE TypeDsr'
  BY <1>1, <1>0 DEF Isr, TypeFlags, TypeSync
<1>2. ASSUME DsrSync PROVE TypeDsr'
  BY <1>2, <1>0 DEF DsrSync, ChangedSync
<1>3. ASSUME DsrFlags PROVE TypeDsr'
  BY <1>3, <1>0 DEF DsrFlags, ChangedBits, TypeFlags
<1>4. ASSUME DsrTest PROVE TypeDsr'
  <2>1. PICK x \in First : \/ irq' = Finished(x)
                           \/ /\ DsrSlot(x) # "none"
                              /\ irq' = [irq EXCEPT !.st = IF @ = "syncWork" THEN "syncCall" ELSE "bitCall",
                                                    !.pfn = pfn[DsrSlot(x)]]
    <3> HIDE DEF TypeDsr, IrqLocals, DsrState
    <3> QED
      BY <1>4, Zenon DEF DsrTest
  <2>2. DsrSlot(x) # "none" => pfn[DsrSlot(x)] \in Nat
    BY <1>0 DEF DsrSlot, TypeSlots, Slot
  <2>3. Finished(x) \in IrqLocals
    BY <1>0 DEF Finished
  <2>4. \A f \in Nat : [irq EXCEPT !.st = IF @ = "syncWork" THEN "syncCall" ELSE "bitCall",
                               !.pfn = f] \in IrqLocals
    BY <1>0
  <2>5. CASE irq' = Finished(x)
    BY <2>3, <2>5
  <2> QED
    BY <2>1, <2>2, <2>4, <2>5
<1>5. ASSUME DsrCall PROVE TypeDsr'
  <2>1. PICK x : irq' = [Finished(x) EXCEPT !.st = IF @ = "syncCall" THEN "syncWork" ELSE "bitWork",
                                              !.pfn = 0]
    <3> HIDE DEF TypeDsr, IrqLocals, DsrState
    <3> QED
      BY <1>5, Zenon DEF DsrCall
  <2>2. Finished(x) \in IrqLocals
    BY <1>0 DEF Finished
  <2>3. \A y \in IrqLocals, st \in DsrState : [y EXCEPT !.st = st, !.pfn = 0] \in IrqLocals
    OBVIOUS
  <2> QED
    BY <2>1, <2>2, <2>3
<1>6. ASSUME DsrEnd PROVE TypeDsr'
  BY <1>6, <1>0 DEF DsrEnd, NoIrq, Zero, Channel
<1>7. ASSUME UNCHANGED <<irq>> PROVE TypeDsr'
  BY <1>7, <1>0
<1> HIDE DEF TypeDsr, IrqLocals, DsrState
<1> QED
  <2>1. ASSUME NEW t \in Thread, Call(t) \/ Step(t) PROVE TypeDsr'
    BY <2>1, <1>7, ThreadFrame
  <2>2. CASE Interrupt
    BY <2>2, <1>1, <1>2, <1>3, <1>4, <1>5, <1>6, <1>7 DEF Interrupt
  <2>3. CASE Device
    BY <2>3, <1>7, DeviceFrame
  <2>4. CASE UNCHANGED vars
    BY <2>4, <1>7 DEF vars, devVars, hostVars, fixed, areas, histVars
  <2> QED
    BY <2>1, <2>2, <2>3, <2>4 DEF Next

(* A call keeps to its lines. *)
LEMMA FlowStep ==
  ASSUME IOInv, [Next]_vars
  PROVE  FlowInv'
<1>0. FlowInv /\ TypeTh /\ TypeSc
  BY TypeParts DEF IOInv
<1> USE DEF FlowInv, FlowAt, AreaOf, LockedLabel, CopyLabel, SyncLabel, mode, syncMode,
   fIrqEnabled, SyncSame, SlotsSame, Elsewhere, IrqOnly, DevOnly, areas, fixed, histVars, hostVars
<1>1. ASSUME NEW t \in Thread, Call(t) PROVE FlowInv'
  <2>1. sc' = sc
    BY <1>1 DEF Call
  <2> QED
    BY <1>0, <2>1, <1>1, CallFact
<1>2. ASSUME NEW t \in Thread, StartIO(t) PROVE FlowInv'
  <2>1. sc' = sc
    BY <1>2 DEF StartIO
  <2> QED
    BY <1>0, <2>1, <1>2, StartIOFact
<1>3. ASSUME NEW t \in Thread, TakeMutex(t) PROVE FlowInv'
  <2>1. sc' = sc
    BY <1>3 DEF TakeMutex
  <2> QED
    BY <1>0, <2>1, <1>3, TakeMutexFact
<1>4. ASSUME NEW t \in Thread, ReadBit(t) PROVE FlowInv'
  BY <1>4, <1>0, GotoFact, ReturnFact DEF ReadBit
<1>5. ASSUME NEW t \in Thread, EvalBit(t) PROVE FlowInv'
  BY <1>5, <1>0, GotoFact, ReturnFact DEF EvalBit
<1>6. ASSUME NEW t \in Thread, WaitBit(t) PROVE FlowInv'
  BY <1>6, <1>0, GotoFact, ReturnFact DEF WaitBit
<1>7. ASSUME NEW t \in Thread, WaitTimeout(t) PROVE FlowInv'
  BY <1>7, <1>0, GotoFact, ReturnFact DEF WaitTimeout
<1>8. ASSUME NEW t \in Thread, Copy(t) PROVE FlowInv'
  <2>1. sc' = sc
    BY <1>8 DEF Copy, CopyUnit
  <2> QED
    BY <1>0, <2>1, <1>8, CopyFact
<1>9. ASSUME NEW t \in Thread, ToggleArea(t) PROVE FlowInv'
  BY <1>9, <1>0, GotoFact, ReturnFact DEF ToggleArea
<1>10. ASSUME NEW t \in Thread, EndIO(t) PROVE FlowInv'
  BY <1>10, <1>0, GotoFact, ReturnFact DEF EndIO
<1>11. ASSUME NEW t \in Thread, PlcReady(t) PROVE FlowInv'
  <2>1. sc' = sc
    BY <1>11 DEF PlcReady
  <2> QED
    BY <1>0, <2>1, <1>11, PlcReadyFact
<1>12. ASSUME NEW t \in Thread, PlcActivate(t) PROVE FlowInv'
  BY <1>12, <1>0, GotoFact, ReturnFact DEF PlcActivate
<1>13. ASSUME NEW t \in Thread, StartSync(t) PROVE FlowInv'
  BY <1>13, <1>0, GotoFact, ReturnFact DEF StartSync, SyncOps
<1>14. ASSUME NEW t \in Thread, ReadSync(t) PROVE FlowInv'
  <2>1. sc' = sc
    BY <1>14 DEF ReadSync
  <2> QED
    BY <1>0, <2>1, <1>14, ReadSyncFact
<1>15. ASSUME NEW t \in Thread, StoreSync(t) PROVE FlowInv'
  BY <1>15, <1>0, GotoFact, ReturnFact DEF StoreSync
<1>16. ASSUME NEW t \in Thread, EvalSync(t) PROVE FlowInv'
  BY <1>16, <1>0, GotoFact, ReturnFact DEF EvalSync
<1>17. ASSUME NEW t \in Thread, WaitSync(t) PROVE FlowInv'
  BY <1>17, <1>0, GotoFact, ReturnFact DEF WaitSync
<1>18. ASSUME NEW t \in Thread, SyncTimeout(t) PROVE FlowInv'
  BY <1>18, <1>0, GotoFact, ReturnFact DEF SyncTimeout
<1>19. ASSUME NEW t \in Thread, ToggleSync(t) PROVE FlowInv'
  BY <1>19, <1>0, GotoFact, ReturnFact DEF ToggleSync
<1>20. ASSUME NEW t \in Thread, Register(t) PROVE FlowInv'
  BY <1>20, <1>0, GotoFact, ReturnFact DEF Register
<1>21. ASSUME NEW t \in Thread, Report(t) PROVE FlowInv'
  BY <1>21, <1>0, GotoFact, ReturnFact DEF Report
<1>22. ASSUME NEW t \in Thread, Unregister(t) PROVE FlowInv'
  BY <1>22, <1>0, GotoFact, ReturnFact DEF Unregister
<1>23. ASSUME UNCHANGED <<th, sc>> PROVE FlowInv'
  BY <1>23, <1>0
<1> HIDE DEF FlowInv, FlowAt, AreaOf, LockedLabel, CopyLabel, SyncLabel, mode, syncMode,
   fIrqEnabled, SyncSame, SlotsSame, Elsewhere, IrqOnly, DevOnly, areas, fixed, histVars, hostVars
<1> QED
  <2>1. ASSUME NEW t \in Thread, Call(t) \/ Step(t) PROVE FlowInv'
    BY <2>1, <1>1, <1>2, <1>3, <1>4, <1>5, <1>6, <1>7, <1>8, <1>9, <1>10, <1>11, <1>12, <1>13,
       <1>14, <1>15, <1>16, <1>17, <1>18, <1>19, <1>20, <1>21, <1>22, <1>23 DEF Step
  <2>2. CASE Interrupt
    BY <2>2, <1>23, InterruptFrame
  <2>3. CASE Device
    BY <2>3, <1>23, DeviceFrame
  <2>4. CASE UNCHANGED vars
    BY <2>4, <1>23 DEF vars, devVars, hostVars, fixed, areas, histVars
  <2> QED
    BY <2>1, <2>2, <2>3, <2>4 DEF Next

(* The mutex of an area is not lost while a thread works on it. *)
LEMMA MutexStep ==
  ASSUME IOInv, [Next]_vars
  PROVE  MutexInv'
<1>0. MutexInv /\ FlowInv /\ TypeTh /\ TypeMutex
  BY TypeParts DEF IOInv
<1> USE DEF MutexInv, AreaOf, LockedLabel, Area, SyncSame, SlotsSame, Elsewhere, IrqOnly, DevOnly,
   areas, fixed, histVars, hostVars
<1>1. ASSUME NEW t \in Thread, Call(t) PROVE MutexInv'
  <2>1. mutex' = mutex
    BY <1>1 DEF Call
  <2> QED
    BY <1>0, <2>1, <1>1, CallFact
<1>2. ASSUME NEW t \in Thread, StartIO(t) PROVE MutexInv'
  <2>1. mutex' = mutex
    BY <1>2 DEF StartIO
  <2> QED
    BY <1>0, <2>1, <1>2, StartIOFact
<1>3. ASSUME NEW t \in Thread, TakeMutex(t) PROVE MutexInv'
  BY <1>3, <1>0, TakeMutexFact, IOAssumption DEF TypeMutex
<1>4. ASSUME NEW t \in Thread, ReadBit(t) PROVE MutexInv'
  BY <1>4, <1>0, GotoFact, ReturnFact, IOAssumption DEF ReadBit
<1>5. ASSUME NEW t \in Thread, EvalBit(t) PROVE MutexInv'
  <2>1. th[t].op \in {"Read", "Write"} /\ mutex[AreaOf(t)] = t
    BY <1>5, <1>0 DEF FlowInv, FlowAt, EvalBit
  <2>2. \/ mutex' = mutex /\ ((\E l : Goto(t, l)) \/ \E r : Return(t, r))
        \/ mutex' = [mutex EXCEPT ![AreaOf(t)] = NoThread] /\ \E r : Return(t, r)
    BY <1>5 DEF EvalBit
  <2> QED
    BY <1>0, <2>1, <2>2, GotoFact, ReturnFact DEF TypeMutex
<1>6. ASSUME NEW t \in Thread, WaitBit(t) PROVE MutexInv'
  BY <1>6, <1>0, GotoFact, ReturnFact, IOAssumption DEF WaitBit
<1>7. ASSUME NEW t \in Thread, WaitTimeout(t) PROVE MutexInv'
  <2>1. th[t].op \in {"Read", "Write"} /\ mutex[AreaOf(t)] = t
    BY <1>7, <1>0 DEF FlowInv, FlowAt, WaitTimeout
  <2>2. \/ mutex' = mutex /\ ((\E l : Goto(t, l)) \/ \E r : Return(t, r))
        \/ mutex' = [mutex EXCEPT ![AreaOf(t)] = NoThread] /\ \E r : Return(t, r)
    BY <1>7 DEF WaitTimeout
  <2> QED
    BY <1>0, <2>1, <2>2, GotoFact, ReturnFact DEF TypeMutex
<1>8. ASSUME NEW t \in Thread, Copy(t) PROVE MutexInv'
  <2>1. mutex' = mutex
    BY <1>8 DEF Copy, CopyUnit
  <2> QED
    BY <1>0, <2>1, <1>8, CopyFact
<1>9. ASSUME NEW t \in Thread, ToggleArea(t) PROVE MutexInv'
  BY <1>9, <1>0, GotoFact, ReturnFact, IOAssumption DEF ToggleArea
<1>10. ASSUME NEW t \in Thread, EndIO(t) PROVE MutexInv'
  BY <1>10, <1>0, GotoFact, ReturnFact, IOAssumption DEF EndIO
<1>11. ASSUME NEW t \in Thread, PlcReady(t) PROVE MutexInv'
  <2>1. mutex' = mutex
    BY <1>11 DEF PlcReady
  <2> QED
    BY <1>0, <2>1, <1>11, PlcReadyFact
<1>12. ASSUME NEW t \in Thread, PlcActivate(t) PROVE MutexInv'
  BY <1>12, <1>0, GotoFact, ReturnFact, IOAssumption DEF PlcActivate
<1>13. ASSUME NEW t \in Thread, StartSync(t) PROVE MutexInv'
  BY <1>13, <1>0, GotoFact, ReturnFact, IOAssumption DEF StartSync
<1>14. ASSUME NEW t \in Thread, ReadSync(t) PROVE MutexInv'
  <2>1. mutex' = mutex
    BY <1>14 DEF ReadSync
  <2> QED
    BY <1>0, <2>1, <1>14, ReadSyncFact
<1>15. ASSUME NEW t \in Thread, StoreSync(t) PROVE MutexInv'
  BY <1>15, <1>0, GotoFact, ReturnFact, IOAssumption DEF StoreSync
<1>16. ASSUME NEW t \in Thread, EvalSync(t) PROVE MutexInv'
  BY <1>16, <1>0, GotoFact, ReturnFact, IOAssumption DEF EvalSync
<1>17. ASSUME NEW t \in Thread, WaitSync(t) PROVE MutexInv'
  BY <1>17, <1>0, GotoFact, ReturnFact, IOAssumption DEF WaitSync
<1>18. ASSUME NEW t \in Thread, SyncTimeout(t) PROVE MutexInv'
  BY <1>18, <1>0, GotoFact, ReturnFact, IOAssumption DEF SyncTimeout
<1>19. ASSUME NEW t \in Thread, ToggleSync(t) PROVE MutexInv'
  BY <1>19, <1>0, GotoFact, ReturnFact, IOAssumption DEF ToggleSync
<1>20. ASSUME NEW t \in Thread, Register(t) PROVE MutexInv'
  BY <1>20, <1>0, GotoFact, ReturnFact, IOAssumption DEF Register
<1>21. ASSUME NEW t \in Thread, Report(t) PROVE MutexInv'
  BY <1>21, <1>0, GotoFact, ReturnFact, IOAssumption DEF Report
<1>22. ASSUME NEW t \in Thread, Unregister(t) PROVE MutexInv'
  BY <1>22, <1>0, GotoFact, ReturnFact, IOAssumption DEF Unregister
<1>23. ASSUME UNCHANGED <<th, mutex>> PROVE MutexInv'
  BY <1>23, <1>0
<1> HIDE DEF MutexInv, AreaOf, LockedLabel, Area, SyncSame, SlotsSame, Elsewhere, IrqOnly,
   DevOnly, areas, fixed, histVars, hostVars
<1> QED
  <2>1. ASSUME NEW t \in Thread, Call(t) \/ Step(t) PROVE MutexInv'
    BY <2>1, <1>1, <1>2, <1>3, <1>4, <1>5, <1>6, <1>7, <1>8, <1>9, <1>10, <1>11, <1>12, <1>13,
       <1>14, <1>15, <1>16, <1>17, <1>18, <1>19, <1>20, <1>21, <1>22, <1>23 DEF Step
  <2>2. CASE Interrupt
    BY <2>2, <1>23, InterruptFrame
  <2>3. CASE Device
    BY <2>3, <1>23, DeviceFrame
  <2>4. CASE UNCHANGED vars
    BY <2>4, <1>23 DEF vars, devVars, hostVars, fixed, areas, histVars
  <2> QED
    BY <2>1, <2>2, <2>3, <2>4 DEF Next

(* The cached flags lag behind by at most the one toggle the host waits for. *)
LEMMA LagStep ==
  ASSUME IOInv, [Next]_vars
  PROVE  LagInv'
<1>0. LagInv /\ HoldInv /\ FlowInv /\ TypeFlags /\ TypeSc /\ TypeDsr
  BY TypeParts DEF IOInv
<1> USE DEF LagInv, Turn, Ahead, mode, fIrqEnabled, SyncSame, SlotsSame, Elsewhere, IrqOnly,
   DevOnly, areas, fixed, histVars, hostVars
<1>1. ASSUME NEW t \in Thread, StartIO(t) PROVE LagInv'
  <2>1. usNetxFlags' = IF sc.irq THEN usNetxFlags ELSE cellNetx
    BY <1>1 DEF StartIO, ReadFlags, fIrqEnabled
  <2>2. UNCHANGED <<irq, usHostFlags, cellNetx, sc>>
    BY <1>1 DEF StartIO
  <2> QED
    BY <1>0, <2>1, <2>2 DEF TypeFlags, Bit, Area
<1>2. ASSUME NEW t \in Thread, ReadBit(t) PROVE LagInv'
  <2>1. usNetxFlags' = IF sc.irq THEN usNetxFlags ELSE cellNetx
    BY <1>2 DEF ReadBit, ReadFlags, fIrqEnabled
  <2>2. UNCHANGED <<irq, usHostFlags, cellNetx, sc>>
    BY <1>2 DEF ReadBit
  <2> QED
    BY <1>0, <2>1, <2>2 DEF TypeFlags, Bit, Area
<1>3. ASSUME NEW t \in Thread, ToggleArea(t) PROVE LagInv'
  <2>1. PICK a \in Area : /\ mode[a] # "NONE" => usNetxFlags[a] = Turn(a)
                          /\ usHostFlags' = [usHostFlags EXCEPT ![a] = @ + 1] \/ UNCHANGED usHostFlags
    BY <1>3, <1>0 DEF ToggleArea, HoldInv, FlowInv, FlowAt, CopyLabel, LockedLabel, AreaOf, Area
  <2>2. UNCHANGED <<irq, usNetxFlags, cellNetx, sc>>
    BY <1>3 DEF ToggleArea
  <2> QED
    BY <1>0, <2>1, <2>2 DEF TypeFlags, Bit, Area
<1>4. ASSUME NEW t \in Thread, EndIO(t) PROVE LagInv'
  <2>1. usNetxFlags' = IF sc.irq THEN usNetxFlags ELSE cellNetx
    BY <1>4 DEF EndIO, ReadFlags, fIrqEnabled
  <2>2. UNCHANGED <<irq, usHostFlags, cellNetx, sc>>
    BY <1>4 DEF EndIO
  <2> QED
    BY <1>0, <2>1, <2>2 DEF TypeFlags, Bit, Area
<1>5. ASSUME NEW t \in Thread, PlcReady(t) PROVE LagInv'
  <2>1. usNetxFlags' = IF sc.irq THEN usNetxFlags ELSE cellNetx
    BY <1>5 DEF PlcReady, ReadFlags, fIrqEnabled
  <2>2. UNCHANGED <<irq, usHostFlags, cellNetx, sc>>
    BY <1>5 DEF PlcReady
  <2> QED
    BY <1>0, <2>1, <2>2 DEF TypeFlags, Bit, Area
<1>6. ASSUME NEW t \in Thread, PlcActivate(t) PROVE LagInv'
  <2>0. mode[AreaOf(t)] # "NONE" /\ th[t].pc = "toggle" => usNetxFlags[AreaOf(t)] = Turn(AreaOf(t))
    BY <1>0 DEF HoldInv, FlowInv, FlowAt, CopyLabel, LockedLabel
  <2>1. PICK a \in Area : /\ usHostFlags' = usHostFlags \/ (mode[a] # "NONE" => usNetxFlags[a] = Turn(a))
                          /\ usHostFlags' = [usHostFlags EXCEPT ![a] = @ + 1] \/ usHostFlags' = usHostFlags
    BY <1>6, <2>0 DEF PlcActivate, AreaOf, Area
  <2>2. usNetxFlags' = IF sc.irq THEN usNetxFlags ELSE cellNetx
    BY <1>6 DEF PlcActivate, ReadFlags
  <2>3. UNCHANGED <<irq, cellNetx, sc>>
    BY <1>6 DEF PlcActivate
  <2> QED
    BY <1>0, <2>1, <2>2, <2>3 DEF TypeFlags, Bit, Area
<1>7. ASSUME NEW t \in Thread, StoreSync(t) PROVE LagInv'
  <2>1. ~sc.irq
    BY <1>7, <1>0 DEF StoreSync, FlowInv, FlowAt
  <2>2. UNCHANGED <<irq, cellNetx, sc, usHostFlags>> /\ usNetxFlags' \in {usNetxFlags, cellNetx}
    BY <1>7 DEF StoreSync
  <2> QED
    BY <1>0, <2>1, <2>2 DEF TypeFlags, Bit, Area
<1>8. ASSUME NEW t \in Thread, ToggleSync(t) PROVE LagInv'
  <2>1. usNetxFlags' = IF sc.irq THEN usNetxFlags ELSE cellNetx
    BY <1>8 DEF ToggleSync, ReadFlags, fIrqEnabled
  <2>2. UNCHANGED <<irq, usHostFlags, cellNetx, sc>>
    BY <1>8 DEF ToggleSync
  <2> QED
    BY <1>0, <2>1, <2>2 DEF TypeFlags, Bit, Area
<1>9. ASSUME Isr PROVE LagInv'
  BY <1>9, <1>0 DEF Isr, TypeDsr, IrqLocals, TypeFlags, Bit, Area
<1>10. ASSUME DsrSync PROVE LagInv'
  BY <1>10, <1>0 DEF DsrSync, TypeDsr, IrqLocals
<1>11. ASSUME DsrFlags PROVE LagInv'
  BY <1>11, <1>0 DEF DsrFlags, TypeDsr, IrqLocals, TypeFlags, Bit, Area
<1>12. ASSUME DsrTest PROVE LagInv'
  <2>1. irq'.st # "idle" => irq.st # "idle"
    BY <1>12, <1>0 DEF DsrTest
  <2>2. /\ irq'.st \in {"sync", "syncWork", "syncCall"} => irq.st \in {"syncWork"}
        /\ irq'.netx = irq.netx
    BY <1>12, <1>0 DEF DsrTest, Finished, SyncPhase, TypeDsr, IrqLocals
  <2> QED
    BY <1>12, <1>0, <2>1, <2>2 DEF DsrTest
<1>13. ASSUME DsrCall PROVE LagInv'
  <2>1. irq.st # "idle"
    BY <1>13 DEF DsrCall
  <2>2. /\ irq'.st \in {"sync", "syncWork", "syncCall"} => irq.st \in {"syncCall"}
        /\ irq'.netx = irq.netx
    BY <1>13, <1>0 DEF DsrCall, Finished, SyncPhase, TypeDsr, IrqLocals
  <2> QED
    BY <1>13, <1>0, <2>1, <2>2 DEF DsrCall
<1>14. ASSUME DsrEnd PROVE LagInv'
  BY <1>14, <1>0 DEF DsrEnd, NoIrq
<1>15. ASSUME DeviceIn PROVE LagInv'
  <2>1. mode["in"] # "NONE" /\ cellNetx["in"] < Turn("in")
    BY <1>15, <1>0, OwnerFact DEF DeviceIn, DeviceOwns, Area
  <2>2. /\ UNCHANGED <<irq, usHostFlags, usNetxFlags, sc>>
        /\ cellNetx' = cellNetx \/ cellNetx' = [cellNetx EXCEPT !["in"] = @ + 1]
    BY <1>15 DEF DeviceIn, HandOver
  <2> QED
    BY <1>0, <2>1, <2>2 DEF TypeFlags, TypeDsr, IrqLocals, Bit, Area
<1>16. ASSUME DeviceOut PROVE LagInv'
  <2>1. mode["out"] # "NONE" /\ cellNetx["out"] < Turn("out")
    BY <1>16, <1>0, OwnerFact DEF DeviceOut, DeviceOwns, Area
  <2>2. /\ UNCHANGED <<irq, usHostFlags, usNetxFlags, sc>>
        /\ cellNetx' = cellNetx \/ cellNetx' = [cellNetx EXCEPT !["out"] = @ + 1]
    BY <1>16 DEF DeviceOut, HandOver
  <2> QED
    BY <1>0, <2>1, <2>2 DEF TypeFlags, TypeDsr, IrqLocals, Bit, Area
<1>17. ASSUME DeviceChange PROVE LagInv'
  BY <1>17, <1>0 DEF DeviceChange, HandOver, TypeFlags, Bit, Area
<1>18. ASSUME UNCHANGED <<irq, usHostFlags, cellNetx, usNetxFlags, sc>> PROVE LagInv'
  BY <1>18, <1>0
<1> HIDE DEF LagInv, Turn, Ahead, mode, fIrqEnabled, SyncSame, SlotsSame, Elsewhere, IrqOnly,
   DevOnly, areas, fixed, histVars, hostVars
<1> QED
  <2>1. ASSUME NEW t \in Thread, Call(t) \/ Step(t) PROVE LagInv'
    BY <2>1, <1>1, <1>2, <1>3, <1>4, <1>5, <1>6, <1>7, <1>8, <1>18, ThreadFrame, ThreadChanges
  <2>2. CASE Interrupt
    BY <2>2, <1>9, <1>10, <1>11, <1>12, <1>13, <1>14, <1>18 DEF Interrupt
  <2>3. CASE Device
    BY <2>3, <1>15, <1>16, <1>17, <1>18, DeviceFrame DEF Device, DeviceSync, SyncSame, SlotsSame,
       Elsewhere, IrqOnly, DevOnly, CopyUnit, areas, histVars, hostVars
  <2>4. CASE UNCHANGED vars
    BY <2>4, <1>18 DEF vars, devVars, hostVars, fixed, areas, histVars
  <2> QED
    BY <2>1, <2>2, <2>3, <2>4 DEF Next


-----------------------------------------------------------------------------
(* Process data.                                                            *)

(* A thread toggles the bit of its own area at the end of the copying only. *)
LEMMA HostFlagsFact ==
  ASSUME TypeTh, NEW t \in Thread, Call(t) \/ Step(t)
  PROVE  \/ usHostFlags' = usHostFlags
         \/ /\ th[t].pc = "toggle" /\ th'[t].pc \notin CopyLabel
            /\ usHostFlags' = [usHostFlags EXCEPT ![AreaOf(t)] = @ + 1]
            /\ outArea' = outArea
<1>1. CASE ToggleArea(t)
  BY <1>1, GotoFact DEF ToggleArea, CopyLabel, areas
<1>2. CASE PlcActivate(t)
  BY <1>2, ReturnFact DEF PlcActivate, CopyLabel, areas
<1> QED
  BY <1>1, <1>2, ThreadChanges

(* With a handshake the cached flags never go back. *)
LEMMA FlagsGrow ==
  ASSUME IOInv, [Next]_vars, NEW a \in Area, mode[a] # "NONE"
  PROVE  usNetxFlags[a] <= usNetxFlags'[a]
<1>0. LagInv /\ TypeFlags /\ TypeDsr
  BY TypeParts DEF IOInv
<1>1. usNetxFlags[a] <= cellNetx[a] /\ usNetxFlags[a] \in Nat
  BY <1>0 DEF LagInv, TypeFlags, Bit
<1>2. ASSUME NEW t \in Thread, Call(t) \/ Step(t) PROVE usNetxFlags' \in {usNetxFlags, cellNetx}
  <2>1. CASE UNCHANGED usNetxFlags
    BY <2>1
  <2>2. CASE StoreSync(t)
    BY <2>2 DEF StoreSync
  <2>3. CASE StartIO(t) \/ ReadBit(t) \/ EndIO(t) \/ PlcReady(t) \/ PlcActivate(t) \/ ToggleSync(t)
    <3>1. ReadFlags
      BY <2>3 DEF StartIO, ReadBit, EndIO, PlcReady, PlcActivate, ToggleSync
    <3> QED
      BY <3>1 DEF ReadFlags
  <2> QED
    BY <1>2, <2>1, <2>2, <2>3, ThreadChanges
<1>3. CASE Interrupt
  <2>1. CASE DsrFlags
    BY <1>0, <2>1 DEF DsrFlags, LagInv
  <2>2. CASE ~DsrFlags
    <3>1. usNetxFlags' = usNetxFlags
      BY <1>3, <2>2 DEF Interrupt, Isr, DsrSync, DsrTest, DsrCall, DsrEnd
    <3> QED
      BY <1>1, <3>1
  <2> QED
    BY <2>1, <2>2
<1>4. CASE Device
  BY <1>1, <1>4, DeviceFrame
<1>5. CASE UNCHANGED vars
  BY <1>1, <1>5 DEF vars, hostVars
<1> QED
  BY <1>1, <1>2, <1>3, <1>4, <1>5 DEF Next

(* The other threads keep the area they work on. *)
LEMMA OthersHold ==
  ASSUME IOInv, NEW t \in Thread, Call(t) \/ Step(t), NEW u \in Thread, u # t, th[u].pc \in CopyLabel
  PROVE  /\ th'[u] = th[u] /\ AreaOf(u)' = AreaOf(u)
         /\ usHostFlags'[AreaOf(u)] = usHostFlags[AreaOf(u)]
<1>0. TypeTh /\ TypeFlags /\ TypeSc /\ FlowInv /\ MutexInv
  BY TypeParts DEF IOInv
<1>1. th'[u] = th[u]
  BY <1>0, ThreadMoves
<1>2. AreaOf(u)' = AreaOf(u)
  BY <1>1 DEF AreaOf
<1>3. th[t].pc = "toggle" => AreaOf(t) # AreaOf(u)
  BY <1>0, Exclusive DEF CopyLabel
<1>4. AreaOf(t) \in Area /\ AreaOf(u) \in Area
  BY DEF AreaOf, Area
<1> QED
  BY <1>0, <1>1, <1>2, <1>3, <1>4, HostFlagsFact DEF TypeFlags

(* A thread that works on an area goes on seeing that it is the host's. *)
LEMMA HoldStep ==
  ASSUME IOInv, [Next]_vars
  PROVE  HoldInv'
<1>0. /\ HoldInv /\ LagInv /\ FlowInv /\ TypeTh /\ TypeFlags /\ TypeSc
      /\ LagInv' /\ TypeFlags' /\ FlowInv'
  BY TypeParts, LagStep, TypeFlagsStep, FlowStep DEF IOInv
<1>1. ASSUME NEW a \in Area, mode[a] # "NONE", usNetxFlags[a] = Turn(a),
             usHostFlags'[a] = usHostFlags[a], sc' = sc
      PROVE  usNetxFlags'[a] = Turn(a)'
  <2>1. usNetxFlags[a] <= usNetxFlags'[a]
    BY <1>1, FlagsGrow
  <2>2. mode'[a] # "NONE" /\ Turn(a)' = Turn(a)
    BY <1>1 DEF mode, Turn, Ahead
  <2>3. usNetxFlags'[a] <= cellNetx'[a] /\ cellNetx'[a] <= Turn(a)'
    BY <1>0, <2>2 DEF LagInv
  <2>4. usNetxFlags[a] \in Nat /\ usNetxFlags'[a] \in Nat /\ cellNetx'[a] \in Nat
    BY <1>0 DEF TypeFlags, Bit
  <2> QED
    BY <1>1, <2>1, <2>2, <2>3, <2>4
<1>2. \A u \in Thread : AreaOf(u) \in Area
  BY DEF AreaOf, Area
<1>3. ASSUME NEW u \in Thread, th[u].pc \in CopyLabel, th[u].st # "NONE"
      PROVE  /\ usNetxFlags[AreaOf(u)] = Turn(AreaOf(u)) /\ mode[AreaOf(u)] # "NONE"
  BY <1>0, <1>3 DEF HoldInv, FlowInv, FlowAt, CopyLabel, LockedLabel
<1>4. ASSUME UNCHANGED <<th, usHostFlags, sc>> PROVE HoldInv'
  <2>1. \A u \in Thread : AreaOf(u)' = AreaOf(u) /\ th'[u] = th[u]
    BY <1>4 DEF AreaOf
  <2> QED
    BY <1>1, <1>2, <1>3, <1>4, <2>1 DEF HoldInv
<1>5. ASSUME NEW t \in Thread, Call(t) \/ Step(t) PROVE HoldInv'
  <2> SUFFICES ASSUME NEW u \in Thread, th'[u].pc \in CopyLabel, th'[u].st # "NONE"
               PROVE  usNetxFlags'[AreaOf(u)'] = Turn(AreaOf(u))'
    BY DEF HoldInv
  <2>0. sc' = sc /\ cellNetx' = cellNetx
    BY <1>5, ThreadFrame
  <2>1. CASE u # t
    <3>1. th'[u] = th[u]
      BY <1>0, <1>5, <2>1, ThreadMoves
    <3>2. AreaOf(u)' = AreaOf(u) /\ usHostFlags'[AreaOf(u)] = usHostFlags[AreaOf(u)]
      BY <1>5, <2>1, <3>1, OthersHold
    <3>3. usNetxFlags'[AreaOf(u)] = (Turn(AreaOf(u)))'
      <4>1. PICK a \in Area : a = AreaOf(u)
        BY <1>2
      <4>2. usNetxFlags'[a] = Turn(a)'
        BY <1>1, <1>3, <2>0, <3>1, <3>2, <4>1
      <4>3. Turn(AreaOf(u))' = Turn(a)'
        BY <3>2, <4>1 DEF Turn, Ahead
      <4> QED
        BY <4>1, <4>2, <4>3
    <3> QED
      BY <3>2, <3>3
  <2>2. CASE u = t
    <3>1. CASE EvalBit(t) \/ WaitTimeout(t)
      <4>1. UNCHANGED <<usNetxFlags, usHostFlags>>
        BY <3>1 DEF EvalBit, WaitTimeout
      <4>2. BitReached(t) /\ th'[t].op = th[t].op /\ th[t].pc \in {"eval", "event"}
        BY <1>0, <2>2, <3>1, GotoFact, ReturnFact DEF EvalBit, WaitTimeout, CopyLabel
      <4>3. th[t].st = mode[AreaOf(t)] /\ th[t].st # "NONE"
        BY <1>0, <4>2 DEF FlowInv, FlowAt, LockedLabel
      <4>4. usNetxFlags[AreaOf(t)] = Turn(AreaOf(t))
        BY <1>0, <1>2, <4>2, <4>3, TurnFact DEF BitReached
      <4>5. AreaOf(t)' = AreaOf(t)
        BY <4>2 DEF AreaOf
      <4>6. Turn(AreaOf(t))' = Turn(AreaOf(t))
        BY <4>1, <4>5, <2>0 DEF Turn, Ahead, mode
      <4> QED
        BY <2>2, <4>1, <4>4, <4>5, <4>6
    <3>2. CASE Copy(t)
      <4>1. UNCHANGED <<usNetxFlags, usHostFlags>>
        BY <3>2 DEF Copy, CopyUnit
      <4>2. th'[t].op = th[t].op /\ th'[t].st = th[t].st /\ th[t].pc \in CopyLabel
        BY <1>0, <3>2, CopyFact DEF CopyLabel
      <4>3. usNetxFlags[AreaOf(t)] = Turn(AreaOf(t))
        BY <1>3, <2>2, <4>2
      <4>4. AreaOf(t)' = AreaOf(t)
        BY <4>2 DEF AreaOf
      <4>5. Turn(AreaOf(t))' = Turn(AreaOf(t))
        BY <4>1, <4>4, <2>0 DEF Turn, Ahead, mode
      <4> QED
        BY <2>2, <4>1, <4>3, <4>4, <4>5
    <3>3. CASE PlcReady(t)
      <4>1. usHostFlags' = usHostFlags
        BY <3>3 DEF PlcReady
      <4>2. /\ th'[t].op = th[t].op /\ th'[t].st = mode[AreaOf(t)]
            /\ HasState(mode[AreaOf(t)], usHostFlags[AreaOf(t)], usNetxFlags'[AreaOf(t)])
        BY <1>0, <2>2, <3>3, PlcReadyFact DEF CopyLabel
      <4>3. AreaOf(t)' = AreaOf(t)
        BY <4>2 DEF AreaOf
      <4>4. PICK a \in Area : a = AreaOf(t)
        BY <1>2
      <4>5. mode[a] \in {"EQUAL", "NOT_EQUAL"}
        BY <1>0, <2>2, <4>2, <4>4, ScenarioFact DEF mode, Mode
      <4>6. Turn(a)' = Turn(a) /\ Turn(a) = usHostFlags[a] + (IF mode[a] = "NOT_EQUAL" THEN 1 ELSE 0)
        BY <4>1, <2>0 DEF Turn, Ahead, mode
      <4>7. /\ usNetxFlags'[a] <= cellNetx'[a] /\ cellNetx'[a] <= Turn(a)'
            /\ Turn(a)' <= usNetxFlags'[a] + 1
        BY <1>0, <2>0, <4>5 DEF LagInv, mode
      <4>8. usNetxFlags'[a] \in Nat /\ cellNetx'[a] \in Nat /\ usHostFlags[a] \in Nat
        BY <1>0 DEF TypeFlags, Bit
      <4>9. usNetxFlags'[a] = Turn(a)
        BY <4>2, <4>4, <4>5, <4>6, <4>7, <4>8, ParityFact
      <4>10. Turn(AreaOf(t))' = Turn(a)'
        BY <4>3, <4>4 DEF Turn, Ahead
      <4> QED
        BY <2>2, <4>3, <4>4, <4>6, <4>9, <4>10
    <3> QED
      BY <1>0, <1>5, <2>2, <3>1, <3>2, <3>3, ThreadMoves
  <2> QED
    BY <2>1, <2>2
<1>6. CASE Interrupt
  BY <1>4, <1>6, InterruptFrame
<1>7. CASE Device
  BY <1>4, <1>7, DeviceFrame
<1>8. CASE UNCHANGED vars
  BY <1>4, <1>8 DEF vars, hostVars, fixed
<1> QED
  BY <1>5, <1>6, <1>7, <1>8 DEF Next

(* What a step of the copying does to the data of a reader ... *)
LEMMA CopyInFact ==
  ASSUME TypeTh, NEW t \in Thread, Copy(t), AreaOf(t) = "in"
  PROVE  \/ th[t].pc = "copy1" /\ th'[t].pc = "copy2" /\ th'[t].buf[1] = inArea[1]
         \/ /\ th[t].pc = "copy2" /\ th'[t].pc \in {"end", "toggle"}
            /\ th'[t].buf[1] = th[t].buf[1] /\ th'[t].buf[2] = inArea[2]
<1> DEFINE Takes(i) == th'[t].buf = [th[t].buf EXCEPT ![i] = inArea[i]]
<1>1. ASSUME NEW i \in Unit, NEW l, CopyUnit(t, i, l) PROVE Takes(i)
  BY <1>1, CopyUnitFact
<1>2. 1 \in Unit /\ 2 \in Unit
  BY DEF Unit
<1>3. \/ th[t].pc = "copy1" /\ \E l : CopyUnit(t, 1, l)
      \/ th[t].pc = "copy2" /\ \E l : CopyUnit(t, 2, l)
  BY DEF Copy
<1>4. \/ th[t].pc = "copy1" /\ Takes(1)
      \/ th[t].pc = "copy2" /\ Takes(2)
  <2> HIDE DEF Takes
  <2> QED
    BY <1>1, <1>2, <1>3, Zenon
<1>5. th[t].buf \in [Unit -> Nat]
  BY DEF TypeTh, Locals
<1> QED
  BY <1>2, <1>4, <1>5, CopyFact

(* ... and of a writer. *)
LEMMA CopyOutFact ==
  ASSUME TypeTh, TypeAreas, NEW t \in Thread, Copy(t)
  PROVE  LET frame == [by |-> t, nr |-> usHostFlags["out"] + 1] IN
         /\ AreaOf(t) = "in" => outArea' = outArea
         /\ AreaOf(t) # "in" =>
              \/ th[t].pc = "copy1" /\ th'[t].pc = "copy2" /\ outArea'[1] = frame
              \/ /\ th[t].pc = "copy2" /\ th'[t].pc \in {"end", "toggle"}
                 /\ outArea'[1] = outArea[1] /\ outArea'[2] = frame
<1> DEFINE frame == [by |-> t, nr |-> usHostFlags["out"] + 1]
           Puts(i) == /\ AreaOf(t) = "in" => outArea' = outArea
                      /\ AreaOf(t) # "in" => outArea' = [outArea EXCEPT ![i] = frame]
<1>1. ASSUME NEW i \in Unit, NEW l, CopyUnit(t, i, l) PROVE Puts(i)
  BY <1>1 DEF CopyUnit
<1>2. 1 \in Unit /\ 2 \in Unit
  BY DEF Unit
<1>3. \/ th[t].pc = "copy1" /\ \E l : CopyUnit(t, 1, l)
      \/ th[t].pc = "copy2" /\ \E l : CopyUnit(t, 2, l)
  BY DEF Copy
<1>4. \/ th[t].pc = "copy1" /\ Puts(1)
      \/ th[t].pc = "copy2" /\ Puts(2)
  <2> HIDE DEF Puts
  <2> QED
    BY <1>1, <1>2, <1>3, Zenon
<1>5. outArea \in [Unit -> OutUnit]
  BY DEF TypeAreas
<1> QED
  BY <1>2, <1>4, <1>5, CopyFact

(* While the device works on an area no thread does. *)
LEMMA NobodyCopies ==
  ASSUME IOInv, NEW a \in Area, mode[a] # "NONE", cellNetx[a] < Turn(a)
  PROVE  \A u \in Thread : AreaOf(u) = a => th[u].pc \notin CopyLabel
<1>0. HoldInv /\ LagInv /\ FlowInv /\ TypeFlags
  BY TypeParts DEF IOInv
<1>1. usNetxFlags[a] \in Nat /\ cellNetx[a] \in Nat /\ usHostFlags[a] \in Nat
  BY <1>0 DEF TypeFlags, Bit
<1>2. usNetxFlags[a] # Turn(a)
  BY <1>0, <1>1 DEF LagInv, Turn, Ahead
<1> QED
  BY <1>0, <1>2 DEF HoldInv, FlowInv, FlowAt, CopyLabel, LockedLabel

(* And while a thread does, it is the host's turn. *)
LEMMA HostsTurn ==
  ASSUME IOInv, NEW t \in Thread, th[t].pc \in CopyLabel, mode[AreaOf(t)] # "NONE"
  PROVE  cellNetx[AreaOf(t)] = Turn(AreaOf(t))
<1>0. HoldInv /\ LagInv /\ FlowInv /\ TypeFlags
  BY TypeParts DEF IOInv
<1>1. PICK a \in Area : a = AreaOf(t)
  BY DEF AreaOf, Area
<1>2. usNetxFlags[a] \in Nat /\ cellNetx[a] \in Nat /\ usHostFlags[a] \in Nat
  BY <1>0 DEF TypeFlags, Bit
<1>3. usNetxFlags[a] = Turn(a)
  BY <1>0, <1>1 DEF HoldInv, FlowInv, FlowAt, CopyLabel, LockedLabel
<1>4. cellNetx[a] <= Turn(a) /\ usNetxFlags[a] <= cellNetx[a]
  BY <1>0, <1>1 DEF LagInv
<1> QED
  BY <1>1, <1>2, <1>3, <1>4 DEF Turn, Ahead

(* The device changes the bit of an area only when it is done with it. *)
LEMMA DeviceBits ==
  ASSUME TypeFlags, TypeAreas, Device
  PROVE  /\ \/ DeviceIn
            \/ cellNetx'["in"] = cellNetx["in"] /\ UNCHANGED <<inArea, devIn>>
         /\ \/ DeviceOut
            \/ cellNetx'["out"] = cellNetx["out"] /\ UNCHANGED <<outArea, devOut>>
<1>1. CASE DeviceIn
  BY <1>1 DEF DeviceIn, HandOver, TypeFlags, Bit, Area
<1>2. CASE DeviceOut
  BY <1>2 DEF DeviceOut, HandOver, TypeFlags, Bit, Area, areas
<1>3. CASE DeviceSync
  BY <1>3 DEF DeviceSync, areas
<1>4. CASE DeviceChange
  BY <1>4 DEF DeviceChange, HandOver, TypeFlags, Bit, Area, areas
<1> QED
  BY <1>1, <1>2, <1>3, <1>4 DEF Device

(* Input data stay what they are until the host has read them. *)
LEMMA InStep ==
  ASSUME IOInv, [Next]_vars
  PROVE  InInv'
<1>0. InInv /\ LagInv /\ FlowInv /\ TypeTh /\ TypeFlags /\ TypeAreas /\ TypeSc
  BY TypeParts DEF IOInv
<1>1. /\ cellNetx["in"] \in Nat /\ usHostFlags["in"] \in Nat /\ "in" \in Area
      /\ inArea \in [Unit -> Nat] /\ devIn \in 0 .. 1 /\ 1 \in Unit /\ 2 \in Unit
  BY <1>0 DEF TypeFlags, Bit, Area, TypeAreas, Unit
<1>2. ASSUME UNCHANGED <<sc, inArea, devIn, th, usHostFlags>>, cellNetx'["in"] = cellNetx["in"] PROVE InInv'
  BY <1>0, <1>2 DEF InInv, Turn, Ahead, mode, AreaOf
<1>3. ASSUME NEW t \in Thread, Call(t) \/ Step(t) PROVE InInv'
  <2>1. UNCHANGED <<sc, inArea, devIn, cellNetx>>
    BY <1>3, ThreadFrame
  <2> SUFFICES ASSUME mode["in"] # "NONE" PROVE InInv'
    BY <2>1 DEF InInv, mode
  <2>2. usHostFlags'["in"] \in Nat /\ usHostFlags["in"] <= usHostFlags'["in"]
    BY <1>0, <1>1, <1>3, HostFlagsFact DEF TypeFlags, AreaOf, Area
  <2>3. cellNetx["in"] <= Turn("in")
    BY <1>0, <1>1 DEF LagInv
  <2>4. cellNetx["in"] = Turn("in")' => cellNetx["in"] = Turn("in")
    BY <1>1, <2>1, <2>2, <2>3 DEF Turn, Ahead, mode
  <2>5. ASSUME NEW u \in Thread, AreaOf(u)' = "in", th'[u].pc \in {"copy2", "toggle"}
        PROVE  th'[u].buf[1] = cellNetx["in"] /\ (th'[u].pc = "toggle" => th'[u].buf[2] = cellNetx["in"])
    <3>1. CASE u # t
      <4>1. th'[u] = th[u]
        BY <1>0, <1>3, <3>1, ThreadMoves
      <4> QED
        BY <1>0, <2>5, <4>1 DEF InInv, AreaOf
    <3>2. CASE u = t
      <4>1. Copy(t)
        BY <1>0, <1>3, <2>5, <3>2, ThreadMoves
      <4>2. AreaOf(t) = "in" /\ th[t].pc \in CopyLabel
        BY <1>0, <2>5, <3>2, <4>1, CopyFact DEF AreaOf, CopyLabel
      <4>3. cellNetx["in"] = Turn("in")
        BY <4>2, HostsTurn
      <4>4. inArea[1] = cellNetx["in"] /\ inArea[2] = cellNetx["in"]
        BY <1>0, <4>3 DEF InInv
      <4>5. th[t].pc = "copy2" => th[t].buf[1] = cellNetx["in"]
        BY <1>0, <4>2 DEF InInv
      <4> QED
        BY <1>0, <2>5, <3>2, <4>1, <4>2, <4>4, <4>5, CopyInFact
    <3> QED
      BY <3>1, <3>2
  <2> QED
    BY <1>0, <2>1, <2>4, <2>5 DEF InInv
<1>4. ASSUME DeviceIn PROVE InInv'
  <2>1. mode["in"] # "NONE" /\ cellNetx["in"] < Turn("in")
    BY <1>0, <1>1, <1>4, OwnerFact DEF DeviceIn
  <2>2. \A u \in Thread : AreaOf(u) = "in" => th[u].pc \notin {"copy2", "toggle"}
    BY <1>1, <2>1, NobodyCopies DEF CopyLabel
  <2>3. UNCHANGED <<sc, th, usHostFlags>>
    BY <1>4, DeviceFrame DEF Device
  <2>4. Turn("in")' = Turn("in") /\ mode' = mode /\ \A u \in Thread : AreaOf(u)' = AreaOf(u)
    BY <2>3 DEF Turn, Ahead, mode, AreaOf
  <2>5. CASE devIn = 0
    <3>1. devIn' = 1 /\ cellNetx' = cellNetx /\ inArea'[1] = cellNetx["in"] + 1
      BY <1>1, <1>4, <2>5 DEF DeviceIn
    <3> QED
      BY <1>1, <2>1, <2>2, <2>3, <2>4, <3>1 DEF InInv
  <2>6. CASE devIn = 1
    <3>1. /\ devIn' = 0 /\ cellNetx'["in"] = cellNetx["in"] + 1
          /\ inArea'[1] = inArea[1] /\ inArea'[2] = cellNetx["in"] + 1
      BY <1>0, <1>1, <1>4, <2>6 DEF DeviceIn, HandOver, TypeFlags, Bit
    <3>2. inArea[1] = cellNetx["in"] + 1
      BY <1>0, <2>1, <2>6 DEF InInv
    <3> QED
      BY <1>1, <2>1, <2>2, <2>3, <2>4, <3>1, <3>2 DEF InInv
  <2> QED
    BY <1>1, <2>5, <2>6
<1>5. CASE Interrupt
  BY <1>2, <1>5, InterruptFrame
<1>6. CASE Device
  BY <1>0, <1>2, <1>4, <1>6, DeviceFrame, DeviceBits
<1>7. CASE UNCHANGED vars
  BY <1>2, <1>7 DEF vars, devVars, hostVars, fixed
<1> QED
  BY <1>3, <1>5, <1>6, <1>7 DEF Next

(* Output data stay what they are until the device has read them. *)
LEMMA OutStep ==
  ASSUME IOInv, [Next]_vars
  PROVE  OutInv'
<1>0. OutInv /\ LagInv /\ FlowInv /\ MutexInv /\ TypeTh /\ TypeFlags /\ TypeAreas /\ TypeSc
  BY TypeParts DEF IOInv
<1>1. /\ cellNetx["out"] \in Nat /\ usHostFlags["out"] \in Nat /\ "out" \in Area
      /\ outArea \in [Unit -> OutUnit] /\ 1 \in Unit /\ 2 \in Unit
      /\ devOut.done \in 0 .. 2 /\ devOut.copy \in [Unit -> OutUnit]
  BY <1>0 DEF TypeFlags, Bit, Area, TypeAreas, Unit
<1>2. ASSUME UNCHANGED <<sc, outArea, devOut, th, usHostFlags>>,
             cellNetx'["out"] = cellNetx["out"]
      PROVE  OutInv'
  BY <1>0, <1>2 DEF OutInv, Turn, Ahead, mode, AreaOf
<1>3. ASSUME NEW t \in Thread, Call(t) \/ Step(t) PROVE OutInv'
  <2>1. UNCHANGED <<sc, devOut, cellNetx>>
    BY <1>3, ThreadFrame
  <2>2. CASE mode["out"] = "NONE"
    BY <1>0, <2>1, <2>2 DEF OutInv, mode
  <2>3. CASE mode["out"] # "NONE"
    <3> DEFINE frame(t0) == [by |-> t0, nr |-> usHostFlags["out"] + 1]
    <3>1. ASSUME NEW u \in Thread, u # t, AreaOf(u)' = "out", th'[u].pc \in {"copy2", "toggle"}
          PROVE  /\ AreaOf(u) = "out" /\ th[u] = th'[u] /\ usHostFlags'["out"] = usHostFlags["out"]
                 /\ ~(AreaOf(t) = "out" /\ th[t].pc \in CopyLabel)
      <4>1. th'[u] = th[u]
        BY <1>0, <1>3, <3>1, ThreadMoves
      <4>2. AreaOf(u) = "out" /\ th[u].pc \in CopyLabel
        BY <3>1, <4>1 DEF AreaOf, CopyLabel
      <4>3. usHostFlags'["out"] = usHostFlags["out"]
        BY <1>3, <3>1, <4>2, OthersHold
      <4> QED
        BY <1>0, <3>1, <4>1, <4>2, <4>3, Exclusive
    <3>2. CASE AreaOf(t) = "out" /\ Copy(t)
      <4>1. /\ UNCHANGED usHostFlags /\ th[t].pc \in CopyLabel
            /\ \A u \in Thread : u # t => th'[u] = th[u]
        BY <1>0, <3>2, CopyFact DEF CopyLabel, Copy, CopyUnit
      <4>2. cellNetx["out"] = Turn("out")
        BY <2>3, <3>2, <4>1, HostsTurn
      <4>3. cellNetx'["out"] = Turn("out")' /\ devOut'.done # 1
        BY <1>0, <2>1, <2>3, <4>1, <4>2 DEF OutInv, Turn, Ahead, mode
      <4>4. \/ th'[t].pc = "copy2" /\ outArea'[1] = frame(t)
            \/ /\ th[t].pc = "copy2" /\ th'[t].pc \in {"end", "toggle"}
               /\ outArea'[1] = outArea[1] /\ outArea'[2] = frame(t)
        BY <1>0, <3>2, CopyOutFact
      <4>5. th[t].pc = "copy2" => outArea[1] = frame(t)
        BY <1>0, <2>3, <3>2 DEF OutInv
      <4>6. \A u \in Thread : AreaOf(u)' = "out" /\ u # t => th'[u].pc \notin {"copy2", "toggle"}
        BY <3>1, <3>2, <4>1
      <4>7. /\ th'[t].pc \in {"copy2", "toggle"} => outArea'[1] = frame(t)
            /\ th'[t].pc = "toggle" => outArea'[2] = frame(t)
        BY <4>4, <4>5
      <4>8. devOut'.done = 2 => /\ devOut'.copy[1] = devOut'.copy[2]
                                /\ devOut'.copy[1].nr + Ahead("out")' = cellNetx'["out"]
        BY <1>0, <2>1, <2>3 DEF OutInv, Ahead, mode
      <4>9. mode'["out"] # "NONE"
        BY <2>1, <2>3 DEF mode
      <4> QED
        BY <4>1, <4>3, <4>6, <4>7, <4>8, <4>9 DEF OutInv
    <3>3. CASE AreaOf(t) = "out" /\ th[t].pc = "toggle" /\ usHostFlags' # usHostFlags
      <4>1. /\ outArea' = outArea /\ th'[t].pc \notin CopyLabel
            /\ usHostFlags'["out"] = usHostFlags["out"] + 1
        BY <1>0, <1>1, <1>3, <3>3, HostFlagsFact DEF TypeFlags
      <4>2. cellNetx["out"] = Turn("out")
        BY <2>3, <3>3, HostsTurn DEF CopyLabel
      <4>3. devOut.done # 1 /\ outArea[1] = frame(t) /\ outArea[2] = frame(t)
        BY <1>0, <2>3, <3>3, <4>2 DEF OutInv
      <4>4. outArea'[1] = outArea'[2] /\ outArea'[1].nr = usHostFlags'["out"]
        BY <4>1, <4>3
      <4>5. \A u \in Thread : AreaOf(u)' = "out" => th'[u].pc \notin {"copy2", "toggle"}
        BY <3>1, <3>3, <4>1 DEF CopyLabel
      <4>6. devOut'.done = 2 => /\ devOut'.copy[1] = devOut'.copy[2]
                                /\ devOut'.copy[1].nr + Ahead("out")' = cellNetx'["out"]
        BY <1>0, <2>1, <2>3 DEF OutInv, Ahead, mode
      <4>7. mode'["out"] # "NONE"
        BY <2>1, <2>3 DEF mode
      <4> QED
        BY <2>1, <4>3, <4>4, <4>5, <4>6, <4>7 DEF OutInv
    <3>4. CASE /\ ~(AreaOf(t) = "out" /\ Copy(t))
               /\ ~(AreaOf(t) = "out" /\ th[t].pc = "toggle" /\ usHostFlags' # usHostFlags)
      <4>1. outArea' = outArea
        BY <1>0, <1>3, <3>4, ThreadChanges, CopyOutFact DEF AreaOf
      <4>2. usHostFlags'["out"] = usHostFlags["out"]
        BY <1>0, <1>1, <1>3, <3>4, HostFlagsFact DEF TypeFlags, AreaOf
      <4>3. Turn("out")' = Turn("out") /\ mode' = mode /\ Ahead("out")' = Ahead("out")
        BY <2>1, <4>2 DEF Turn, Ahead, mode
      <4>4. ASSUME NEW u \in Thread, AreaOf(u)' = "out", th'[u].pc \in {"copy2", "toggle"}
            PROVE  AreaOf(u) = "out" /\ th[u] = th'[u]
        <5>1. CASE u # t
          BY <3>1, <4>4, <5>1
        <5>2. CASE u = t
          <6>1. Copy(t)
            BY <1>0, <1>3, <4>4, <5>2, ThreadMoves
          <6>2. AreaOf(t) = "out"
            BY <1>0, <4>4, <5>2, <6>1, CopyFact DEF AreaOf
          <6> QED
            BY <3>4, <6>1, <6>2
        <5> QED
          BY <5>1, <5>2
      <4>5. \A u \in Thread : AreaOf(u)' = "out" =>
              /\ th'[u].pc \in {"copy2", "toggle"} => outArea[1] = frame(u)
              /\ th'[u].pc = "toggle" => outArea[2] = frame(u)
        BY <1>0, <2>3, <4>4 DEF OutInv
      <4> QED
        BY <1>0, <2>1, <2>3, <4>1, <4>2, <4>3, <4>5 DEF OutInv
    <3> QED
      BY <3>2, <3>3, <3>4
  <2> QED
    BY <2>2, <2>3
<1>4. ASSUME DeviceOut PROVE OutInv'
  <2>1. mode["out"] # "NONE" /\ cellNetx["out"] < Turn("out")
    BY <1>0, <1>1, <1>4, OwnerFact DEF DeviceOut
  <2>2. \A u \in Thread : AreaOf(u) = "out" => th[u].pc \notin {"copy2", "toggle"}
    BY <1>1, <2>1, NobodyCopies DEF CopyLabel
  <2>3. UNCHANGED <<sc, th, usHostFlags, outArea>>
    BY <1>4, DeviceFrame DEF Device
  <2>4. /\ Turn("out")' = Turn("out") /\ mode' = mode /\ Ahead("out")' = Ahead("out")
        /\ \A u \in Thread : AreaOf(u)' = AreaOf(u)
    BY <2>3 DEF Turn, Ahead, mode, AreaOf
  <2>5. Turn("out") = usHostFlags["out"] + Ahead("out") /\ Ahead("out") \in 0 .. 1
    BY DEF Turn, Ahead
  <2>6. outArea[1] = outArea[2] /\ outArea[1].nr = usHostFlags["out"]
    BY <1>0, <1>1, <2>1, <2>5 DEF OutInv
  <2>7. CASE devOut.done = 1
    <3>1. /\ devOut'.done = 2 /\ devOut'.copy = [devOut.copy EXCEPT ![2] = outArea[2]]
          /\ cellNetx'["out"] = cellNetx["out"] + 1
      BY <1>0, <1>1, <1>4, <2>7 DEF DeviceOut, HandOver, TypeFlags, Bit
    <3>2. devOut.copy[1] = outArea[1]
      BY <1>0, <1>1, <2>1, <2>5, <2>7 DEF OutInv
    <3>3. devOut'.copy[1] = outArea[1] /\ devOut'.copy[2] = outArea[1]
      BY <1>1, <2>6, <3>1, <3>2
    <3>4. cellNetx'["out"] = Turn("out")
      <4>1. Turn("out") <= usNetxFlags["out"] + 1 /\ usNetxFlags["out"] <= cellNetx["out"]
        BY <1>0, <1>1, <2>1 DEF LagInv
      <4>2. usNetxFlags["out"] \in Nat
        BY <1>0 DEF TypeFlags, Bit, Area
      <4> QED
        BY <1>1, <2>1, <2>5, <3>1, <4>1, <4>2
    <3> QED
      BY <1>1, <2>1, <2>2, <2>3, <2>4, <2>5, <2>6, <3>1, <3>3, <3>4 DEF OutInv
  <2>8. CASE devOut.done # 1
    <3>1. /\ devOut'.done = 1 /\ devOut'.copy = [devOut.copy EXCEPT ![1] = outArea[1]]
          /\ cellNetx' = cellNetx
      BY <1>4, <2>8 DEF DeviceOut
    <3>2. devOut'.copy[1] = outArea[1]
      BY <1>1, <3>1
    <3> QED
      BY <1>1, <2>1, <2>2, <2>3, <2>4, <2>5, <2>6, <3>1, <3>2 DEF OutInv
  <2> QED
    BY <2>7, <2>8
<1>5. CASE Interrupt
  BY <1>2, <1>5, InterruptFrame
<1>6. CASE Device
  BY <1>0, <1>2, <1>4, <1>6, DeviceFrame, DeviceBits
<1>7. CASE UNCHANGED vars
  BY <1>2, <1>7 DEF vars, devVars, hostVars, fixed, areas
<1> QED
  BY <1>3, <1>5, <1>6, <1>7 DEF Next

-----------------------------------------------------------------------------
(* The DSR.                                                                 *)

(* The DSR is done with a bit, or has found a callback for it. *)
LEMMA DsrTestFact ==
  ASSUME TypeDsr, DsrTest
  PROVE  /\ irq.st \in {"syncWork", "bitWork"}
         /\ \/ irq'.st = irq.st /\ irq'.pfn = irq.pfn
            \/ \E s \in Slot :
                 /\ pfn[s] # 0 /\ irq'.pfn = pfn[s] /\ irq'.st \in {"syncCall", "bitCall"}
                 /\ irq'.st = "syncCall" => IoChannel \in irq'.syncs
<1>1. irq.st \in {"syncWork", "bitWork"}
  BY DEF DsrTest
<1>2. PICK x \in First :
        \/ irq' = Finished(x)
        \/ /\ DsrSlot(x) # "none" /\ pfn[DsrSlot(x)] # 0
           /\ irq' = [irq EXCEPT !.st = IF irq.st = "syncWork" THEN "syncCall" ELSE "bitCall",
                                 !.pfn = pfn[DsrSlot(x)]]
  BY Zenon DEF DsrTest
<1>3. CASE irq' = Finished(x)
  BY <1>1, <1>3 DEF Finished, TypeDsr, IrqLocals
<1>4. CASE irq' # Finished(x)
  <2>1. DsrSlot(x) \in Slot
    BY <1>2, <1>4 DEF DsrSlot, Slot
  <2>2. /\ irq'.st = (IF irq.st = "syncWork" THEN "syncCall" ELSE "bitCall")
        /\ irq'.pfn = pfn[DsrSlot(x)] /\ irq'.syncs = irq.syncs
    BY <1>2, <1>4 DEF TypeDsr, IrqLocals
  <2>3. irq.st = "syncWork" => IoChannel \in irq.syncs
    BY <1>2, <1>4 DEF DsrSlot, First, Todo, SyncPhase
  <2> QED
    BY <1>1, <1>2, <1>4, <2>1, <2>2, <2>3
<1> QED
  BY <1>1, <1>3, <1>4

(* What the DSR calls is the callback it tested, or the one it reads again. *)
LEMMA DsrCallFact ==
  ASSUME TypeDsr, NotifyInv, DsrCall
  PROVE  /\ irq.st \in {"syncCall", "bitCall"} /\ irq'.st \in {"syncWork", "bitWork"}
         /\ irq'.pfn = 0
         /\ \E s \in Slot : /\ called'.slot = s /\ called'.pfn \in {irq.pfn, pfn[s]}
                            /\ s \in {"PD0_IN", "PD0_OUT"} => called'.pfn = irq.pfn
<1>1. irq.st \in {"syncCall", "bitCall"}
  BY DEF DsrCall
<1>2. PICK x \in First :
        /\ \E f \in IF DsrSlot(x) \in {"PD0_IN", "PD0_OUT"} THEN {irq.pfn}
                    ELSE {irq.pfn, pfn[DsrSlot(x)]} :
             called' = [slot |-> DsrSlot(x), pfn |-> f, pvUser |-> pvUser[DsrSlot(x)]]
        /\ irq' = [Finished(x) EXCEPT !.st = IF @ = "syncCall" THEN "syncWork" ELSE "bitWork",
                                      !.pfn = 0]
  BY Zenon DEF DsrCall
<1>3. DsrSlot(x) \in Slot
  BY <1>1, DsrCallSlot
<1>4. Finished(x) \in IrqLocals
  BY DEF Finished, TypeDsr, IrqLocals
<1>5. irq'.st \in {"syncWork", "bitWork"} /\ irq'.pfn = 0
  BY <1>2, <1>4 DEF IrqLocals
<1>6. /\ called'.slot = DsrSlot(x) /\ called'.pfn \in {irq.pfn, pfn[DsrSlot(x)]}
      /\ DsrSlot(x) \in {"PD0_IN", "PD0_OUT"} => called'.pfn = irq.pfn
  BY <1>2
<1> QED
  BY <1>1, <1>3, <1>5, <1>6

-----------------------------------------------------------------------------
(* Sync bits.                                                               *)

(* Two threads do not both toggle the sync bit of a channel. *)
LEMMA SyncExclusive ==
  ASSUME TypeSc, FlowInv, NEW t \in Thread, NEW u \in Thread, t # u,
         th[t].pc = "syncToggle", th[u].pc = "syncToggle", th[t].op # "Wait", th[u].op # "Wait"
  PROVE  SyncCh[t] # SyncCh[u]
<1>1. /\ th[t].op \in {"Signal", "Ack"} /\ th[t].op \in sc.plan[t]
      /\ th[u].op \in {"Signal", "Ack"} /\ th[u].op \in sc.plan[u]
  BY DEF FlowInv, FlowAt, SyncLabel
<1>2. sc \in Scenario
  BY DEF TypeSc
<1>3. SyncCh[t] = SyncCh[u] => \/ sc.plan[t] \cap {"Signal", "Ack"} = {}
                              \/ sc.plan[u] \cap {"Signal", "Ack"} = {}
  BY <1>2, UsageAssumption
<1> QED
  BY <1>1, <1>3

(* Whose turn it is to toggle a sync bit. *)
LEMMA SyncTurnFact ==
  ASSUME NEW c \in Channel, NEW n \in Nat, usHSyncFlags[c] \in Nat,
         n <= SyncTurn(c), SyncTurn(c) <= n + 1
  PROVE  HasState(SyncGoal, usHSyncFlags[c], n) <=> n = SyncTurn(c)
<1>1. SyncGoal \in {"EQUAL", "NOT_EQUAL"}
  BY DEF SyncGoal
<1>2. SyncTurn(c) = usHSyncFlags[c] + (IF SyncGoal = "NOT_EQUAL" THEN 1 ELSE 0)
  BY DEF SyncTurn, SyncGoal
<1> QED
  BY <1>1, <1>2, ParityFact

(* The cached sync bits lag behind by at most the toggle the host waits for. *)
LEMMA SyncStep ==
  ASSUME IOInv, [Next]_vars
  PROVE  SyncInv'
<1>0. SyncInv /\ FlowInv /\ TypeTh /\ TypeSync /\ TypeSc /\ TypeDsr /\ NotifyInv
  BY TypeParts DEF IOInv
<1>1. \A c \in Channel : cellSync[c] \in Nat /\ usHSyncFlags[c] \in Nat /\ usNSyncFlags[c] \in Nat
  BY <1>0 DEF TypeSync
<1>2. \A t \in Thread : SyncCh[t] \in Channel
  BY IOAssumption
<1>3. ASSUME UNCHANGED <<sc, th, cellSync, usHSyncFlags, usNSyncFlags>>,
             irq'.st = "sync" => irq.st = "sync" /\ irq'.sync = irq.sync
      PROVE  SyncInv'
  BY <1>0, <1>3 DEF SyncInv, SyncTurn, syncMode, fIrqEnabled
<1>4. ASSUME NEW t \in Thread, Call(t) \/ Step(t) PROVE SyncInv'
  <2>1. UNCHANGED <<sc, cellSync, irq>>
    BY <1>4, ThreadFrame
  <2> SUFFICES ASSUME sc.irq PROVE SyncInv'
    BY <2>1 DEF SyncInv, fIrqEnabled
  <2>2. usNSyncFlags' = usNSyncFlags
    BY <1>0, <1>4, ThreadChanges DEF StoreSync, FlowInv, FlowAt, fIrqEnabled
  <2>3. /\ \A c \in Channel :
             /\ cellSync[c] <= SyncTurn(c) /\ SyncTurn(c) <= usNSyncFlags[c] + 1
             /\ usNSyncFlags[c] <= cellSync[c]
             /\ irq.st = "sync" => usNSyncFlags[c] <= irq.sync[c] /\ irq.sync[c] <= cellSync[c]
             /\ syncMode = "OFF" => cellSync[c] = usHSyncFlags[c]
        /\ \A u \in Thread : th[u].pc = "syncToggle" /\ th[u].op # "Wait" =>
             usNSyncFlags[SyncCh[u]] = SyncTurn(SyncCh[u])
    BY <1>0 DEF SyncInv, fIrqEnabled
  <2>4. \/ usHSyncFlags' = usHSyncFlags
        \/ /\ th[t].pc = "syncToggle" /\ th[t].op # "Wait" /\ th'[t].pc = "idle"
           /\ usHSyncFlags' = [usHSyncFlags EXCEPT ![SyncCh[t]] = @ + 1]
    BY <1>0, <1>4, ThreadChanges, ReturnFact DEF ToggleSync
  <2>5. CASE usHSyncFlags' = usHSyncFlags
    <3>1. \A c \in Channel : SyncTurn(c)' = SyncTurn(c)
      BY <2>1, <2>5 DEF SyncTurn, syncMode
    <3>2. ASSUME NEW u \in Thread, th'[u].pc = "syncToggle", th'[u].op # "Wait"
          PROVE  usNSyncFlags[SyncCh[u]] = SyncTurn(SyncCh[u])
      <4>1. CASE u # t
        BY <1>0, <1>4, <2>3, <3>2, <4>1, ThreadMoves
      <4>2. CASE u = t
        <5>1. SyncReached(SyncCh[t])
          BY <1>0, <1>4, <3>2, <4>2, ThreadMoves, GotoFact, ReturnFact DEF EvalSync, SyncTimeout
        <5>2. PICK c \in Channel : c = SyncCh[t]
          BY <1>2
        <5>3. /\ usNSyncFlags[c] \in Nat /\ usHSyncFlags[c] \in Nat
              /\ usNSyncFlags[c] <= SyncTurn(c) /\ SyncTurn(c) <= usNSyncFlags[c] + 1
          BY <1>1, <2>3 DEF SyncTurn
        <5>4. HasState(SyncGoal, usHSyncFlags[c], usNSyncFlags[c])
          BY <5>1, <5>2 DEF SyncReached
        <5> QED
          BY <4>2, <5>2, <5>3, <5>4, SyncTurnFact
      <4> QED
        BY <4>1, <4>2
    <3> QED
      BY <1>2, <2>1, <2>2, <2>3, <2>5, <3>1, <3>2 DEF SyncInv, syncMode
  <2>6. CASE /\ th[t].pc = "syncToggle" /\ th[t].op # "Wait" /\ th'[t].pc = "idle"
             /\ usHSyncFlags' = [usHSyncFlags EXCEPT ![SyncCh[t]] = @ + 1]
    <3>1. PICK d \in Channel : d = SyncCh[t]
      BY <1>2
    <3>2. /\ usHSyncFlags'[d] = usHSyncFlags[d] + 1
          /\ \A c \in Channel : c # d => usHSyncFlags'[c] = usHSyncFlags[c]
      BY <1>0, <2>6, <3>1 DEF TypeSync
    <3>3. /\ SyncTurn(d)' = SyncTurn(d) + 1
          /\ \A c \in Channel : c # d => SyncTurn(c)' = SyncTurn(c)
      BY <1>1, <2>1, <3>2 DEF SyncTurn, syncMode
    <3>4. usNSyncFlags[d] = SyncTurn(d)
      BY <2>3, <2>6, <3>1
    <3>5. syncMode # "OFF"
      BY <1>0, <2>6 DEF FlowInv, FlowAt, SyncLabel
    <3>6. ASSUME NEW u \in Thread, th'[u].pc = "syncToggle", th'[u].op # "Wait"
          PROVE  usNSyncFlags[SyncCh[u]] = SyncTurn(SyncCh[u]) /\ SyncCh[u] # d
      <4>1. u # t
        BY <2>6, <3>6
      <4>2. th'[u] = th[u]
        BY <1>0, <1>4, <4>1, ThreadMoves
      <4> QED
        BY <1>0, <2>3, <2>6, <3>1, <3>6, <4>1, <4>2, SyncExclusive
    <3>7. ASSUME NEW c \in Channel
          PROVE  cellSync[c] <= SyncTurn(c)' /\ SyncTurn(c)' <= usNSyncFlags[c] + 1
      <4>1. CASE c = d
        BY <1>1, <2>3, <3>3, <3>4, <4>1 DEF SyncTurn
      <4>2. CASE c # d
        BY <2>3, <3>3, <4>2
      <4> QED
        BY <4>1, <4>2
    <3>8. \A u \in Thread : th'[u].pc = "syncToggle" /\ th'[u].op # "Wait" =>
            usNSyncFlags[SyncCh[u]] = SyncTurn(SyncCh[u])'
      BY <1>2, <3>3, <3>6
    <3> QED
      BY <2>1, <2>2, <2>3, <3>5, <3>7, <3>8 DEF SyncInv, syncMode
  <2> QED
    BY <2>4, <2>5, <2>6
<1>5. ASSUME Isr PROVE SyncInv'
  <2>1. /\ UNCHANGED <<sc, th, cellSync, usHSyncFlags, usNSyncFlags>>
        /\ irq'.sync = cellSync
    BY <1>0, <1>5 DEF Isr, IrqOnly, fixed, TypeDsr, IrqLocals
  <2> QED
    BY <1>0, <1>1, <2>1 DEF SyncInv, SyncTurn, syncMode, fIrqEnabled
<1>6. ASSUME DsrSync PROVE SyncInv'
  <2>1. /\ UNCHANGED <<sc, th, cellSync, usHSyncFlags>> /\ usNSyncFlags' = irq.sync
        /\ irq.st = "sync" /\ irq'.st = "syncWork"
    BY <1>0, <1>6 DEF DsrSync, IrqOnly, fixed, TypeDsr, IrqLocals
  <2>2. \A c \in Channel : irq.sync[c] \in Nat /\ SyncTurn(c) \in Nat /\ SyncTurn(c)' = SyncTurn(c)
    BY <1>0, <1>1, <2>1 DEF TypeDsr, IrqLocals, SyncTurn, syncMode
  <2> SUFFICES ASSUME sc.irq PROVE SyncInv'
    BY <2>1 DEF SyncInv, fIrqEnabled
  <2>3. /\ \A c \in Channel :
             /\ cellSync[c] <= SyncTurn(c) /\ SyncTurn(c) <= usNSyncFlags[c] + 1
             /\ usNSyncFlags[c] <= irq.sync[c] /\ irq.sync[c] <= cellSync[c]
             /\ syncMode = "OFF" => cellSync[c] = usHSyncFlags[c]
        /\ \A u \in Thread : th[u].pc = "syncToggle" /\ th[u].op # "Wait" =>
             usNSyncFlags[SyncCh[u]] = SyncTurn(SyncCh[u])
    BY <1>0, <2>1 DEF SyncInv, fIrqEnabled
  <2>4. \A c \in Channel : usNSyncFlags[c] = SyncTurn(c) => irq.sync[c] = SyncTurn(c)
    BY <1>1, <2>2, <2>3
  <2>5. \A c \in Channel : SyncTurn(c) <= irq.sync[c] + 1
    BY <1>1, <2>2, <2>3
  <2> QED
    BY <1>2, <2>1, <2>2, <2>3, <2>4, <2>5 DEF SyncInv, syncMode
<1>7. ASSUME DsrFlags \/ DsrEnd \/ DsrTest \/ DsrCall PROVE SyncInv'
  <2>1. UNCHANGED <<sc, th, cellSync, usHSyncFlags, usNSyncFlags>>
    BY <1>7 DEF DsrFlags, DsrEnd, DsrTest, DsrCall, IrqOnly, fixed
  <2>2. irq'.st # "sync"
    <3>0. CASE DsrFlags
      BY <1>0, <3>0 DEF DsrFlags, TypeDsr, IrqLocals
    <3>1. CASE DsrEnd
      BY <3>1 DEF DsrEnd, NoIrq
    <3>2. CASE DsrTest
      BY <1>0, <3>2, DsrTestFact
    <3>3. CASE DsrCall
      BY <1>0, <3>3, DsrCallFact
    <3> QED
      BY <1>7, <3>0, <3>1, <3>2, <3>3
  <2> QED
    BY <1>3, <2>1, <2>2
<1>8. ASSUME DeviceSync PROVE SyncInv'
  <2>1. UNCHANGED <<sc, th, irq, usHSyncFlags, usNSyncFlags>>
    BY <1>8, DeviceFrame DEF Device
  <2>2. PICK d \in Channel : /\ syncMode # "OFF" /\ ~HasState(SyncGoal, usHSyncFlags[d], cellSync[d])
                             /\ cellSync' = [cellSync EXCEPT ![d] = @ + 1]
    BY <1>8 DEF DeviceSync
  <2> SUFFICES ASSUME sc.irq PROVE SyncInv'
    BY <2>1 DEF SyncInv, fIrqEnabled
  <2>3. \A c \in Channel :
             /\ cellSync[c] <= SyncTurn(c) /\ SyncTurn(c) <= usNSyncFlags[c] + 1
             /\ usNSyncFlags[c] <= cellSync[c]
             /\ irq.st = "sync" => usNSyncFlags[c] <= irq.sync[c] /\ irq.sync[c] <= cellSync[c]
    BY <1>0 DEF SyncInv, fIrqEnabled
  <2>4. \A c \in Channel : SyncTurn(c) \in Nat /\ SyncTurn(c)' = SyncTurn(c) /\ irq.sync[c] \in Nat
    BY <1>0, <1>1, <2>1 DEF SyncTurn, syncMode, TypeDsr, IrqLocals
  <2>5. SyncTurn(d) <= cellSync[d] + 1
    BY <1>1, <2>3, <2>4
  <2>6. cellSync[d] # SyncTurn(d)
    BY <1>1, <2>2, <2>3, <2>5, SyncTurnFact
  <2>7. /\ cellSync'[d] = cellSync[d] + 1 /\ \A c \in Channel : c # d => cellSync'[c] = cellSync[c]
    BY <1>0, <2>2 DEF TypeSync
  <2>8. ASSUME NEW c \in Channel
        PROVE  /\ cellSync'[c] <= SyncTurn(c) /\ usNSyncFlags[c] <= cellSync'[c]
               /\ irq.st = "sync" => irq.sync[c] <= cellSync'[c]
    <3>1. CASE c = d
      BY <1>1, <2>3, <2>4, <2>6, <2>7, <3>1
    <3>2. CASE c # d
      BY <2>3, <2>7, <3>2
    <3> QED
      BY <3>1, <3>2
  <2> QED
    BY <1>0, <1>2, <2>1, <2>2, <2>3, <2>4, <2>8 DEF SyncInv, syncMode, fIrqEnabled
<1>9. CASE Interrupt
  BY <1>5, <1>6, <1>7, <1>9 DEF Interrupt
<1>10. CASE Device
  <2>1. CASE DeviceSync
    BY <1>8, <2>1
  <2>2. CASE ~DeviceSync
    <3>1. cellSync' = cellSync
      BY <1>10, <2>2 DEF Device, DeviceIn, DeviceOut, DeviceChange
    <3> QED
      BY <1>3, <1>10, <3>1, DeviceFrame
  <2> QED
    BY <2>1, <2>2
<1>11. CASE UNCHANGED vars
  BY <1>3, <1>11 DEF vars, hostVars, fixed, devVars
<1> QED
  BY <1>4, <1>9, <1>10, <1>11 DEF Next

-----------------------------------------------------------------------------
(* Notifications.                                                           *)

(* A registration that was undone is in no slot any more. *)
LEMMA NotifyStep ==
  ASSUME IOInv, [Next]_vars
  PROVE  NotifyInv'
<1>0. NotifyInv /\ TypeSlots /\ TypeSc /\ TypeDsr
  BY TypeParts DEF IOInv
<1>1. sc.slot \in Slot /\ pfn \in [Slot -> Nat] /\ regs \in Nat /\ gone \subseteq 1 .. regs
  BY <1>0, ScenarioFact DEF TypeSlots
<1>2. ASSUME UNCHANGED <<goneBefore, gone, pfn, regs, irq, sc>> PROVE NotifyInv'
  BY <1>0, <1>2 DEF NotifyInv
<1>3. ASSUME NEW t \in Thread, Call(t) \/ Step(t) PROVE NotifyInv'
  <2>1. UNCHANGED <<sc, irq, goneBefore>>
    BY <1>3, ThreadFrame
  <2>2. CASE Register(t)
    <3>1. UNCHANGED gone
      BY <2>2 DEF Register
    <3>2. \/ UNCHANGED <<pfn, regs>>
          \/ regs' = regs + 1 /\ pfn' = [pfn EXCEPT ![sc.slot] = regs + 1]
      BY <2>2 DEF Register
    <3> QED
      BY <1>0, <1>1, <2>1, <3>1, <3>2 DEF NotifyInv
  <2>3. CASE Unregister(t)
    <3>1. UNCHANGED regs
      BY <2>3 DEF Unregister
    <3>2. \/ UNCHANGED <<pfn, gone>>
          \/ /\ pfn[sc.slot] # 0 /\ pfn' = [pfn EXCEPT ![sc.slot] = 0]
             /\ gone' = gone \cup {pfn[sc.slot]}
      BY <2>3 DEF Unregister, ClearedPfn
    <3> QED
      BY <1>0, <1>1, <2>1, <3>1, <3>2 DEF NotifyInv
  <2>4. CASE ~(Register(t) \/ Unregister(t))
    BY <1>2, <1>3, <2>1, <2>4, ThreadChanges
  <2> QED
    BY <2>2, <2>3, <2>4
<1>4. CASE Interrupt
  <2>1. UNCHANGED <<sc, pfn, regs, gone>>
    BY <1>4, InterruptFrame
  <2>2. CASE Isr
    <3>1. goneBefore' = gone /\ irq'.st = "sync" /\ irq'.pfn = 0
      BY <1>0, <2>2 DEF Isr, TypeDsr, IrqLocals, NotifyInv
    <3> QED
      BY <1>0, <2>1, <3>1 DEF NotifyInv
  <2>3. CASE DsrSync \/ DsrFlags \/ DsrEnd
    <3>1. goneBefore' = goneBefore /\ irq'.st \in {"syncWork", "bitWork", "idle"} /\ irq'.pfn = 0
      <4>1. CASE DsrSync
        BY <1>0, <4>1 DEF DsrSync, TypeDsr, IrqLocals, NotifyInv
      <4>2. CASE DsrFlags
        BY <1>0, <4>2 DEF DsrFlags, TypeDsr, IrqLocals, NotifyInv
      <4>3. CASE DsrEnd
        BY <4>3 DEF DsrEnd, NoIrq
      <4> QED
        BY <2>3, <4>1, <4>2, <4>3
    <3> QED
      BY <1>0, <2>1, <3>1 DEF NotifyInv
  <2>4. CASE DsrTest
    <3>1. goneBefore' = goneBefore
      BY <2>4 DEF DsrTest
    <3> QED
      BY <1>0, <2>1, <2>4, <3>1, DsrTestFact DEF NotifyInv
  <2>5. CASE DsrCall
    <3>1. goneBefore' = goneBefore
      BY <2>5 DEF DsrCall
    <3> QED
      BY <1>0, <2>1, <2>5, <3>1, DsrCallFact DEF NotifyInv
  <2> QED
    BY <1>4, <2>2, <2>3, <2>4, <2>5 DEF Interrupt
<1>5. CASE Device
  BY <1>2, <1>5, DeviceFrame
<1>6. CASE UNCHANGED vars
  BY <1>2, <1>6 DEF vars, hostVars, histVars, fixed
<1> QED
  BY <1>3, <1>4, <1>5, <1>6 DEF Next

(* A DSR calls nothing that was gone when it began. *)
LEMMA LateCallStep ==
  ASSUME IOInv, [Next]_vars
  PROVE  LateCallBounded'
<1>0. LateCallBounded /\ NotifyInv /\ TypeSlots /\ TypeDsr
  BY TypeParts DEF IOInv
<1>1. ASSUME UNCHANGED <<called, goneBefore>> PROVE LateCallBounded'
  BY <1>0, <1>1 DEF LateCallBounded
<1>2. CASE Isr
  BY <1>0, <1>2 DEF Isr, NoCall, LateCallBounded, TypeSlots
<1>3. CASE DsrCall
  <2>1. goneBefore' = goneBefore
    BY <1>3 DEF DsrCall
  <2> QED
    BY <1>0, <1>3, <2>1, DsrCallFact DEF LateCallBounded, NotifyInv
<1>4. CASE DsrSync \/ DsrFlags \/ DsrTest \/ DsrEnd
  BY <1>1, <1>4 DEF DsrSync, DsrFlags, DsrTest, DsrEnd
<1>5. CASE \E t \in Thread : Call(t) \/ Step(t)
  BY <1>1, <1>5, ThreadFrame
<1>6. CASE Device
  BY <1>1, <1>6, DeviceFrame
<1>7. CASE UNCHANGED vars
  BY <1>1, <1>7 DEF vars, histVars
<1> QED
  BY <1>2, <1>3, <1>4, <1>5, <1>6, <1>7 DEF Next, Interrupt

-----------------------------------------------------------------------------
(* The theorems.                                                            *)

(* The first state: the bits are equal, no thread is inside a call. *)
LEMMA InitInv ==
  ASSUME Init
  PROVE  IOInv
<1>1. sc \in Scenario /\ TypeSc
  BY DEF Init, TypeSc
<1>2. /\ sc.irq \in BOOLEAN /\ sc.mode \in [Area -> Mode] /\ sc.changes \in Nat
  BY <1>1, ScenarioFact
<1>3. NumCh \in Nat \ {0} /\ MaxCalls \in Nat
  BY IOAssumption
<1>4. /\ TypeMisc /\ TypeUsed /\ TypeSync /\ TypeEvents /\ TypeMutex
  <2>1. TypeMisc
    BY DEF Init, TypeMisc
  <2>2. TypeUsed
    BY <1>2, <1>3 DEF Init, TypeUsed
  <2>3. TypeSync /\ TypeEvents /\ TypeMutex
    BY DEF Init, TypeSync, TypeEvents, TypeMutex, Zero
  <2> QED
    BY <2>1, <2>2, <2>3
<1>5. TypeAreas
  BY DEF Init, TypeAreas, OutUnit, Zero
<1>6. TypeFlags /\ TypeSlots
  BY DEF Init, TypeFlags, TypeSlots, Zero
<1>7. TypeTh
  <2>1. NoLocals \in Locals
    BY DEF NoLocals, Locals, Zero, Label, Op, Mode, Result
  <2> QED
    BY <2>1 DEF Init, TypeTh
<1>8. TypeDsr
  BY DEF Init, TypeDsr, IrqLocals, NoIrq, Zero, DsrState
<1>9. TypeOK
  BY <1>1, <1>4, <1>5, <1>6, <1>7, <1>8, TypeParts
<1>10. \A t \in Thread : th[t].pc = "idle"
  BY DEF Init, NoLocals
<1>11. FlowInv /\ MutexInv /\ HoldInv
  BY <1>10 DEF FlowInv, FlowAt, MutexInv, HoldInv, LockedLabel, CopyLabel, SyncLabel
<1>12. irq.st = "idle" /\ irq.pfn = 0
  BY DEF Init, NoIrq
<1>13. \A a \in Area : cellNetx[a] = 0 /\ usNetxFlags[a] = 0 /\ usHostFlags[a] = 0
  BY DEF Init, Zero, Bit
<1>14. LagInv
  BY <1>12, <1>13 DEF LagInv, Turn, Ahead
<1>15. InInv
  BY <1>10, <1>13 DEF InInv, Turn, Ahead, Init, Zero, Unit, Area
<1>16. OutInv
  BY <1>10, <1>13 DEF OutInv, Turn, Ahead, Init, Unit, Area
<1>17. SyncInv
  BY <1>10, <1>12 DEF SyncInv, SyncTurn, Init, Zero
<1>18. NotifyInv /\ LateCallBounded
  BY <1>12 DEF NotifyInv, LateCallBounded, Init, Zero, NoCall
<1> QED
  BY <1>9, <1>11, <1>14, <1>15, <1>16, <1>17, <1>18 DEF IOInv

(* Every step keeps the invariant. *)
LEMMA NextInv ==
  ASSUME IOInv, [Next]_vars
  PROVE  IOInv'
<1>1. TypeOK'
  BY TypeScStep, TypeMiscStep, TypeUsedStep, TypeAreasStep, TypeFlagsStep, TypeSyncStep,
     TypeEventsStep,
     TypeMutexStep, TypeSlotsStep, TypeThStep, TypeDsrStep
     DEF TypeOK, TypeSc, TypeMisc, TypeUsed, TypeAreas, TypeFlags, TypeSync, TypeEvents, TypeMutex,
     TypeSlots, TypeTh, TypeDsr, Locals, IrqLocals
<1> QED
  BY <1>1, FlowStep, MutexStep, LagStep, HoldStep, InStep, OutStep, SyncStep, NotifyStep,
     LateCallStep
     DEF IOInv

(* The inductive invariant holds in every reachable state, for any number   *)
(* of threads, channels and calls.                                          *)
THEOREM Invariance == Spec => []IOInv
<1>1. Init => IOInv
  BY InitInv
<1>2. IOInv /\ [Next]_vars => IOInv'
  BY NextInv
<1> QED
  BY <1>1, <1>2, PTL DEF Spec

(* Every variable of the process data, sync and notification code keeps the *)
(* type its declaration gives it.                                           *)
THEOREM TypeCorrect == Spec => []TypeOK
<1>1. IOInv => TypeOK
  BY DEF IOInv
<1> QED
  BY <1>1, Invariance, PTL

(* xChannelIORead, xChannelIOWrite and the PLC functions exchange every     *)
(* frame once, in order and in one piece.                                   *)
THEOREM ProcessDataIsExact == Spec => []ProcessDataExact
<1>1. ASSUME IOInv PROVE ProcessDataExact
  <2>0. InInv /\ OutInv /\ FlowInv /\ TypeAreas /\ TypeFlags
    BY <1>1, TypeParts DEF IOInv
  <2>1. ASSUME NEW t \in Thread, th[t].pc = "toggle", AreaOf(t) = "in"
        PROVE  /\ \A i \in Unit : th[t].buf[i] = cellNetx["in"]
               /\ cellNetx["in"] = usHostFlags["in"] + Ahead("in")
    <3>1. mode["in"] # "NONE"
      BY <2>0, <2>1 DEF FlowInv, FlowAt, LockedLabel
    <3>2. cellNetx["in"] = Turn("in")
      BY <1>1, <2>1, <3>1, HostsTurn DEF CopyLabel
    <3>3. th[t].buf[1] = cellNetx["in"] /\ th[t].buf[2] = cellNetx["in"]
      BY <2>0, <2>1, <3>1 DEF InInv
    <3> QED
      BY <3>2, <3>3 DEF Turn, Unit
  <2>2. devOut.done = 2 => /\ devOut.copy[1] = devOut.copy[2]
                           /\ devOut.copy[1].nr + Ahead("out") = cellNetx["out"]
    BY <2>0 DEF OutInv
  <2> QED
    BY <2>1, <2>2 DEF ProcessDataExact
<1> QED
  BY <1>1, Invariance, PTL

(* xChannelSyncState: with interrupts host and device toggle the sync bit   *)
(* of a channel in turn.                                                    *)
THEOREM SyncBitsAlternate == Spec => []SyncAlternates
<1>1. ASSUME IOInv PROVE SyncAlternates
  <2>0. SyncInv /\ TypeSync /\ TypeSc
    BY <1>1, TypeParts DEF IOInv
  <2>1. \A c \in Channel : cellSync[c] \in Nat /\ usHSyncFlags[c] \in Nat /\ usNSyncFlags[c] \in Nat
    BY <2>0 DEF TypeSync
  <2>2. syncMode \in {"OFF", "DEV_CTRL", "HST_CTRL"}
    BY <2>0, ScenarioFact DEF syncMode, SyncMode
  <2>3. ASSUME fIrqEnabled, NEW c \in Channel
        PROVE  /\ cellSync[c] <= SyncTurn(c) /\ SyncTurn(c) <= cellSync[c] + 1
               /\ syncMode = "OFF" => cellSync[c] = usHSyncFlags[c]
    BY <2>0, <2>1, <2>3 DEF SyncInv, SyncTurn
  <2> QED
    BY <2>1, <2>2, <2>3 DEF SyncAlternates, SyncTurn
<1> QED
  BY <1>1, Invariance, PTL

(* xChannelUnregisterNotification: a DSR that begins after it never calls   *)
(* the callback, and ProcessIOArea never calls through a NULL pointer.      *)
THEOREM LateCallsBounded == Spec => []LateCallBounded
<1>1. IOInv => LateCallBounded
  BY DEF IOInv
<1> QED
  BY <1>1, Invariance, PTL

===============================================================================

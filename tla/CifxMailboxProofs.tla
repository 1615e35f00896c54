------------------------- MODULE CifxMailboxProofs -------------------------
(***************************************************************************)
(* Proofs about CifxMailbox, for any number of threads, calls, packets and *)
(* COS commands and for both interrupt and polling mode.                   *)
(***************************************************************************)
EXTENDS CifxMailbox, TLAPS

(* The packet numbers the bounds admit. *)
LEMMA PacketFacts ==
  /\ 0 \in Packet
  /\ \A n \in 0 .. MaxCalls : n < MaxCalls => n + 1 \in Packet
  /\ \A n \in Nat : n < MaxPosts => n + 1 \in Packet
BY BoundAssumption DEF Packet

(* Toggling a handshake bit stays within the handshake bits. *)
LEMMA ToggleType ==
  ASSUME NEW f \in SUBSET Bit, NEW b \in Bit
  PROVE  Toggle(f, b) \in SUBSET Bit
BY DEF Toggle

(* Every step keeps the types. *)
LEMMA TypeStep ==
  ASSUME TypeOK, [Next]_vars
  PROVE  TypeOK'
<1> USE DEF TypeOK, Label, Result, Bit, ReadyLabel, BitLabel, RetryLabel,
        WakeLabel, TimeoutResult, AfterRead, Toggle, NetxFlags, NewCOSFlags,
        MbxBit, SignalledBits, Return, threadVars, lockVars, flagVars,
        cntVars, irqVars, cellVars, dpmVars, histVars, Goto
<1>1. ASSUME NEW t \in Thread, NEW o \in {"put", "get", "state"}, NEW s \in Size,
            Call(t, o, s)
     PROVE  TypeOK'
  BY <1>1, BoundAssumption, PacketFacts DEF Call
<1>2. ASSUME NEW t \in Thread, WaitMutex(t) PROVE TypeOK'
  BY <1>2 DEF WaitMutex
<1>3. ASSUME NEW t \in Thread, ReadHandshakeFlags(t) PROVE TypeOK'
  BY <1>3, ZenonT(30) DEF ReadHandshakeFlags
<1>4. ASSUME NEW t \in Thread, ReadHandshakeFlagsAck(t) PROVE TypeOK'
  BY <1>4 DEF ReadHandshakeFlagsAck
<1>5. ASSUME NEW t \in Thread, IsReady(t) PROVE TypeOK'
  <2>1. pc' \in [Thread -> Label] /\ ret' \in [Thread -> Result]
    BY <1>5 DEF IsReady
  <2> QED
    BY <1>5, <2>1 DEF IsReady
<1>6. ASSUME NEW t \in Thread, BitStateOk(t) PROVE TypeOK'
  BY <1>6 DEF BitStateOk
<1>7. ASSUME NEW t \in Thread, BitStateRetry(t) PROVE TypeOK'
  BY <1>7 DEF BitStateRetry
<1>8. ASSUME NEW t \in Thread, WaitEvent(t) PROVE TypeOK'
  BY <1>8 DEF WaitEvent
<1>9. ASSUME NEW t \in Thread, CopyPacket(t) PROVE TypeOK'
  <2>1. pc' \in [Thread -> Label]
    BY <1>9 DEF CopyPacket
  <2>2. ret' \in [Thread -> Result]
    BY <1>9 DEF CopyPacket
  <2>3. pkt' \in [Thread -> Packet]
    <3>1. CASE op[t] = "put"
      BY <1>9, <3>1 DEF CopyPacket
    <3>2. CASE op[t] = "get"
      BY <1>9, <3>2 DEF CopyPacket
    <3> QED
      BY <1>9, <3>1, <3>2 DEF CopyPacket
  <2>4. sendMbx' \in Packet
    BY <1>9 DEF CopyPacket
  <2> QED
    BY <1>9, <2>1, <2>2, <2>3, <2>4 DEF CopyPacket
<1>10. ASSUME NEW t \in Thread, ToggleLoad(t) PROVE TypeOK'
  BY <1>10 DEF ToggleLoad
<1>11. ASSUME NEW t \in Thread, ToggleStore(t) PROVE TypeOK'
  <2>1. Toggle(tmp[t], MbxBit(t)) \in SUBSET Bit
    BY ToggleType
  <2> HIDE DEF Toggle
  <2>2. /\ accepted' \in {accepted, Append(accepted, pkt[t])}
        /\ received' \in {received, Append(received, pkt[t])}
    BY <1>11 DEF ToggleStore
  <2>3. Append(accepted, pkt[t]) \in Seq(Packet) /\ Append(received, pkt[t]) \in Seq(Packet)
    OBVIOUS
  <2>4. pc' \in [Thread -> Label] /\ tmp' \in [Thread -> SUBSET Bit]
    BY <1>11 DEF ToggleStore
  <2> QED
    BY <1>11, <2>1, <2>2, <2>3, <2>4, ZenonT(30) DEF ToggleStore
<1>12. ASSUME NEW t \in Thread, ReleaseMutex(t) PROVE TypeOK'
  BY <1>12 DEF ReleaseMutex
<1>13. ASSUME NEW t \in Thread, WaitMutexTimeout(t) PROVE TypeOK'
  BY <1>13 DEF WaitMutexTimeout
<1>14. ASSUME NEW t \in Thread, BitStateTimeout(t) PROVE TypeOK'
  BY <1>14 DEF BitStateTimeout
<1>15. ASSUME NEW t \in Thread, WaitEventTimeout(t) PROVE TypeOK'
  BY <1>15 DEF WaitEventTimeout
<1>16. ASSUME IsrConfirm PROVE TypeOK'
  BY <1>16 DEF IsrConfirm
<1>17. ASSUME IsrRead PROVE TypeOK'
  BY <1>17 DEF IsrRead
<1>18. ASSUME DsrUpdate PROVE TypeOK'
  BY <1>18 DEF DsrUpdate
<1>19. ASSUME DsrCosAck PROVE TypeOK'
  BY <1>19 DEF DsrCosAck
<1>20. ASSUME DsrSignal PROVE TypeOK'
  BY <1>20 DEF DsrSignal
<1>21. ASSUME DeviceTake PROVE TypeOK'
  BY <1>21, BoundAssumption DEF DeviceTake
<1>22. ASSUME DevicePost PROVE TypeOK'
  <2>1. Len(posted) + 1 \in Packet
    BY <1>22, PacketFacts DEF DevicePost
  <2>2. posted' \in Seq(Packet)
    BY <1>22, <2>1 DEF DevicePost
  <2> QED
    BY <1>22, <2>1, <2>2, BoundAssumption DEF DevicePost
<1>23. ASSUME DeviceCos PROVE TypeOK'
  BY <1>23, BoundAssumption DEF DeviceCos
<1>24. CASE UNCHANGED vars
  BY <1>24 DEF vars
<1> HIDE DEF TypeOK, Label, Result, Bit, ReadyLabel, BitLabel, RetryLabel,
        WakeLabel, TimeoutResult, AfterRead, Toggle, NetxFlags, NewCOSFlags,
        MbxBit, SignalledBits, Return, threadVars, lockVars, flagVars,
        cntVars, irqVars, cellVars, dpmVars, histVars, Goto
<1> QED
  BY <1>1, <1>2, <1>3, <1>4, <1>5, <1>6, <1>7, <1>8, <1>9, <1>10, <1>11,
     <1>12, <1>13, <1>14, <1>15, <1>16, <1>17, <1>18, <1>19, <1>20, <1>21,
     <1>22, <1>23, <1>24, BoundAssumption DEF Next, ThreadStep, ThreadTimeout,
     IrqStep

(* Interrupt mode never polls, polling mode never sees an interrupt. *)
LEMMA ModeStep ==
  ASSUME TypeOK, ModeInv, [Next]_vars
  PROVE  ModeInv'
<1> USE DEF TypeOK, ModeInv, ReadyLabel, BitLabel, RetryLabel, WakeLabel,
        TimeoutResult, AfterRead, Toggle, NetxFlags, NewCOSFlags, MbxBit,
        SignalledBits, Return, threadVars, lockVars, flagVars, cntVars,
        irqVars, cellVars, dpmVars, histVars, Goto
<1>1. ASSUME NEW t \in Thread, NEW o \in {"put", "get", "state"}, NEW s \in Size,
            Call(t, o, s)
     PROVE  ModeInv'
  BY <1>1 DEF Call
<1>2. ASSUME NEW t \in Thread, WaitMutex(t) PROVE ModeInv'
  BY <1>2 DEF WaitMutex
<1>3. ASSUME NEW t \in Thread, ReadHandshakeFlags(t) PROVE ModeInv'
  BY <1>3 DEF ReadHandshakeFlags
<1>4. ASSUME NEW t \in Thread, ReadHandshakeFlagsAck(t) PROVE ModeInv'
  BY <1>4 DEF ReadHandshakeFlagsAck
<1>5. ASSUME NEW t \in Thread, IsReady(t) PROVE ModeInv'
  BY <1>5 DEF IsReady
<1>6. ASSUME NEW t \in Thread, BitStateOk(t) PROVE ModeInv'
  BY <1>6 DEF BitStateOk
<1>7. ASSUME NEW t \in Thread, BitStateRetry(t) PROVE ModeInv'
  BY <1>7 DEF BitStateRetry
<1>8. ASSUME NEW t \in Thread, WaitEvent(t) PROVE ModeInv'
  BY <1>8 DEF WaitEvent
<1>9. ASSUME NEW t \in Thread, CopyPacket(t) PROVE ModeInv'
  BY <1>9 DEF CopyPacket
<1>10. ASSUME NEW t \in Thread, ToggleLoad(t) PROVE ModeInv'
  BY <1>10 DEF ToggleLoad
<1>11. ASSUME NEW t \in Thread, ToggleStore(t) PROVE ModeInv'
  BY <1>11 DEF ToggleStore
<1>12. ASSUME NEW t \in Thread, ReleaseMutex(t) PROVE ModeInv'
  BY <1>12 DEF ReleaseMutex
<1>13. ASSUME NEW t \in Thread, WaitMutexTimeout(t) PROVE ModeInv'
  BY <1>13 DEF WaitMutexTimeout
<1>14. ASSUME NEW t \in Thread, BitStateTimeout(t) PROVE ModeInv'
  BY <1>14 DEF BitStateTimeout
<1>15. ASSUME NEW t \in Thread, WaitEventTimeout(t) PROVE ModeInv'
  BY <1>15 DEF WaitEventTimeout
<1>16. ASSUME IsrConfirm PROVE ModeInv'
  BY <1>16, BoundAssumption DEF IsrConfirm
<1>17. ASSUME IsrRead PROVE ModeInv'
  BY <1>17, BoundAssumption DEF IsrRead
<1>18. ASSUME DsrUpdate PROVE ModeInv'
  BY <1>18, BoundAssumption DEF DsrUpdate
<1>19. ASSUME DsrCosAck PROVE ModeInv'
  BY <1>19, BoundAssumption DEF DsrCosAck
<1>20. ASSUME DsrSignal PROVE ModeInv'
  BY <1>20, BoundAssumption DEF DsrSignal
<1>21. ASSUME DeviceTake PROVE ModeInv'
  BY <1>21, BoundAssumption DEF DeviceTake
<1>22. ASSUME DevicePost PROVE ModeInv'
  BY <1>22, BoundAssumption DEF DevicePost
<1>23. ASSUME DeviceCos PROVE ModeInv'
  BY <1>23, BoundAssumption DEF DeviceCos
<1>24. CASE UNCHANGED vars
  BY <1>24 DEF vars
<1> HIDE DEF TypeOK, ModeInv, ReadyLabel, BitLabel, RetryLabel, WakeLabel,
        TimeoutResult, AfterRead, Toggle, NetxFlags, NewCOSFlags, MbxBit,
        SignalledBits, Return, threadVars, lockVars, flagVars, cntVars,
        irqVars, cellVars, dpmVars, histVars, Goto
<1> QED
  BY <1>1, <1>2, <1>3, <1>4, <1>5, <1>6, <1>7, <1>8, <1>9, <1>10, <1>11,
     <1>12, <1>13, <1>14, <1>15, <1>16, <1>17, <1>18, <1>19, <1>20, <1>21,
     <1>22, <1>23, <1>24, BoundAssumption DEF Next, ThreadStep, ThreadTimeout,
     IrqStep

(* The mailbox mutexes are owned exactly between acquire and release. *)
LEMMA MutexStep ==
  ASSUME TypeOK, MutexInv, [Next]_vars
  PROVE  MutexInv'
<1> USE DEF TypeOK, MutexInv, Busy, MutexFree, ReadyLabel, BitLabel,
        RetryLabel, WakeLabel, TimeoutResult, AfterRead, Toggle, NetxFlags,
        NewCOSFlags, MbxBit, SignalledBits, Return, threadVars, lockVars,
        flagVars, cntVars, irqVars, cellVars, dpmVars, histVars, Goto
<1>1. ASSUME NEW t \in Thread, NEW o \in {"put", "get", "state"}, NEW s \in Size,
            Call(t, o, s)
     PROVE  MutexInv'
  BY <1>1 DEF Call
<1>2. ASSUME NEW t \in Thread, WaitMutex(t) PROVE MutexInv'
  BY <1>2, ThreadAssumption DEF WaitMutex
<1>3. ASSUME NEW t \in Thread, ReadHandshakeFlags(t) PROVE MutexInv'
  BY <1>3 DEF ReadHandshakeFlags
<1>4. ASSUME NEW t \in Thread, ReadHandshakeFlagsAck(t) PROVE MutexInv'
  BY <1>4 DEF ReadHandshakeFlagsAck
<1>5. ASSUME NEW t \in Thread, IsReady(t) PROVE MutexInv'
  BY <1>5 DEF IsReady
<1>6. ASSUME NEW t \in Thread, BitStateOk(t) PROVE MutexInv'
  BY <1>6 DEF BitStateOk
<1>7. ASSUME NEW t \in Thread, BitStateRetry(t) PROVE MutexInv'
  BY <1>7 DEF BitStateRetry
<1>8. ASSUME NEW t \in Thread, WaitEvent(t) PROVE MutexInv'
  BY <1>8 DEF WaitEvent
<1>9. ASSUME NEW t \in Thread, CopyPacket(t) PROVE MutexInv'
  BY <1>9 DEF CopyPacket
<1>10. ASSUME NEW t \in Thread, ToggleLoad(t) PROVE MutexInv'
  BY <1>10 DEF ToggleLoad
<1>11. ASSUME NEW t \in Thread, ToggleStore(t) PROVE MutexInv'
  BY <1>11 DEF ToggleStore
<1>12. ASSUME NEW t \in Thread, ReleaseMutex(t) PROVE MutexInv'
  BY <1>12, ThreadAssumption DEF ReleaseMutex
<1>13. ASSUME NEW t \in Thread, WaitMutexTimeout(t) PROVE MutexInv'
  BY <1>13 DEF WaitMutexTimeout
<1>14. ASSUME NEW t \in Thread, BitStateTimeout(t) PROVE MutexInv'
  BY <1>14 DEF BitStateTimeout
<1>15. ASSUME NEW t \in Thread, WaitEventTimeout(t) PROVE MutexInv'
  BY <1>15 DEF WaitEventTimeout
<1>16. ASSUME IsrConfirm PROVE MutexInv'
  BY <1>16 DEF IsrConfirm
<1>17. ASSUME IsrRead PROVE MutexInv'
  BY <1>17 DEF IsrRead
<1>18. ASSUME DsrUpdate PROVE MutexInv'
  BY <1>18 DEF DsrUpdate
<1>19. ASSUME DsrCosAck PROVE MutexInv'
  BY <1>19 DEF DsrCosAck
<1>20. ASSUME DsrSignal PROVE MutexInv'
  BY <1>20 DEF DsrSignal
<1>21. ASSUME DeviceTake PROVE MutexInv'
  BY <1>21 DEF DeviceTake
<1>22. ASSUME DevicePost PROVE MutexInv'
  BY <1>22 DEF DevicePost
<1>23. ASSUME DeviceCos PROVE MutexInv'
  BY <1>23 DEF DeviceCos
<1>24. CASE UNCHANGED vars
  BY <1>24 DEF vars
<1> HIDE DEF TypeOK, MutexInv, Busy, MutexFree, ReadyLabel, BitLabel,
        RetryLabel, WakeLabel, TimeoutResult, AfterRead, Toggle, NetxFlags,
        NewCOSFlags, MbxBit, SignalledBits, Return, threadVars, lockVars,
        flagVars, cntVars, irqVars, cellVars, dpmVars, histVars, Goto
<1> QED
  BY <1>1, <1>2, <1>3, <1>4, <1>5, <1>6, <1>7, <1>8, <1>9, <1>10, <1>11,
     <1>12, <1>13, <1>14, <1>15, <1>16, <1>17, <1>18, <1>19, <1>20, <1>21,
     <1>22, <1>23, <1>24, BoundAssumption DEF Next, ThreadStep, ThreadTimeout,
     IrqStep

(* The flag access lock protects usHostFlags across load and store. *)
LEMMA LockStep ==
  ASSUME TypeOK, MutexInv, LockInv, [Next]_vars
  PROVE  LockInv'
<1> USE DEF TypeOK, LockInv, Locking, LockFree, ReadyLabel, BitLabel,
        RetryLabel, WakeLabel, TimeoutResult, AfterRead, Toggle, NetxFlags,
        NewCOSFlags, MbxBit, SignalledBits, Return, threadVars, lockVars,
        flagVars, cntVars, irqVars, cellVars, dpmVars, histVars, Goto
<1>1. ASSUME NEW t \in Thread, NEW o \in {"put", "get", "state"}, NEW s \in Size,
            Call(t, o, s)
     PROVE  LockInv'
  BY <1>1 DEF Call
<1>2. ASSUME NEW t \in Thread, WaitMutex(t) PROVE LockInv'
  BY <1>2 DEF WaitMutex
<1>3. ASSUME NEW t \in Thread, ReadHandshakeFlags(t) PROVE LockInv'
  BY <1>3, ThreadAssumption DEF ReadHandshakeFlags
<1>4. ASSUME NEW t \in Thread, ReadHandshakeFlagsAck(t) PROVE LockInv'
  BY <1>4, ThreadAssumption DEF ReadHandshakeFlagsAck
<1>5. ASSUME NEW t \in Thread, IsReady(t) PROVE LockInv'
  BY <1>5 DEF IsReady
<1>6. ASSUME NEW t \in Thread, BitStateOk(t) PROVE LockInv'
  BY <1>6 DEF BitStateOk
<1>7. ASSUME NEW t \in Thread, BitStateRetry(t) PROVE LockInv'
  BY <1>7 DEF BitStateRetry
<1>8. ASSUME NEW t \in Thread, WaitEvent(t) PROVE LockInv'
  BY <1>8 DEF WaitEvent
<1>9. ASSUME NEW t \in Thread, CopyPacket(t) PROVE LockInv'
  BY <1>9 DEF CopyPacket
<1>10. ASSUME NEW t \in Thread, ToggleLoad(t) PROVE LockInv'
  BY <1>10, ThreadAssumption DEF ToggleLoad
<1>11. ASSUME NEW t \in Thread, ToggleStore(t) PROVE LockInv'
  BY <1>11, ThreadAssumption DEF ToggleStore
<1>12. ASSUME NEW t \in Thread, ReleaseMutex(t) PROVE LockInv'
  BY <1>12 DEF ReleaseMutex
<1>13. ASSUME NEW t \in Thread, WaitMutexTimeout(t) PROVE LockInv'
  BY <1>13 DEF WaitMutexTimeout
<1>14. ASSUME NEW t \in Thread, BitStateTimeout(t) PROVE LockInv'
  BY <1>14 DEF BitStateTimeout
<1>15. ASSUME NEW t \in Thread, WaitEventTimeout(t) PROVE LockInv'
  BY <1>15 DEF WaitEventTimeout
<1>16. ASSUME IsrConfirm PROVE LockInv'
  BY <1>16 DEF IsrConfirm
<1>17. ASSUME IsrRead PROVE LockInv'
  BY <1>17 DEF IsrRead
<1>18. ASSUME DsrUpdate PROVE LockInv'
  BY <1>18 DEF DsrUpdate
<1>19. ASSUME DsrCosAck PROVE LockInv'
  BY <1>19, ThreadAssumption DEF DsrCosAck
<1>20. ASSUME DsrSignal PROVE LockInv'
  BY <1>20 DEF DsrSignal
<1>21. ASSUME DeviceTake PROVE LockInv'
  BY <1>21 DEF DeviceTake
<1>22. ASSUME DevicePost PROVE LockInv'
  BY <1>22 DEF DevicePost
<1>23. ASSUME DeviceCos PROVE LockInv'
  BY <1>23 DEF DeviceCos
<1>24. CASE UNCHANGED vars
  BY <1>24 DEF vars
<1> HIDE DEF TypeOK, LockInv, Locking, LockFree, ReadyLabel, BitLabel,
        RetryLabel, WakeLabel, TimeoutResult, AfterRead, Toggle, NetxFlags,
        NewCOSFlags, MbxBit, SignalledBits, Return, threadVars, lockVars,
        flagVars, cntVars, irqVars, cellVars, dpmVars, histVars, Goto
<1> QED
  BY <1>1, <1>2, <1>3, <1>4, <1>5, <1>6, <1>7, <1>8, <1>9, <1>10, <1>11,
     <1>12, <1>13, <1>14, <1>15, <1>16, <1>17, <1>18, <1>19, <1>20, <1>21,
     <1>22, <1>23, <1>24, BoundAssumption DEF Next, ThreadStep, ThreadTimeout,
     IrqStep

(* Outdated copies of the device flags stay on the safe side. *)
LEMMA FlagStep ==
  ASSUME TypeOK, MutexInv, LockInv, ModeInv, FlagInv, [Next]_vars
  PROVE  FlagInv'
<1> USE DEF TypeOK, MutexInv, LockInv, ModeInv, FlagInv, BitStateReached,
        Busy, Copying, Unequal, ReadyLabel, BitLabel, RetryLabel, WakeLabel,
        TimeoutResult, AfterRead, Toggle, NetxFlags, NewCOSFlags, MbxBit,
        SignalledBits, Return, threadVars, lockVars, flagVars, cntVars,
        irqVars, cellVars, dpmVars, histVars, Goto
<1>1. ASSUME NEW t \in Thread, NEW o \in {"put", "get", "state"}, NEW s \in Size,
            Call(t, o, s)
     PROVE  FlagInv'
  BY <1>1 DEF Call
<1>2. ASSUME NEW t \in Thread, WaitMutex(t) PROVE FlagInv'
  BY <1>2 DEF WaitMutex
<1>3. ASSUME NEW t \in Thread, ReadHandshakeFlags(t) PROVE FlagInv'
  BY <1>3 DEF ReadHandshakeFlags
<1>4. ASSUME NEW t \in Thread, ReadHandshakeFlagsAck(t) PROVE FlagInv'
  BY <1>4 DEF ReadHandshakeFlagsAck
<1>5. ASSUME NEW t \in Thread, IsReady(t) PROVE FlagInv'
  BY <1>5 DEF IsReady
<1>6. ASSUME NEW t \in Thread, BitStateOk(t) PROVE FlagInv'
  BY <1>6 DEF BitStateOk
<1>7. ASSUME NEW t \in Thread, BitStateRetry(t) PROVE FlagInv'
  BY <1>7 DEF BitStateRetry
<1>8. ASSUME NEW t \in Thread, WaitEvent(t) PROVE FlagInv'
  BY <1>8 DEF WaitEvent
<1>9. ASSUME NEW t \in Thread, CopyPacket(t) PROVE FlagInv'
  BY <1>9 DEF CopyPacket
<1>10. ASSUME NEW t \in Thread, ToggleLoad(t) PROVE FlagInv'
  BY <1>10 DEF ToggleLoad
<1>11. ASSUME NEW t \in Thread, ToggleStore(t) PROVE FlagInv'
  BY <1>11 DEF ToggleStore
<1>12. ASSUME NEW t \in Thread, ReleaseMutex(t) PROVE FlagInv'
  BY <1>12 DEF ReleaseMutex
<1>13. ASSUME NEW t \in Thread, WaitMutexTimeout(t) PROVE FlagInv'
  BY <1>13 DEF WaitMutexTimeout
<1>14. ASSUME NEW t \in Thread, BitStateTimeout(t) PROVE FlagInv'
  BY <1>14 DEF BitStateTimeout
<1>15. ASSUME NEW t \in Thread, WaitEventTimeout(t) PROVE FlagInv'
  BY <1>15 DEF WaitEventTimeout
<1>16. ASSUME IsrConfirm PROVE FlagInv'
  BY <1>16 DEF IsrConfirm
<1>17. ASSUME IsrRead PROVE FlagInv'
  BY <1>17 DEF IsrRead
<1>18. ASSUME DsrUpdate PROVE FlagInv'
  BY <1>18 DEF DsrUpdate
<1>19. ASSUME DsrCosAck PROVE FlagInv'
  BY <1>19 DEF DsrCosAck
<1>20. ASSUME DsrSignal PROVE FlagInv'
  BY <1>20 DEF DsrSignal
<1>21. ASSUME DeviceTake PROVE FlagInv'
  BY <1>21 DEF DeviceTake
<1>22. ASSUME DevicePost PROVE FlagInv'
  BY <1>22 DEF DevicePost
<1>23. ASSUME DeviceCos PROVE FlagInv'
  BY <1>23 DEF DeviceCos
<1>24. CASE UNCHANGED vars
  BY <1>24 DEF vars
<1> HIDE DEF TypeOK, MutexInv, LockInv, ModeInv, FlagInv, BitStateReached,
        Busy, Copying, Unequal, ReadyLabel, BitLabel, RetryLabel, WakeLabel,
        TimeoutResult, AfterRead, Toggle, NetxFlags, NewCOSFlags, MbxBit,
        SignalledBits, Return, threadVars, lockVars, flagVars, cntVars,
        irqVars, cellVars, dpmVars, histVars, Goto
<1> QED
  BY <1>1, <1>2, <1>3, <1>4, <1>5, <1>6, <1>7, <1>8, <1>9, <1>10, <1>11,
     <1>12, <1>13, <1>14, <1>15, <1>16, <1>17, <1>18, <1>19, <1>20, <1>21,
     <1>22, <1>23, <1>24, BoundAssumption DEF Next, ThreadStep, ThreadTimeout,
     IrqStep

(* A COS command is acknowledged only together with taking over its flags. *)
LEMMA CosStep ==
  ASSUME TypeOK, MutexInv, LockInv, CosFresh, [Next]_vars
  PROVE  CosFresh'
<1> USE DEF TypeOK, MutexInv, LockInv, CosFresh, Unequal, ReadyLabel,
        BitLabel, RetryLabel, WakeLabel, TimeoutResult, AfterRead, Toggle,
        NetxFlags, NewCOSFlags, MbxBit, SignalledBits, Return, threadVars,
        lockVars, flagVars, cntVars, irqVars, cellVars, dpmVars, histVars,
        Goto
<1>1. ASSUME NEW t \in Thread, NEW o \in {"put", "get", "state"}, NEW s \in Size,
            Call(t, o, s)
     PROVE  CosFresh'
  BY <1>1 DEF Call
<1>2. ASSUME NEW t \in Thread, WaitMutex(t) PROVE CosFresh'
  BY <1>2 DEF WaitMutex
<1>3. ASSUME NEW t \in Thread, ReadHandshakeFlags(t) PROVE CosFresh'
  BY <1>3 DEF ReadHandshakeFlags
<1>4. ASSUME NEW t \in Thread, ReadHandshakeFlagsAck(t) PROVE CosFresh'
  BY <1>4 DEF ReadHandshakeFlagsAck
<1>5. ASSUME NEW t \in Thread, IsReady(t) PROVE CosFresh'
  BY <1>5 DEF IsReady
<1>6. ASSUME NEW t \in Thread, BitStateOk(t) PROVE CosFresh'
  BY <1>6 DEF BitStateOk
<1>7. ASSUME NEW t \in Thread, BitStateRetry(t) PROVE CosFresh'
  BY <1>7 DEF BitStateRetry
<1>8. ASSUME NEW t \in Thread, WaitEvent(t) PROVE CosFresh'
  BY <1>8 DEF WaitEvent
<1>9. ASSUME NEW t \in Thread, CopyPacket(t) PROVE CosFresh'
  BY <1>9 DEF CopyPacket
<1>10. ASSUME NEW t \in Thread, ToggleLoad(t) PROVE CosFresh'
  BY <1>10 DEF ToggleLoad
<1>11. ASSUME NEW t \in Thread, ToggleStore(t) PROVE CosFresh'
  BY <1>11 DEF ToggleStore
<1>12. ASSUME NEW t \in Thread, ReleaseMutex(t) PROVE CosFresh'
  BY <1>12 DEF ReleaseMutex
<1>13. ASSUME NEW t \in Thread, WaitMutexTimeout(t) PROVE CosFresh'
  BY <1>13 DEF WaitMutexTimeout
<1>14. ASSUME NEW t \in Thread, BitStateTimeout(t) PROVE CosFresh'
  BY <1>14 DEF BitStateTimeout
<1>15. ASSUME NEW t \in Thread, WaitEventTimeout(t) PROVE CosFresh'
  BY <1>15 DEF WaitEventTimeout
<1>16. ASSUME IsrConfirm PROVE CosFresh'
  BY <1>16 DEF IsrConfirm
<1>17. ASSUME IsrRead PROVE CosFresh'
  BY <1>17 DEF IsrRead
<1>18. ASSUME DsrUpdate PROVE CosFresh'
  BY <1>18 DEF DsrUpdate
<1>19. ASSUME DsrCosAck PROVE CosFresh'
  BY <1>19 DEF DsrCosAck
<1>20. ASSUME DsrSignal PROVE CosFresh'
  BY <1>20 DEF DsrSignal
<1>21. ASSUME DeviceTake PROVE CosFresh'
  BY <1>21 DEF DeviceTake
<1>22. ASSUME DevicePost PROVE CosFresh'
  BY <1>22 DEF DevicePost
<1>23. ASSUME DeviceCos PROVE CosFresh'
  BY <1>23 DEF DeviceCos
<1>24. CASE UNCHANGED vars
  BY <1>24 DEF vars
<1> HIDE DEF TypeOK, MutexInv, LockInv, CosFresh, Unequal, ReadyLabel,
        BitLabel, RetryLabel, WakeLabel, TimeoutResult, AfterRead, Toggle,
        NetxFlags, NewCOSFlags, MbxBit, SignalledBits, Return, threadVars,
        lockVars, flagVars, cntVars, irqVars, cellVars, dpmVars, histVars,
        Goto
<1> QED
  BY <1>1, <1>2, <1>3, <1>4, <1>5, <1>6, <1>7, <1>8, <1>9, <1>10, <1>11,
     <1>12, <1>13, <1>14, <1>15, <1>16, <1>17, <1>18, <1>19, <1>20, <1>21,
     <1>22, <1>23, <1>24, BoundAssumption DEF Next, ThreadStep, ThreadTimeout,
     IrqStep

(* A full mailbox holds exactly the packet that is under way. *)
LEMMA PipeStep ==
  ASSUME TypeOK, MutexInv, LockInv, ModeInv, FlagInv, PipeInv, [Next]_vars
  PROVE  PipeInv'
<1> USE DEF TypeOK, MutexInv, LockInv, ModeInv, FlagInv, PipeInv,
        BitStateReached, Busy, Copying, Unequal, ReadyLabel, BitLabel,
        RetryLabel, WakeLabel, TimeoutResult, AfterRead, Toggle, NetxFlags,
        NewCOSFlags, MbxBit, SignalledBits, Return, threadVars, lockVars,
        flagVars, cntVars, irqVars, cellVars, dpmVars, histVars, Goto
<1>1. ASSUME NEW t \in Thread, NEW o \in {"put", "get", "state"}, NEW s \in Size,
            Call(t, o, s)
     PROVE  PipeInv'
  BY <1>1 DEF Call
<1>2. ASSUME NEW t \in Thread, WaitMutex(t) PROVE PipeInv'
  BY <1>2 DEF WaitMutex
<1>3. ASSUME NEW t \in Thread, ReadHandshakeFlags(t) PROVE PipeInv'
  BY <1>3 DEF ReadHandshakeFlags
<1>4. ASSUME NEW t \in Thread, ReadHandshakeFlagsAck(t) PROVE PipeInv'
  BY <1>4 DEF ReadHandshakeFlagsAck
<1>5. ASSUME NEW t \in Thread, IsReady(t) PROVE PipeInv'
  BY <1>5 DEF IsReady
<1>6. ASSUME NEW t \in Thread, BitStateOk(t) PROVE PipeInv'
  BY <1>6 DEF BitStateOk
<1>7. ASSUME NEW t \in Thread, BitStateRetry(t) PROVE PipeInv'
  BY <1>7 DEF BitStateRetry
<1>8. ASSUME NEW t \in Thread, WaitEvent(t) PROVE PipeInv'
  BY <1>8 DEF WaitEvent
<1>9. ASSUME NEW t \in Thread, CopyPacket(t) PROVE PipeInv'
  <2>1. CASE op[t] = "put"
    <3>1. ~Unequal(cellHost, cellNetx, "send")
      BY <1>9, <2>1 DEF CopyPacket
    <3>2. \A u \in Thread \ {t} : ~(pc[u] \in {"load", "store"} /\ op[u] = "put")
      BY <1>9, <2>1 DEF CopyPacket
    <3> QED
      BY <1>9, <2>1, <3>1, <3>2 DEF CopyPacket
  <2>2. CASE op[t] = "get"
    <3>1. \A u \in Thread \ {t} : ~(pc[u] \in {"load", "store"} /\ op[u] = "get")
      BY <1>9, <2>2 DEF CopyPacket
    <3> QED
      BY <1>9, <2>2, <3>1 DEF CopyPacket
  <2> QED
    BY <1>9, <2>1, <2>2 DEF CopyPacket
<1>10. ASSUME NEW t \in Thread, ToggleLoad(t) PROVE PipeInv'
  BY <1>10 DEF ToggleLoad
<1>11. ASSUME NEW t \in Thread, ToggleStore(t) PROVE PipeInv'
  <2>1. /\ tmp[t] = cellHost /\ cellNetx' = cellNetx
        /\ op[t] = "put" => (~Unequal(cellHost, cellNetx, "send") /\ pkt[t] = sendMbx)
        /\ op[t] # "put" => (Unequal(cellHost, cellNetx, "recv") /\ pkt[t] = recvMbx)
    BY <1>11 DEF ToggleStore
  <2>4. \A u \in Thread : pc'[u] \in {"load", "store"} =>
          pkt'[u] = IF op'[u] = "put" THEN sendMbx' ELSE recvMbx'
    BY <1>11 DEF ToggleStore
  <2>5. CASE op[t] = "put"
    <3>1. /\ accepted' = Append(taken, sendMbx) /\ taken' = taken /\ sendMbx' = sendMbx
          /\ posted' = posted /\ received' = received /\ recvMbx' = recvMbx
      BY <1>11, <2>1, <2>5 DEF ToggleStore
    <3>2. /\ Unequal(cellHost', cellNetx', "send")
          /\ Unequal(cellHost', cellNetx', "recv") <=> Unequal(cellHost, cellNetx, "recv")
      BY <1>11, <2>1, <2>5 DEF ToggleStore
    <3> HIDE DEF Unequal, TypeOK, MutexInv, LockInv, ModeInv, FlagInv, Toggle
    <3> QED
      BY <2>4, <3>1, <3>2
  <2>6. CASE op[t] # "put"
    <3>1. /\ received' = posted /\ posted' = posted /\ recvMbx' = recvMbx
          /\ accepted' = accepted /\ taken' = taken /\ sendMbx' = sendMbx
      BY <1>11, <2>1, <2>6 DEF ToggleStore
    <3>2. /\ ~Unequal(cellHost', cellNetx', "recv")
          /\ Unequal(cellHost', cellNetx', "send") <=> Unequal(cellHost, cellNetx, "send")
      BY <1>11, <2>1, <2>6 DEF ToggleStore
    <3> HIDE DEF Unequal, TypeOK, MutexInv, LockInv, ModeInv, FlagInv, Toggle
    <3> QED
      BY <2>4, <3>1, <3>2
  <2> QED
    BY <2>5, <2>6
<1>12. ASSUME NEW t \in Thread, ReleaseMutex(t) PROVE PipeInv'
  BY <1>12 DEF ReleaseMutex
<1>13. ASSUME NEW t \in Thread, WaitMutexTimeout(t) PROVE PipeInv'
  BY <1>13 DEF WaitMutexTimeout
<1>14. ASSUME NEW t \in Thread, BitStateTimeout(t) PROVE PipeInv'
  BY <1>14 DEF BitStateTimeout
<1>15. ASSUME NEW t \in Thread, WaitEventTimeout(t) PROVE PipeInv'
  BY <1>15 DEF WaitEventTimeout
<1>16. ASSUME IsrConfirm PROVE PipeInv'
  BY <1>16 DEF IsrConfirm
<1>17. ASSUME IsrRead PROVE PipeInv'
  BY <1>17 DEF IsrRead
<1>18. ASSUME DsrUpdate PROVE PipeInv'
  BY <1>18 DEF DsrUpdate
<1>19. ASSUME DsrCosAck PROVE PipeInv'
  BY <1>19 DEF DsrCosAck
<1>20. ASSUME DsrSignal PROVE PipeInv'
  BY <1>20 DEF DsrSignal
<1>21. ASSUME DeviceTake PROVE PipeInv'
  BY <1>21 DEF DeviceTake
<1>22. ASSUME DevicePost PROVE PipeInv'
  BY <1>22 DEF DevicePost
<1>23. ASSUME DeviceCos PROVE PipeInv'
  BY <1>23 DEF DeviceCos
<1>24. CASE UNCHANGED vars
  BY <1>24 DEF vars
<1> HIDE DEF TypeOK, MutexInv, LockInv, ModeInv, FlagInv, PipeInv,
        BitStateReached, Busy, Copying, Unequal, ReadyLabel, BitLabel,
        RetryLabel, WakeLabel, TimeoutResult, AfterRead, Toggle, NetxFlags,
        NewCOSFlags, MbxBit, SignalledBits, Return, threadVars, lockVars,
        flagVars, cntVars, irqVars, cellVars, dpmVars, histVars, Goto
<1> QED
  BY <1>1, <1>2, <1>3, <1>4, <1>5, <1>6, <1>7, <1>8, <1>9, <1>10, <1>11,
     <1>12, <1>13, <1>14, <1>15, <1>16, <1>17, <1>18, <1>19, <1>20, <1>21,
     <1>22, <1>23, <1>24, BoundAssumption DEF Next, ThreadStep, ThreadTimeout,
     IrqStep

(* What a log contains after one more entry. *)
LEMMA SentAppend ==
  ASSUME NEW s \in Seq(Packet), NEW e \in Packet, NEW p
  PROVE  (\E i \in DOMAIN Append(s, e) : Append(s, e)[i] = p)
           <=> ((\E i \in DOMAIN s : s[i] = p) \/ p = e)
<1>1. /\ DOMAIN Append(s, e) = 1 .. (Len(s) + 1)
      /\ \A i \in 1 .. Len(s) : Append(s, e)[i] = s[i]
      /\ Append(s, e)[Len(s) + 1] = e
      /\ DOMAIN s = 1 .. Len(s) /\ Len(s) \in Nat
  OBVIOUS
<1> QED
  BY <1>1

(* The result of a put tells whether its packet was sent. *)
LEMMA ResultStep ==
  ASSUME TypeOK, MutexInv, ResultInv, [Next]_vars
  PROVE  ResultInv'
<1> USE DEF TypeOK, MutexInv, ResultInv, Sent, Busy, ReadyLabel, BitLabel,
        RetryLabel, WakeLabel, TimeoutResult, AfterRead, Toggle, NetxFlags,
        NewCOSFlags, MbxBit, SignalledBits, Return, threadVars, lockVars,
        flagVars, cntVars, irqVars, cellVars, dpmVars, histVars, Goto
<1>1. ASSUME NEW t \in Thread, NEW o \in {"put", "get", "state"}, NEW s \in Size,
            Call(t, o, s)
     PROVE  ResultInv'
  <2>1. calls \in Nat /\ calls' = calls + 1 /\ accepted' = accepted
        /\ ~Sent(calls + 1)
    <3>1. /\ calls \in 0 .. MaxCalls /\ calls < MaxCalls /\ calls' = calls + 1
          /\ accepted' = accepted
      BY <1>1 DEF Call
    <3>2. calls \in Nat /\ ~(calls + 1 <= calls) /\ calls + 1 \in Packet
      <4> HIDE DEF TypeOK, MutexInv, ResultInv, Sent
      <4> QED
        BY <3>1, BoundAssumption, PacketFacts
    <3>3. \A p \in Packet : Sent(p) => p <= calls
      BY DEF ResultInv
    <3> HIDE DEF TypeOK, MutexInv, ResultInv, Sent
    <3> QED
      BY <3>1, <3>2, <3>3
  <2>2. \A p \in Packet : Sent(p)' => p <= calls'
    BY <2>1, BoundAssumption DEF Packet
  <2> SUFFICES ASSUME NEW v \in Thread, op'[v] = "put"
      PROVE /\ pkt'[v] <= calls'
            /\ \A u \in Thread \ {v} : op'[u] = "put" => pkt'[u] # pkt'[v]
            /\ pc'[v] \in {"load", "store"} => ret'[v] = "CIFX_NO_ERROR"
            /\ Sent(pkt[v])' <=> (pc'[v] \in {"release", "idle"} /\ ret'[v] = "CIFX_NO_ERROR")
    BY <2>2
  <2>3. CASE v = t
    <3>1. pkt'[v] = calls + 1 /\ pc'[v] \in {"readyEval", "ready", "mutex"}
      BY <1>1, <2>3 DEF Call
    <3>2. \A u \in Thread \ {v} : op'[u] = "put" => pkt'[u] # pkt'[v]
      BY <1>1, <2>1, <2>3, <3>1, BoundAssumption DEF Call, Packet
    <3> QED
      BY <2>1, <3>1, <3>2
  <2>4. CASE v # t
    <3>1. pkt'[v] = pkt[v] /\ op[v] = "put" /\ pc'[v] = pc[v] /\ ret' = ret
      BY <1>1, <2>4 DEF Call
    <3>2. pkt[v] <= calls
      BY <3>1
    <3>3. \A u \in Thread \ {v} : op'[u] = "put" => pkt'[u] # pkt'[v]
      BY <1>1, <2>1, <2>4, <3>1, <3>2, BoundAssumption DEF Call, Packet
    <3> QED
      BY <2>1, <3>1, <3>2, <3>3, BoundAssumption DEF Packet
  <2> QED
    BY <2>3, <2>4
<1>2. ASSUME NEW t \in Thread, WaitMutex(t) PROVE ResultInv'
  BY <1>2 DEF WaitMutex
<1>3. ASSUME NEW t \in Thread, ReadHandshakeFlags(t) PROVE ResultInv'
  BY <1>3 DEF ReadHandshakeFlags
<1>4. ASSUME NEW t \in Thread, ReadHandshakeFlagsAck(t) PROVE ResultInv'
  BY <1>4 DEF ReadHandshakeFlagsAck
<1>5. ASSUME NEW t \in Thread, IsReady(t) PROVE ResultInv'
  <2>1. /\ accepted' = accepted /\ calls' = calls /\ pkt' = pkt /\ op' = op
        /\ \A u \in Thread \ {t} : pc'[u] = pc[u] /\ ret'[u] = ret[u]
    BY <1>5 DEF IsReady
  <2>2. op[t] = "put" => ~(pc'[t] \in {"release", "idle"} /\ ret'[t] = "CIFX_NO_ERROR")
    BY <1>5 DEF IsReady
  <2>3. op[t] = "put" => pc'[t] \notin {"load", "store"} /\ ~Sent(pkt[t])
    BY <1>5 DEF IsReady
  <2> QED
    BY <2>1, <2>2, <2>3
<1>6. ASSUME NEW t \in Thread, BitStateOk(t) PROVE ResultInv'
  BY <1>6 DEF BitStateOk
<1>7. ASSUME NEW t \in Thread, BitStateRetry(t) PROVE ResultInv'
  BY <1>7 DEF BitStateRetry
<1>8. ASSUME NEW t \in Thread, WaitEvent(t) PROVE ResultInv'
  BY <1>8 DEF WaitEvent
<1>9. ASSUME NEW t \in Thread, CopyPacket(t) PROVE ResultInv'
  BY <1>9 DEF CopyPacket
<1>10. ASSUME NEW t \in Thread, ToggleLoad(t) PROVE ResultInv'
  BY <1>10 DEF ToggleLoad
<1>11. ASSUME NEW t \in Thread, ToggleStore(t) PROVE ResultInv'
  <2>1. /\ calls' = calls /\ pkt' = pkt /\ op' = op /\ ret' = ret /\ pc'[t] = "release"
        /\ \A u \in Thread \ {t} : pc'[u] = pc[u]
    BY <1>11 DEF ToggleStore
  <2>2. CASE op[t] # "put"
    BY <1>11, <2>1, <2>2 DEF ToggleStore
  <2>3. CASE op[t] = "put"
    <3>1. accepted' = Append(accepted, pkt[t])
      BY <1>11, <2>3 DEF ToggleStore
    <3>2. \A p \in Packet : Sent(p)' <=> (Sent(p) \/ p = pkt[t])
      <4> SUFFICES ASSUME NEW p \in Packet PROVE Sent(p)' <=> (Sent(p) \/ p = pkt[t])
        OBVIOUS
      <4>1. (\E i \in DOMAIN Append(accepted, pkt[t]) : Append(accepted, pkt[t])[i] = p)
              <=> ((\E i \in DOMAIN accepted : accepted[i] = p) \/ p = pkt[t])
        <5>1. accepted \in Seq(Packet) /\ pkt[t] \in Packet
          OBVIOUS
        <5> HIDE DEF TypeOK, MutexInv, ResultInv, Sent
        <5> QED
          BY <5>1, SentAppend
      <4> QED
        BY <3>1, <4>1
    <3> HIDE DEF Sent
    <3>3. pc[t] = "store"
      BY <1>11 DEF ToggleStore
    <3> QED
      BY <2>1, <2>3, <3>2, <3>3
  <2> QED
    BY <2>2, <2>3
<1>12. ASSUME NEW t \in Thread, ReleaseMutex(t) PROVE ResultInv'
  BY <1>12 DEF ReleaseMutex
<1>13. ASSUME NEW t \in Thread, WaitMutexTimeout(t) PROVE ResultInv'
  BY <1>13 DEF WaitMutexTimeout
<1>14. ASSUME NEW t \in Thread, BitStateTimeout(t) PROVE ResultInv'
  BY <1>14 DEF BitStateTimeout
<1>15. ASSUME NEW t \in Thread, WaitEventTimeout(t) PROVE ResultInv'
  BY <1>15 DEF WaitEventTimeout
<1>16. ASSUME IsrConfirm PROVE ResultInv'
  BY <1>16 DEF IsrConfirm
<1>17. ASSUME IsrRead PROVE ResultInv'
  BY <1>17 DEF IsrRead
<1>18. ASSUME DsrUpdate PROVE ResultInv'
  BY <1>18 DEF DsrUpdate
<1>19. ASSUME DsrCosAck PROVE ResultInv'
  BY <1>19 DEF DsrCosAck
<1>20. ASSUME DsrSignal PROVE ResultInv'
  BY <1>20 DEF DsrSignal
<1>21. ASSUME DeviceTake PROVE ResultInv'
  BY <1>21 DEF DeviceTake
<1>22. ASSUME DevicePost PROVE ResultInv'
  BY <1>22 DEF DevicePost
<1>23. ASSUME DeviceCos PROVE ResultInv'
  BY <1>23 DEF DeviceCos
<1>24. CASE UNCHANGED vars
  BY <1>24 DEF vars
<1> HIDE DEF TypeOK, MutexInv, ResultInv, Sent, Busy, ReadyLabel, BitLabel,
        RetryLabel, WakeLabel, TimeoutResult, AfterRead, Toggle, NetxFlags,
        NewCOSFlags, MbxBit, SignalledBits, Return, threadVars, lockVars,
        flagVars, cntVars, irqVars, cellVars, dpmVars, histVars, Goto
<1> QED
  BY <1>1, <1>2, <1>3, <1>4, <1>5, <1>6, <1>7, <1>8, <1>9, <1>10, <1>11,
     <1>12, <1>13, <1>14, <1>15, <1>16, <1>17, <1>18, <1>19, <1>20, <1>21,
     <1>22, <1>23, <1>24, BoundAssumption DEF Next, ThreadStep, ThreadTimeout,
     IrqStep

(* Only three steps touch the packet logs. *)
LEMMA LogSteps ==
  ASSUME [Next]_vars
  PROVE  \/ \E t \in Thread : ToggleStore(t)
         \/ DeviceTake
         \/ DevicePost
         \/ UNCHANGED histVars
<1> USE DEF histVars
<1>1. ASSUME NEW t \in Thread, NEW o, NEW s, Call(t, o, s) PROVE UNCHANGED histVars
  BY <1>1 DEF Call
<1>2. ASSUME NEW t \in Thread, ThreadStep(t), ~ToggleStore(t) PROVE UNCHANGED histVars
  BY <1>2 DEF ThreadStep, WaitMutex, ReadHandshakeFlags, ReadHandshakeFlagsAck,
              IsReady, BitStateOk, BitStateRetry, WaitEvent, CopyPacket,
              ToggleLoad, ReleaseMutex
<1>3. ASSUME NEW t \in Thread, ThreadTimeout(t) PROVE UNCHANGED histVars
  BY <1>3 DEF ThreadTimeout, WaitMutexTimeout, BitStateTimeout, WaitEventTimeout
<1>4. ASSUME IrqStep PROVE UNCHANGED histVars
  BY <1>4 DEF IrqStep, IsrConfirm, IsrRead, DsrUpdate, DsrCosAck, DsrSignal
<1>5. ASSUME DeviceCos PROVE UNCHANGED histVars
  BY <1>5 DEF DeviceCos
<1>6. ASSUME UNCHANGED vars PROVE UNCHANGED histVars
  BY <1>6 DEF vars
<1> HIDE DEF histVars
<1> QED
  BY <1>1, <1>2, <1>3, <1>4, <1>5, <1>6 DEF Next

-----------------------------------------------------------------------------
(* The types hold initially. *)
LEMMA TypeInit == Init => TypeOK
<1> SUFFICES ASSUME Init PROVE TypeOK
  OBVIOUS
<1> USE DEF Init
<1>1. /\ pc \in [Thread -> Label]
      /\ op \in [Thread -> {"none", "put", "get", "state"}]
      /\ pkt \in [Thread -> Packet]
      /\ size \in [Thread -> Size]
      /\ tmp \in [Thread -> SUBSET Bit]
      /\ ret \in [Thread -> Result]
  BY BoundAssumption, PacketFacts DEF Label, Result, Bit
<1>2. /\ accepted \in Seq(Packet) /\ taken \in Seq(Packet)
      /\ posted \in Seq(Packet) /\ received \in Seq(Packet)
  OBVIOUS
<1>3. /\ calls \in 0 .. MaxCalls /\ cosCount \in Nat
      /\ ulSendPacketCnt \in Nat /\ ulRecvPacketCnt \in Nat
  BY BoundAssumption
<1>4. sendMbx \in Packet /\ recvMbx \in Packet
  BY PacketFacts
<1> QED
  BY <1>1, <1>2, <1>3, <1>4 DEF TypeOK, Bit

(* The types hold throughout. *)
THEOREM TypeCorrect == Spec => []TypeOK
<1>1. Init => TypeOK
  BY TypeInit
<1>2. TypeOK /\ [Next]_vars => TypeOK'
  BY TypeStep
<1> QED
  BY <1>1, <1>2, PTL DEF Spec

(* The inductive invariant holds initially ... *)
LEMMA InvInit == Init => MailboxInv
<1> SUFFICES ASSUME Init PROVE MailboxInv
  OBVIOUS
<1>1. TypeOK
  BY TypeInit
<1>2. MutexInv /\ LockInv /\ ModeInv
  BY ThreadAssumption DEF Init, MutexInv, LockInv, ModeInv, Busy, Locking
<1>3. FlagInv /\ PipeInv /\ CosFresh
  BY DEF Init, FlagInv, PipeInv, CosFresh, Copying, Unequal
<1>4. ResultInv
  BY DEF Init, ResultInv, Sent
<1> QED
  BY <1>1, <1>2, <1>3, <1>4 DEF MailboxInv

(* ... and every step keeps it. *)
LEMMA InvStep == MailboxInv /\ [Next]_vars => MailboxInv'
BY TypeStep, ModeStep, MutexStep, LockStep, FlagStep, CosStep, PipeStep,
   ResultStep DEF MailboxInv

(* The strengthening of all safety properties of the mailbox: mutexes and  *)
(* lock are held where the code says, stale flags err on the safe side,    *)
(* and a full mailbox holds the one packet that is under way.              *)
THEOREM MailboxInvariant == Spec => []MailboxInv
BY InvInit, InvStep, PTL DEF Spec

(* DEV_PutPacket and DEV_GetPacket copy only while the mailbox belongs to  *)
(* the host, and never two threads at once, in both modes and for any      *)
(* number of threads.                                                      *)
THEOREM MailboxIsExclusive == Spec => []MailboxExclusive
<1>1. MailboxInv => MailboxExclusive
  BY DEF MailboxInv, MailboxExclusive, MutexInv, LockInv, FlagInv, Busy, Copying
<1> QED
  BY <1>1, MailboxInvariant, PTL

(* A put reports success exactly if its packet went to the device. *)
THEOREM PutResultIsHonest == Spec => []PutResultHonest
<1>1. MailboxInv => PutResultHonest
  BY DEF MailboxInv, PutResultHonest, ResultInv, Sent
<1> QED
  BY <1>1, MailboxInvariant, PTL

(* The READY state DEV_IsReady looks at is current whenever no COS command *)
(* of the device is pending.                                               *)
THEOREM CosIsFresh == Spec => []CosFresh
<1>1. MailboxInv => CosFresh
  BY DEF MailboxInv
<1> QED
  BY <1>1, MailboxInvariant, PTL

(* The send mailbox is a one-packet pipe: Spec implements PacketPipe from  *)
(* the callers of xChannelPutPacket to the device.                         *)
THEOREM SendMailboxIsPipe == Spec => SendPipeSpec
<1>1. Init => SendPipe!PipeInit
  BY DEF Init, SendPipe!PipeInit
<1>2. MailboxInv /\ [Next]_vars => [SendPipe!PipeNext]_SendPipe!pipeVars
  <2> SUFFICES ASSUME MailboxInv, [Next]_vars
               PROVE  [SendPipe!PipeNext]_SendPipe!pipeVars
    OBVIOUS
  <2> USE DEF SendPipe!PipeNext, SendPipe!pipeVars, SendPipe!Enter, SendPipe!Leave
  <2>1. ASSUME NEW t \in Thread, ToggleStore(t) PROVE [SendPipe!PipeNext]_SendPipe!pipeVars
    <3>1. op[t] = "put" => accepted = taken /\ pkt[t] \in Packet
      BY <2>1 DEF MailboxInv, TypeOK, PipeInv, LockInv, FlagInv, Copying, ToggleStore
    <3> QED
      BY <2>1, <3>1 DEF ToggleStore
  <2>2. ASSUME DeviceTake PROVE [SendPipe!PipeNext]_SendPipe!pipeVars
    <3>1. accepted = Append(taken, sendMbx) /\ sendMbx \in Packet
      BY <2>2 DEF MailboxInv, TypeOK, PipeInv, DeviceTake
    <3> QED
      BY <2>2, <3>1 DEF DeviceTake
  <2>3. ASSUME DevicePost PROVE [SendPipe!PipeNext]_SendPipe!pipeVars
    BY <2>3 DEF DevicePost
  <2>4. ASSUME UNCHANGED histVars PROVE [SendPipe!PipeNext]_SendPipe!pipeVars
    BY <2>4 DEF histVars
  <2> QED
    BY <2>1, <2>2, <2>3, <2>4, LogSteps
<1> QED
  BY <1>1, <1>2, MailboxInvariant, PTL DEF Spec, SendPipeSpec,
     SendPipe!PipeSpec

(* The receive mailbox is a one-packet pipe: Spec implements PacketPipe    *)
(* from the device to the callers of xChannelGetPacket.                    *)
THEOREM RecvMailboxIsPipe == Spec => RecvPipeSpec
<1>1. Init => RecvPipe!PipeInit
  BY DEF Init, RecvPipe!PipeInit
<1>2. MailboxInv /\ [Next]_vars => [RecvPipe!PipeNext]_RecvPipe!pipeVars
  <2> SUFFICES ASSUME MailboxInv, [Next]_vars
               PROVE  [RecvPipe!PipeNext]_RecvPipe!pipeVars
    OBVIOUS
  <2> USE DEF RecvPipe!PipeNext, RecvPipe!pipeVars, RecvPipe!Enter, RecvPipe!Leave
  <2>1. ASSUME NEW t \in Thread, ToggleStore(t) PROVE [RecvPipe!PipeNext]_RecvPipe!pipeVars
    <3>1. op[t] # "put" => posted = Append(received, pkt[t]) /\ pkt[t] \in Packet
      BY <2>1 DEF MailboxInv, TypeOK, PipeInv, MutexInv, LockInv, FlagInv, Copying, ToggleStore
    <3> QED
      BY <2>1, <3>1 DEF ToggleStore
  <2>2. ASSUME DeviceTake PROVE [RecvPipe!PipeNext]_RecvPipe!pipeVars
    BY <2>2 DEF DeviceTake
  <2>3. ASSUME DevicePost PROVE [RecvPipe!PipeNext]_RecvPipe!pipeVars
    <3>1. posted = received /\ Len(posted) + 1 \in Packet
      BY <2>3, PacketFacts DEF MailboxInv, TypeOK, PipeInv, DevicePost
    <3> QED
      BY <2>3, <3>1 DEF DevicePost
  <2>4. ASSUME UNCHANGED histVars PROVE [RecvPipe!PipeNext]_RecvPipe!pipeVars
    BY <2>4 DEF histVars
  <2> QED
    BY <2>1, <2>2, <2>3, <2>4, LogSteps
<1> QED
  BY <1>1, <1>2, MailboxInvariant, PTL DEF Spec, RecvPipeSpec,
     RecvPipe!PipeSpec

=============================================================================

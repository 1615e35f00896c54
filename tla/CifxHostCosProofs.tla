------------------------- MODULE CifxHostCosProofs -------------------------
(***************************************************************************)
(* Proofs about CifxHostCos, for any number of threads and calls, any      *)
(* subset of the calls and both interrupt and polling mode; only           *)
(* InitIsAcknowledged, at the end, is about one thread in polling mode.    *)
(***************************************************************************)
EXTENDS CifxHostCos, TLAPS

(* Toggling a handshake bit stays within the handshake bits. *)
LEMMA ToggleType ==
  ASSUME NEW f \in SUBSET Bit, NEW b \in Bit
  PROVE  Toggle(f, b) \in SUBSET Bit
BY DEF Toggle

(* The masks of every call are sets of COS flags. *)
LEMMA MaskType ==
  ASSUME NEW o
  PROVE  /\ ulSetCOSMask(o) \in SUBSET AppFlag
         /\ ulPostClearCOSMask(o) \in SUBSET AppFlag
         /\ EnableFlag \in SUBSET AppFlag
BY DEF ulSetCOSMask, ulPostClearCOSMask, EnableFlag, AppFlag

(* Who sets INITIALIZATION_ENABLE also strips it. *)
LEMMA MaskInit ==
  ASSUME NEW o, "INITIALIZATION_ENABLE" \in ulSetCOSMask(o)
  PROVE  o = "init" /\ "INITIALIZATION_ENABLE" \in ulPostClearCOSMask(o)
BY DEF ulSetCOSMask, ulPostClearCOSMask

(* What DEV_ReadHandshakeFlags stores. *)
LEMMA RefreshType ==
  ASSUME TypeOK, RefreshFlags
  PROVE  /\ usNetxFlags' \subseteq Bit /\ usHostFlags' \subseteq Bit
         /\ cellHost' \subseteq Bit
         /\ ulDeviceCOSFlags' \subseteq CommFlag
         /\ ulDeviceCOSFlagsChanged' \subseteq CommFlag
<1>1. CASE Unequal(usHostFlags, cellNetx, "netxCos")
  <2>1. Toggle(usHostFlags, "netxCos") \in SUBSET Bit
    BY ToggleType DEF TypeOK, Bit
  <2> QED
    BY <1>1, <2>1 DEF TypeOK, RefreshFlags
<1>2. CASE ~Unequal(usHostFlags, cellNetx, "netxCos")
  BY <1>2 DEF TypeOK, RefreshFlags, devVars
<1> QED
  BY <1>1, <1>2

(* Every step keeps the types. *)
LEMMA TypeStep ==
  ASSUME TypeOK, [Next]_vars
  PROVE  TypeOK'
<1> USE DEF TypeOK, Bit, Toggle, Label, Stage, CosResult, Result, Party,
        SignalCos, SavedFlags, SignallingError, ComError, RetryLabel,
        InitMutexFree, DsrEvents, WaitBit, Wanted, callVars, retVars,
        cosVars, devVars, flagVars, timerVars, irqVars, histVars, fwVars,
        threadVars,
        Goto, Return, Begin, ReadLabel, CosDone, InitWait
<1>1. ASSUME NEW t \in Thread, NEW o \in Op, NEW w \in BOOLEAN,
            Call(t, o, w)
      PROVE TypeOK'
  BY <1>1, HostCosAssumption DEF Call
<1>2. ASSUME NEW t \in Thread, ReadHandshakeFlags(t) PROVE TypeOK'
  BY <1>2, RefreshType DEF ReadHandshakeFlags
<1>3. ASSUME NEW t \in Thread, SetHostState(t) PROVE TypeOK'
  BY <1>3 DEF SetHostState
<1>4. ASSUME NEW t \in Thread, BusStateOn(t) PROVE TypeOK'
  BY <1>4 DEF BusStateOn
<1>5. ASSUME NEW t \in Thread, BusStateOff(t) PROVE TypeOK'
  BY <1>5 DEF BusStateOff
<1>6. ASSUME NEW t \in Thread, ConfigLock(t) PROVE TypeOK'
  BY <1>6 DEF ConfigLock
<1>7. ASSUME NEW t \in Thread, ChannelInit(t) PROVE TypeOK'
  BY <1>7 DEF ChannelInit, DevRunning
<1>8. ASSUME NEW t \in Thread, WaitInitMutex(t) PROVE TypeOK'
  BY <1>8 DEF WaitInitMutex
<1>9. ASSUME NEW t \in Thread, WaitOk(t) PROVE TypeOK'
  BY <1>9 DEF WaitOk
<1>10. ASSUME NEW t \in Thread, WaitRetry(t) PROVE TypeOK'
  BY <1>10 DEF WaitRetry
<1>11. ASSUME NEW t \in Thread, WaitEvent(t) PROVE TypeOK'
  BY <1>11 DEF WaitEvent
<1>12. ASSUME NEW t \in Thread, HostCosChange(t) PROVE TypeOK'
  BY <1>12, MaskType DEF HostCosChange
<1>13. ASSUME NEW t \in Thread, HostCosRemember(t) PROVE TypeOK'
  BY <1>13, MaskType DEF HostCosRemember
<1>14. ASSUME NEW t \in Thread, ReadHostFlagsLoad(t) PROVE TypeOK'
  BY <1>14 DEF ReadHostFlagsLoad
<1>15. ASSUME NEW t \in Thread, ReadHostFlagsStore(t) PROVE TypeOK'
  BY <1>15 DEF ReadHostFlagsStore
<1>16. ASSUME NEW t \in Thread, ReleaseInitMutex(t) PROVE TypeOK'
  BY <1>16 DEF ReleaseInitMutex
<1>17. ASSUME NEW t \in Thread, WaitTimeout(t) PROVE TypeOK'
  BY <1>17 DEF WaitTimeout
<1>18. ASSUME NEW t \in Thread, WaitEventTimeout(t) PROVE TypeOK'
  BY <1>18 DEF WaitEventTimeout
<1>19. ASSUME NEW t \in Thread, WaitInitMutexTimeout(t) PROVE TypeOK'
  BY <1>19 DEF WaitInitMutexTimeout
<1>20. ASSUME TimerStart PROVE TypeOK'
  BY <1>20 DEF TimerStart
<1>21. ASSUME TimerCompare PROVE TypeOK'
  BY <1>21 DEF TimerCompare
<1>22. ASSUME TimerReadBit PROVE TypeOK'
  BY <1>22, RefreshType DEF TimerReadBit
<1>23. ASSUME TimerEvalBit PROVE TypeOK'
  BY <1>23 DEF TimerEvalBit
<1>24. ASSUME TimerWrite PROVE TypeOK'
  BY <1>24, MaskType DEF TimerWrite
<1>25. ASSUME TimerRefresh PROVE TypeOK'
  BY <1>25, RefreshType DEF TimerRefresh
<1>26. ASSUME TimerFinish PROVE TypeOK'
  BY <1>26 DEF TimerFinish
<1>27. ASSUME IsrConfirm PROVE TypeOK'
  BY <1>27, ZenonT(30) DEF IsrConfirm
<1>28. ASSUME IsrRead PROVE TypeOK'
  BY <1>28 DEF IsrRead
<1>29. ASSUME DsrUpdate PROVE TypeOK'
  BY <1>29, ZenonT(30) DEF DsrUpdate
<1>30. ASSUME DsrCosAck PROVE TypeOK'
  BY <1>30 DEF DsrCosAck
<1>31. ASSUME DsrCheck PROVE TypeOK'
  BY <1>31 DEF DsrCheck
<1>32. ASSUME DsrWrite PROVE TypeOK'
  BY <1>32, MaskType DEF DsrWrite
<1>33. ASSUME DsrSignal PROVE TypeOK'
  BY <1>33 DEF DsrSignal
<1>34. ASSUME DeviceAck PROVE TypeOK'
  BY <1>34 DEF DeviceAck
<1>35. ASSUME DeviceCom PROVE TypeOK'
  BY <1>35, HostCosAssumption DEF DeviceCom
<1>36. ASSUME NEW s \in CommState, DeviceCos(s) PROVE TypeOK'
  BY <1>36, HostCosAssumption DEF DeviceCos
<1>37. CASE UNCHANGED vars
  BY <1>37 DEF vars
<1> HIDE DEF TypeOK, Bit, Toggle, Label, Stage, CosResult, Result, Party,
        SignalCos, SavedFlags, SignallingError, ComError, RetryLabel,
        InitMutexFree, DsrEvents, WaitBit, Wanted, callVars, retVars,
        cosVars, devVars, flagVars, timerVars, irqVars, histVars, fwVars,
        threadVars,
        Goto, Return, Begin, ReadLabel, CosDone, InitWait
<1> QED
  BY <1>1, <1>2, <1>3, <1>4, <1>5, <1>6, <1>7, <1>8, <1>9, <1>10, <1>11,
     <1>12, <1>13, <1>14, <1>15, <1>16, <1>17, <1>18, <1>19, <1>20, <1>21,
     <1>22, <1>23, <1>24, <1>25, <1>26, <1>27, <1>28, <1>29, <1>30, <1>31,
     <1>32, <1>33, <1>34, <1>35, <1>36, <1>37 DEF Next, ThreadStep,
     ThreadTimeout, TimerStep, IrqStep

(* The polling thread and the interrupt thread exclude each other. *)
LEMMA ModeStep ==
  ASSUME TypeOK, ModeInv, [Next]_vars
  PROVE  ModeInv'
<1> USE DEF TypeOK, ModeInv, RetryLabel, RefreshFlags, SignalCos, callVars,
        retVars, cosVars, devVars, flagVars, timerVars, irqVars, histVars, fwVars,
        threadVars, Goto, Return, Begin, ReadLabel, CosDone, InitWait
<1>1. ASSUME NEW t \in Thread, NEW o \in Op, NEW w \in BOOLEAN,
            Call(t, o, w)
      PROVE ModeInv'
  BY <1>1 DEF Call
<1>2. ASSUME NEW t \in Thread, ReadHandshakeFlags(t) PROVE ModeInv'
  BY <1>2 DEF ReadHandshakeFlags
<1>3. ASSUME NEW t \in Thread, SetHostState(t) PROVE ModeInv'
  BY <1>3 DEF SetHostState
<1>4. ASSUME NEW t \in Thread, BusStateOn(t) PROVE ModeInv'
  BY <1>4 DEF BusStateOn
<1>5. ASSUME NEW t \in Thread, BusStateOff(t) PROVE ModeInv'
  BY <1>5 DEF BusStateOff
<1>6. ASSUME NEW t \in Thread, ConfigLock(t) PROVE ModeInv'
  BY <1>6 DEF ConfigLock
<1>7. ASSUME NEW t \in Thread, ChannelInit(t) PROVE ModeInv'
  BY <1>7 DEF ChannelInit
<1>8. ASSUME NEW t \in Thread, WaitInitMutex(t) PROVE ModeInv'
  BY <1>8 DEF WaitInitMutex
<1>9. ASSUME NEW t \in Thread, WaitOk(t) PROVE ModeInv'
  BY <1>9 DEF WaitOk
<1>10. ASSUME NEW t \in Thread, WaitRetry(t) PROVE ModeInv'
  BY <1>10 DEF WaitRetry
<1>11. ASSUME NEW t \in Thread, WaitEvent(t) PROVE ModeInv'
  BY <1>11 DEF WaitEvent
<1>12. ASSUME NEW t \in Thread, HostCosChange(t) PROVE ModeInv'
  BY <1>12 DEF HostCosChange
<1>13. ASSUME NEW t \in Thread, HostCosRemember(t) PROVE ModeInv'
  BY <1>13 DEF HostCosRemember
<1>14. ASSUME NEW t \in Thread, ReadHostFlagsLoad(t) PROVE ModeInv'
  BY <1>14 DEF ReadHostFlagsLoad
<1>15. ASSUME NEW t \in Thread, ReadHostFlagsStore(t) PROVE ModeInv'
  BY <1>15 DEF ReadHostFlagsStore
<1>16. ASSUME NEW t \in Thread, ReleaseInitMutex(t) PROVE ModeInv'
  BY <1>16 DEF ReleaseInitMutex
<1>17. ASSUME NEW t \in Thread, WaitTimeout(t) PROVE ModeInv'
  BY <1>17 DEF WaitTimeout
<1>18. ASSUME NEW t \in Thread, WaitEventTimeout(t) PROVE ModeInv'
  BY <1>18 DEF WaitEventTimeout
<1>19. ASSUME NEW t \in Thread, WaitInitMutexTimeout(t) PROVE ModeInv'
  BY <1>19 DEF WaitInitMutexTimeout
<1>20. ASSUME TimerStart PROVE ModeInv'
  BY <1>20 DEF TimerStart
<1>21. ASSUME TimerCompare PROVE ModeInv'
  BY <1>21 DEF TimerCompare
<1>22. ASSUME TimerReadBit PROVE ModeInv'
  BY <1>22 DEF TimerReadBit
<1>23. ASSUME TimerEvalBit PROVE ModeInv'
  BY <1>23 DEF TimerEvalBit
<1>24. ASSUME TimerWrite PROVE ModeInv'
  BY <1>24 DEF TimerWrite
<1>25. ASSUME TimerRefresh PROVE ModeInv'
  BY <1>25 DEF TimerRefresh
<1>26. ASSUME TimerFinish PROVE ModeInv'
  BY <1>26 DEF TimerFinish
<1>27. ASSUME IsrConfirm PROVE ModeInv'
  BY <1>27 DEF IsrConfirm
<1>28. ASSUME IsrRead PROVE ModeInv'
  BY <1>28 DEF IsrRead
<1>29. ASSUME DsrUpdate PROVE ModeInv'
  BY <1>29 DEF DsrUpdate
<1>30. ASSUME DsrCosAck PROVE ModeInv'
  BY <1>30 DEF DsrCosAck
<1>31. ASSUME DsrCheck PROVE ModeInv'
  BY <1>31 DEF DsrCheck
<1>32. ASSUME DsrWrite PROVE ModeInv'
  BY <1>32 DEF DsrWrite
<1>33. ASSUME DsrSignal PROVE ModeInv'
  BY <1>33 DEF DsrSignal
<1>34. ASSUME DeviceAck PROVE ModeInv'
  BY <1>34 DEF DeviceAck
<1>35. ASSUME DeviceCom PROVE ModeInv'
  BY <1>35 DEF DeviceCom
<1>36. ASSUME NEW s \in CommState, DeviceCos(s) PROVE ModeInv'
  BY <1>36 DEF DeviceCos
<1>37. CASE UNCHANGED vars
  BY <1>37 DEF vars
<1> HIDE DEF TypeOK, ModeInv, RetryLabel, RefreshFlags, SignalCos, callVars,
        retVars, cosVars, devVars, flagVars, timerVars, irqVars, histVars, fwVars,
        threadVars, Goto, Return, Begin, ReadLabel, CosDone, InitWait
<1> QED
  BY <1>1, <1>2, <1>3, <1>4, <1>5, <1>6, <1>7, <1>8, <1>9, <1>10, <1>11,
     <1>12, <1>13, <1>14, <1>15, <1>16, <1>17, <1>18, <1>19, <1>20, <1>21,
     <1>22, <1>23, <1>24, <1>25, <1>26, <1>27, <1>28, <1>29, <1>30, <1>31,
     <1>32, <1>33, <1>34, <1>35, <1>36, <1>37 DEF Next, ThreadStep,
     ThreadTimeout, TimerStep, IrqStep

(* Undisturbed, outdated copies of the netX bits stay on the safe side. *)
LEMMA FlagStep ==
  ASSUME TypeOK, ModeInv, FlagInv, [Next]_vars
  PROVE  FlagInv'
<1> USE DEF TypeOK, ModeInv, FlagInv, Unequal, Toggle, RefreshFlags,
        SignalCos, callVars, retVars, cosVars, devVars, flagVars, timerVars, irqVars,
        histVars, fwVars, threadVars, Goto, Return, Begin, ReadLabel,
        CosDone, InitWait
<1>1. ASSUME NEW t \in Thread, NEW o \in Op, NEW w \in BOOLEAN,
            Call(t, o, w)
      PROVE FlagInv'
  BY <1>1 DEF Call
<1>2. ASSUME NEW t \in Thread, ReadHandshakeFlags(t) PROVE FlagInv'
  BY <1>2 DEF ReadHandshakeFlags
<1>3. ASSUME NEW t \in Thread, SetHostState(t) PROVE FlagInv'
  BY <1>3 DEF SetHostState
<1>4. ASSUME NEW t \in Thread, BusStateOn(t) PROVE FlagInv'
  BY <1>4 DEF BusStateOn
<1>5. ASSUME NEW t \in Thread, BusStateOff(t) PROVE FlagInv'
  BY <1>5 DEF BusStateOff
<1>6. ASSUME NEW t \in Thread, ConfigLock(t) PROVE FlagInv'
  BY <1>6 DEF ConfigLock
<1>7. ASSUME NEW t \in Thread, ChannelInit(t) PROVE FlagInv'
  BY <1>7 DEF ChannelInit
<1>8. ASSUME NEW t \in Thread, WaitInitMutex(t) PROVE FlagInv'
  BY <1>8 DEF WaitInitMutex
<1>9. ASSUME NEW t \in Thread, WaitOk(t) PROVE FlagInv'
  BY <1>9 DEF WaitOk
<1>10. ASSUME NEW t \in Thread, WaitRetry(t) PROVE FlagInv'
  BY <1>10 DEF WaitRetry
<1>11. ASSUME NEW t \in Thread, WaitEvent(t) PROVE FlagInv'
  BY <1>11 DEF WaitEvent
<1>12. ASSUME NEW t \in Thread, HostCosChange(t) PROVE FlagInv'
  BY <1>12 DEF HostCosChange
<1>13. ASSUME NEW t \in Thread, HostCosRemember(t) PROVE FlagInv'
  BY <1>13 DEF HostCosRemember
<1>14. ASSUME NEW t \in Thread, ReadHostFlagsLoad(t) PROVE FlagInv'
  BY <1>14 DEF ReadHostFlagsLoad
<1>15. ASSUME NEW t \in Thread, ReadHostFlagsStore(t) PROVE FlagInv'
  BY <1>15 DEF ReadHostFlagsStore
<1>16. ASSUME NEW t \in Thread, ReleaseInitMutex(t) PROVE FlagInv'
  BY <1>16 DEF ReleaseInitMutex
<1>17. ASSUME NEW t \in Thread, WaitTimeout(t) PROVE FlagInv'
  BY <1>17 DEF WaitTimeout
<1>18. ASSUME NEW t \in Thread, WaitEventTimeout(t) PROVE FlagInv'
  BY <1>18 DEF WaitEventTimeout
<1>19. ASSUME NEW t \in Thread, WaitInitMutexTimeout(t) PROVE FlagInv'
  BY <1>19 DEF WaitInitMutexTimeout
<1>20. ASSUME TimerStart PROVE FlagInv'
  BY <1>20 DEF TimerStart
<1>21. ASSUME TimerCompare PROVE FlagInv'
  BY <1>21 DEF TimerCompare
<1>22. ASSUME TimerReadBit PROVE FlagInv'
  BY <1>22 DEF TimerReadBit
<1>23. ASSUME TimerEvalBit PROVE FlagInv'
  BY <1>23 DEF TimerEvalBit
<1>24. ASSUME TimerWrite PROVE FlagInv'
  BY <1>24 DEF TimerWrite
<1>25. ASSUME TimerRefresh PROVE FlagInv'
  BY <1>25 DEF TimerRefresh
<1>26. ASSUME TimerFinish PROVE FlagInv'
  BY <1>26 DEF TimerFinish
<1>27. ASSUME IsrConfirm PROVE FlagInv'
  BY <1>27 DEF IsrConfirm
<1>28. ASSUME IsrRead PROVE FlagInv'
  BY <1>28 DEF IsrRead
<1>29. ASSUME DsrUpdate PROVE FlagInv'
  BY <1>29 DEF DsrUpdate
<1>30. ASSUME DsrCosAck PROVE FlagInv'
  BY <1>30 DEF DsrCosAck
<1>31. ASSUME DsrCheck PROVE FlagInv'
  BY <1>31 DEF DsrCheck
<1>32. ASSUME DsrWrite PROVE FlagInv'
  BY <1>32 DEF DsrWrite
<1>33. ASSUME DsrSignal PROVE FlagInv'
  BY <1>33 DEF DsrSignal
<1>34. ASSUME DeviceAck PROVE FlagInv'
  BY <1>34 DEF DeviceAck
<1>35. ASSUME DeviceCom PROVE FlagInv'
  BY <1>35 DEF DeviceCom
<1>36. ASSUME NEW s \in CommState, DeviceCos(s) PROVE FlagInv'
  BY <1>36 DEF DeviceCos
<1>37. CASE UNCHANGED vars
  BY <1>37 DEF vars
<1> HIDE DEF TypeOK, ModeInv, FlagInv, Unequal, Toggle, RefreshFlags,
        SignalCos, callVars, retVars, cosVars, devVars, flagVars, timerVars, irqVars,
        histVars, fwVars, threadVars, Goto, Return, Begin, ReadLabel,
        CosDone, InitWait
<1> QED
  BY <1>1, <1>2, <1>3, <1>4, <1>5, <1>6, <1>7, <1>8, <1>9, <1>10, <1>11,
     <1>12, <1>13, <1>14, <1>15, <1>16, <1>17, <1>18, <1>19, <1>20, <1>21,
     <1>22, <1>23, <1>24, <1>25, <1>26, <1>27, <1>28, <1>29, <1>30, <1>31,
     <1>32, <1>33, <1>34, <1>35, <1>36, <1>37 DEF Next, ThreadStep,
     ThreadTimeout, TimerStep, IrqStep

(* An unanswered command of a waiting thread is still pending and its own. *)
LEMMA AckStep ==
  ASSUME TypeOK, ModeInv, FlagInv, AckInv, [Next]_vars
  PROVE  AckInv'
<1> USE DEF TypeOK, ModeInv, FlagInv, Unequal, Toggle, RefreshFlags,
        SignalCos, AckInv, RetryLabel, callVars, retVars, cosVars, devVars,
        flagVars, timerVars, irqVars, histVars, fwVars,
        threadVars, Goto, Return,
        Begin, ReadLabel, CosDone, InitWait
<1>1. ASSUME NEW t \in Thread, NEW o \in Op, NEW w \in BOOLEAN,
            Call(t, o, w)
      PROVE AckInv'
  BY <1>1 DEF Call
<1>2. ASSUME NEW t \in Thread, ReadHandshakeFlags(t) PROVE AckInv'
  BY <1>2 DEF ReadHandshakeFlags
<1>3. ASSUME NEW t \in Thread, SetHostState(t) PROVE AckInv'
  BY <1>3 DEF SetHostState
<1>4. ASSUME NEW t \in Thread, BusStateOn(t) PROVE AckInv'
  BY <1>4 DEF BusStateOn
<1>5. ASSUME NEW t \in Thread, BusStateOff(t) PROVE AckInv'
  BY <1>5 DEF BusStateOff
<1>6. ASSUME NEW t \in Thread, ConfigLock(t) PROVE AckInv'
  BY <1>6 DEF ConfigLock
<1>7. ASSUME NEW t \in Thread, ChannelInit(t) PROVE AckInv'
  BY <1>7 DEF ChannelInit
<1>8. ASSUME NEW t \in Thread, WaitInitMutex(t) PROVE AckInv'
  BY <1>8 DEF WaitInitMutex
<1>9. ASSUME NEW t \in Thread, WaitOk(t) PROVE AckInv'
  BY <1>9 DEF WaitOk
<1>10. ASSUME NEW t \in Thread, WaitRetry(t) PROVE AckInv'
  BY <1>10 DEF WaitRetry
<1>11. ASSUME NEW t \in Thread, WaitEvent(t) PROVE AckInv'
  BY <1>11 DEF WaitEvent
<1>12. ASSUME NEW t \in Thread, HostCosChange(t) PROVE AckInv'
  BY <1>12 DEF HostCosChange
<1>13. ASSUME NEW t \in Thread, HostCosRemember(t) PROVE AckInv'
  BY <1>13 DEF HostCosRemember
<1>14. ASSUME NEW t \in Thread, ReadHostFlagsLoad(t) PROVE AckInv'
  BY <1>14 DEF ReadHostFlagsLoad
<1>15. ASSUME NEW t \in Thread, ReadHostFlagsStore(t) PROVE AckInv'
  BY <1>15 DEF ReadHostFlagsStore
<1>16. ASSUME NEW t \in Thread, ReleaseInitMutex(t) PROVE AckInv'
  BY <1>16 DEF ReleaseInitMutex
<1>17. ASSUME NEW t \in Thread, WaitTimeout(t) PROVE AckInv'
  BY <1>17 DEF WaitTimeout
<1>18. ASSUME NEW t \in Thread, WaitEventTimeout(t) PROVE AckInv'
  BY <1>18 DEF WaitEventTimeout
<1>19. ASSUME NEW t \in Thread, WaitInitMutexTimeout(t) PROVE AckInv'
  BY <1>19 DEF WaitInitMutexTimeout
<1>20. ASSUME TimerStart PROVE AckInv'
  BY <1>20 DEF TimerStart
<1>21. ASSUME TimerCompare PROVE AckInv'
  BY <1>21 DEF TimerCompare
<1>22. ASSUME TimerReadBit PROVE AckInv'
  BY <1>22 DEF TimerReadBit
<1>23. ASSUME TimerEvalBit PROVE AckInv'
  BY <1>23 DEF TimerEvalBit
<1>24. ASSUME TimerWrite PROVE AckInv'
  BY <1>24 DEF TimerWrite
<1>25. ASSUME TimerRefresh PROVE AckInv'
  BY <1>25 DEF TimerRefresh
<1>26. ASSUME TimerFinish PROVE AckInv'
  BY <1>26 DEF TimerFinish
<1>27. ASSUME IsrConfirm PROVE AckInv'
  BY <1>27 DEF IsrConfirm
<1>28. ASSUME IsrRead PROVE AckInv'
  BY <1>28 DEF IsrRead
<1>29. ASSUME DsrUpdate PROVE AckInv'
  BY <1>29 DEF DsrUpdate
<1>30. ASSUME DsrCosAck PROVE AckInv'
  BY <1>30 DEF DsrCosAck
<1>31. ASSUME DsrCheck PROVE AckInv'
  BY <1>31 DEF DsrCheck
<1>32. ASSUME DsrWrite PROVE AckInv'
  BY <1>32 DEF DsrWrite
<1>33. ASSUME DsrSignal PROVE AckInv'
  BY <1>33 DEF DsrSignal
<1>34. ASSUME DeviceAck PROVE AckInv'
  BY <1>34 DEF DeviceAck
<1>35. ASSUME DeviceCom PROVE AckInv'
  BY <1>35 DEF DeviceCom
<1>36. ASSUME NEW s \in CommState, DeviceCos(s) PROVE AckInv'
  BY <1>36 DEF DeviceCos
<1>37. CASE UNCHANGED vars
  BY <1>37 DEF vars
<1> HIDE DEF TypeOK, ModeInv, FlagInv, Unequal, Toggle, RefreshFlags,
        SignalCos, AckInv, RetryLabel, callVars, retVars, cosVars, devVars,
        flagVars, timerVars, irqVars, histVars, fwVars,
        threadVars, Goto, Return,
        Begin, ReadLabel, CosDone, InitWait
<1> QED
  BY <1>1, <1>2, <1>3, <1>4, <1>5, <1>6, <1>7, <1>8, <1>9, <1>10, <1>11,
     <1>12, <1>13, <1>14, <1>15, <1>16, <1>17, <1>18, <1>19, <1>20, <1>21,
     <1>22, <1>23, <1>24, <1>25, <1>26, <1>27, <1>28, <1>29, <1>30, <1>31,
     <1>32, <1>33, <1>34, <1>35, <1>36, <1>37 DEF Next, ThreadStep,
     ThreadTimeout, TimerStep, IrqStep

(* DEV_DoHostCOSChange has no result before it ends. *)
LEMMA ResultStep ==
  ASSUME TypeOK, ResultInv, [Next]_vars
  PROVE  ResultInv'
<1> USE DEF TypeOK, ResultInv, CosWait, RetryLabel, RefreshFlags, SignalCos,
        callVars, retVars, cosVars, devVars, flagVars, timerVars, irqVars, histVars,
        fwVars, threadVars, Goto, Return, Begin, ReadLabel, CosDone,
        InitWait
<1>1. ASSUME NEW t \in Thread, NEW o \in Op, NEW w \in BOOLEAN,
            Call(t, o, w)
      PROVE ResultInv'
  BY <1>1 DEF Call
<1>2. ASSUME NEW t \in Thread, ReadHandshakeFlags(t) PROVE ResultInv'
  BY <1>2 DEF ReadHandshakeFlags
<1>3. ASSUME NEW t \in Thread, SetHostState(t) PROVE ResultInv'
  BY <1>3 DEF SetHostState
<1>4. ASSUME NEW t \in Thread, BusStateOn(t) PROVE ResultInv'
  BY <1>4 DEF BusStateOn
<1>5. ASSUME NEW t \in Thread, BusStateOff(t) PROVE ResultInv'
  BY <1>5 DEF BusStateOff
<1>6. ASSUME NEW t \in Thread, ConfigLock(t) PROVE ResultInv'
  BY <1>6 DEF ConfigLock
<1>7. ASSUME NEW t \in Thread, ChannelInit(t) PROVE ResultInv'
  BY <1>7 DEF ChannelInit
<1>8. ASSUME NEW t \in Thread, WaitInitMutex(t) PROVE ResultInv'
  BY <1>8 DEF WaitInitMutex
<1>9. ASSUME NEW t \in Thread, WaitOk(t) PROVE ResultInv'
  BY <1>9 DEF WaitOk
<1>10. ASSUME NEW t \in Thread, WaitRetry(t) PROVE ResultInv'
  BY <1>10 DEF WaitRetry
<1>11. ASSUME NEW t \in Thread, WaitEvent(t) PROVE ResultInv'
  BY <1>11 DEF WaitEvent
<1>12. ASSUME NEW t \in Thread, HostCosChange(t) PROVE ResultInv'
  BY <1>12 DEF HostCosChange
<1>13. ASSUME NEW t \in Thread, HostCosRemember(t) PROVE ResultInv'
  BY <1>13 DEF HostCosRemember
<1>14. ASSUME NEW t \in Thread, ReadHostFlagsLoad(t) PROVE ResultInv'
  BY <1>14 DEF ReadHostFlagsLoad
<1>15. ASSUME NEW t \in Thread, ReadHostFlagsStore(t) PROVE ResultInv'
  BY <1>15 DEF ReadHostFlagsStore
<1>16. ASSUME NEW t \in Thread, ReleaseInitMutex(t) PROVE ResultInv'
  BY <1>16 DEF ReleaseInitMutex
<1>17. ASSUME NEW t \in Thread, WaitTimeout(t) PROVE ResultInv'
  BY <1>17 DEF WaitTimeout
<1>18. ASSUME NEW t \in Thread, WaitEventTimeout(t) PROVE ResultInv'
  BY <1>18 DEF WaitEventTimeout
<1>19. ASSUME NEW t \in Thread, WaitInitMutexTimeout(t) PROVE ResultInv'
  BY <1>19 DEF WaitInitMutexTimeout
<1>20. ASSUME TimerStart PROVE ResultInv'
  BY <1>20 DEF TimerStart
<1>21. ASSUME TimerCompare PROVE ResultInv'
  BY <1>21 DEF TimerCompare
<1>22. ASSUME TimerReadBit PROVE ResultInv'
  BY <1>22 DEF TimerReadBit
<1>23. ASSUME TimerEvalBit PROVE ResultInv'
  BY <1>23 DEF TimerEvalBit
<1>24. ASSUME TimerWrite PROVE ResultInv'
  BY <1>24 DEF TimerWrite
<1>25. ASSUME TimerRefresh PROVE ResultInv'
  BY <1>25 DEF TimerRefresh
<1>26. ASSUME TimerFinish PROVE ResultInv'
  BY <1>26 DEF TimerFinish
<1>27. ASSUME IsrConfirm PROVE ResultInv'
  BY <1>27 DEF IsrConfirm
<1>28. ASSUME IsrRead PROVE ResultInv'
  BY <1>28 DEF IsrRead
<1>29. ASSUME DsrUpdate PROVE ResultInv'
  BY <1>29 DEF DsrUpdate
<1>30. ASSUME DsrCosAck PROVE ResultInv'
  BY <1>30 DEF DsrCosAck
<1>31. ASSUME DsrCheck PROVE ResultInv'
  BY <1>31 DEF DsrCheck
<1>32. ASSUME DsrWrite PROVE ResultInv'
  BY <1>32 DEF DsrWrite
<1>33. ASSUME DsrSignal PROVE ResultInv'
  BY <1>33 DEF DsrSignal
<1>34. ASSUME DeviceAck PROVE ResultInv'
  BY <1>34 DEF DeviceAck
<1>35. ASSUME DeviceCom PROVE ResultInv'
  BY <1>35 DEF DeviceCom
<1>36. ASSUME NEW s \in CommState, DeviceCos(s) PROVE ResultInv'
  BY <1>36 DEF DeviceCos
<1>37. CASE UNCHANGED vars
  BY <1>37 DEF vars
<1> HIDE DEF TypeOK, ResultInv, CosWait, RetryLabel, RefreshFlags,
        SignalCos, callVars, retVars, cosVars, devVars, flagVars, timerVars, irqVars,
        histVars, fwVars, threadVars, Goto, Return, Begin, ReadLabel,
        CosDone, InitWait
<1> QED
  BY <1>1, <1>2, <1>3, <1>4, <1>5, <1>6, <1>7, <1>8, <1>9, <1>10, <1>11,
     <1>12, <1>13, <1>14, <1>15, <1>16, <1>17, <1>18, <1>19, <1>20, <1>21,
     <1>22, <1>23, <1>24, <1>25, <1>26, <1>27, <1>28, <1>29, <1>30, <1>31,
     <1>32, <1>33, <1>34, <1>35, <1>36, <1>37 DEF Next, ThreadStep,
     ThreadTimeout, TimerStep, IrqStep

(* A successful result is set only after the acknowledge. *)
LEMMA AcknowledgedStep ==
  ASSUME CosInv, [Next]_vars
  PROVE  UndisturbedAcknowledged'
<1> USE DEF CosInv, TypeOK, FlagInv, AckInv, ResultInv,
        UndisturbedAcknowledged, CosAcknowledged, Acknowledged, CosWait,
        Reached, SignallingError, RefreshFlags, SignalCos, callVars,
        retVars, cosVars, devVars, flagVars, timerVars, irqVars, histVars, fwVars,
        threadVars, Goto, Return, Begin, ReadLabel, CosDone, InitWait
<1>1. ASSUME NEW t \in Thread, NEW o \in Op, NEW w \in BOOLEAN,
            Call(t, o, w)
      PROVE UndisturbedAcknowledged'
  BY <1>1 DEF Call
<1>2. ASSUME NEW t \in Thread, ReadHandshakeFlags(t) PROVE UndisturbedAcknowledged'
  BY <1>2 DEF ReadHandshakeFlags
<1>3. ASSUME NEW t \in Thread, SetHostState(t) PROVE UndisturbedAcknowledged'
  BY <1>3 DEF SetHostState
<1>4. ASSUME NEW t \in Thread, BusStateOn(t) PROVE UndisturbedAcknowledged'
  BY <1>4 DEF BusStateOn
<1>5. ASSUME NEW t \in Thread, BusStateOff(t) PROVE UndisturbedAcknowledged'
  BY <1>5 DEF BusStateOff
<1>6. ASSUME NEW t \in Thread, ConfigLock(t) PROVE UndisturbedAcknowledged'
  BY <1>6 DEF ConfigLock
<1>7. ASSUME NEW t \in Thread, ChannelInit(t) PROVE UndisturbedAcknowledged'
  BY <1>7 DEF ChannelInit
<1>8. ASSUME NEW t \in Thread, WaitInitMutex(t) PROVE UndisturbedAcknowledged'
  BY <1>8 DEF WaitInitMutex
<1>9. ASSUME NEW t \in Thread, WaitOk(t) PROVE UndisturbedAcknowledged'
  BY <1>9 DEF WaitOk
<1>10. ASSUME NEW t \in Thread, WaitRetry(t) PROVE UndisturbedAcknowledged'
  BY <1>10 DEF WaitRetry
<1>11. ASSUME NEW t \in Thread, WaitEvent(t) PROVE UndisturbedAcknowledged'
  BY <1>11 DEF WaitEvent
<1>12. ASSUME NEW t \in Thread, HostCosChange(t) PROVE UndisturbedAcknowledged'
  BY <1>12 DEF HostCosChange
<1>13. ASSUME NEW t \in Thread, HostCosRemember(t) PROVE UndisturbedAcknowledged'
  BY <1>13 DEF HostCosRemember
<1>14. ASSUME NEW t \in Thread, ReadHostFlagsLoad(t) PROVE UndisturbedAcknowledged'
  BY <1>14 DEF ReadHostFlagsLoad
<1>15. ASSUME NEW t \in Thread, ReadHostFlagsStore(t) PROVE UndisturbedAcknowledged'
  BY <1>15 DEF ReadHostFlagsStore
<1>16. ASSUME NEW t \in Thread, ReleaseInitMutex(t) PROVE UndisturbedAcknowledged'
  BY <1>16 DEF ReleaseInitMutex
<1>17. ASSUME NEW t \in Thread, WaitTimeout(t) PROVE UndisturbedAcknowledged'
  BY <1>17 DEF WaitTimeout
<1>18. ASSUME NEW t \in Thread, WaitEventTimeout(t) PROVE UndisturbedAcknowledged'
  BY <1>18 DEF WaitEventTimeout
<1>19. ASSUME NEW t \in Thread, WaitInitMutexTimeout(t) PROVE UndisturbedAcknowledged'
  BY <1>19 DEF WaitInitMutexTimeout
<1>20. ASSUME TimerStart PROVE UndisturbedAcknowledged'
  BY <1>20 DEF TimerStart
<1>21. ASSUME TimerCompare PROVE UndisturbedAcknowledged'
  BY <1>21 DEF TimerCompare
<1>22. ASSUME TimerReadBit PROVE UndisturbedAcknowledged'
  BY <1>22 DEF TimerReadBit
<1>23. ASSUME TimerEvalBit PROVE UndisturbedAcknowledged'
  BY <1>23 DEF TimerEvalBit
<1>24. ASSUME TimerWrite PROVE UndisturbedAcknowledged'
  BY <1>24, HostCosAssumption DEF TimerWrite
<1>25. ASSUME TimerRefresh PROVE UndisturbedAcknowledged'
  BY <1>25 DEF TimerRefresh
<1>26. ASSUME TimerFinish PROVE UndisturbedAcknowledged'
  BY <1>26 DEF TimerFinish
<1>27. ASSUME IsrConfirm PROVE UndisturbedAcknowledged'
  BY <1>27 DEF IsrConfirm
<1>28. ASSUME IsrRead PROVE UndisturbedAcknowledged'
  BY <1>28 DEF IsrRead
<1>29. ASSUME DsrUpdate PROVE UndisturbedAcknowledged'
  BY <1>29 DEF DsrUpdate
<1>30. ASSUME DsrCosAck PROVE UndisturbedAcknowledged'
  BY <1>30 DEF DsrCosAck
<1>31. ASSUME DsrCheck PROVE UndisturbedAcknowledged'
  BY <1>31 DEF DsrCheck
<1>32. ASSUME DsrWrite PROVE UndisturbedAcknowledged'
  BY <1>32, HostCosAssumption DEF DsrWrite
<1>33. ASSUME DsrSignal PROVE UndisturbedAcknowledged'
  BY <1>33 DEF DsrSignal
<1>34. ASSUME DeviceAck PROVE UndisturbedAcknowledged'
  BY <1>34 DEF DeviceAck
<1>35. ASSUME DeviceCom PROVE UndisturbedAcknowledged'
  BY <1>35 DEF DeviceCom
<1>36. ASSUME NEW s \in CommState, DeviceCos(s) PROVE UndisturbedAcknowledged'
  BY <1>36 DEF DeviceCos
<1>37. CASE UNCHANGED vars
  BY <1>37 DEF vars
<1> HIDE DEF CosInv, TypeOK, FlagInv, AckInv, ResultInv,
        UndisturbedAcknowledged, CosAcknowledged, Acknowledged, CosWait,
        Reached, SignallingError, RefreshFlags, SignalCos, callVars,
        retVars, cosVars, devVars, flagVars, timerVars, irqVars, histVars, fwVars,
        threadVars, Goto, Return, Begin, ReadLabel, CosDone, InitWait
<1> QED
  BY <1>1, <1>2, <1>3, <1>4, <1>5, <1>6, <1>7, <1>8, <1>9, <1>10, <1>11,
     <1>12, <1>13, <1>14, <1>15, <1>16, <1>17, <1>18, <1>19, <1>20, <1>21,
     <1>22, <1>23, <1>24, <1>25, <1>26, <1>27, <1>28, <1>29, <1>30, <1>31,
     <1>32, <1>33, <1>34, <1>35, <1>36, <1>37 DEF Next, ThreadStep,
     ThreadTimeout, TimerStep, IrqStep

(* Only a channel initialisation signals INITIALIZATION_ENABLE, and strips it. *)
LEMMA OnceStep ==
  ASSUME TypeOK, ResultInv, OnceInv, [Next]_vars
  PROVE  OnceInv'
<1> USE DEF TypeOK, ResultInv, OnceInv, InitNotRepeated, CosWait, Wanted,
        EnableFlag, SignalCos, callVars, retVars, cosVars, devVars,
        flagVars, timerVars, irqVars, histVars, fwVars,
        threadVars, Goto, Return,
        Begin, ReadLabel, CosDone, InitWait
<1>1. ASSUME NEW t \in Thread, NEW o \in Op, NEW w \in BOOLEAN,
            Call(t, o, w)
      PROVE OnceInv'
  BY <1>1 DEF Call
<1>2. ASSUME NEW t \in Thread, ReadHandshakeFlags(t) PROVE OnceInv'
  BY <1>2 DEF ReadHandshakeFlags
<1>3. ASSUME NEW t \in Thread, SetHostState(t) PROVE OnceInv'
  BY <1>3 DEF SetHostState
<1>4. ASSUME NEW t \in Thread, BusStateOn(t) PROVE OnceInv'
  BY <1>4 DEF BusStateOn
<1>5. ASSUME NEW t \in Thread, BusStateOff(t) PROVE OnceInv'
  BY <1>5 DEF BusStateOff
<1>6. ASSUME NEW t \in Thread, ConfigLock(t) PROVE OnceInv'
  BY <1>6 DEF ConfigLock
<1>7. ASSUME NEW t \in Thread, ChannelInit(t) PROVE OnceInv'
  BY <1>7 DEF ChannelInit
<1>8. ASSUME NEW t \in Thread, WaitInitMutex(t) PROVE OnceInv'
  BY <1>8 DEF WaitInitMutex
<1>9. ASSUME NEW t \in Thread, WaitOk(t) PROVE OnceInv'
  BY <1>9 DEF WaitOk
<1>10. ASSUME NEW t \in Thread, WaitRetry(t) PROVE OnceInv'
  BY <1>10 DEF WaitRetry
<1>11. ASSUME NEW t \in Thread, WaitEvent(t) PROVE OnceInv'
  BY <1>11 DEF WaitEvent
<1>12. ASSUME NEW t \in Thread, HostCosChange(t) PROVE OnceInv'
  BY <1>12, MaskInit DEF HostCosChange
<1>13. ASSUME NEW t \in Thread, HostCosRemember(t) PROVE OnceInv'
  BY <1>13, MaskInit DEF HostCosRemember
<1>14. ASSUME NEW t \in Thread, ReadHostFlagsLoad(t) PROVE OnceInv'
  BY <1>14 DEF ReadHostFlagsLoad
<1>15. ASSUME NEW t \in Thread, ReadHostFlagsStore(t) PROVE OnceInv'
  BY <1>15 DEF ReadHostFlagsStore
<1>16. ASSUME NEW t \in Thread, ReleaseInitMutex(t) PROVE OnceInv'
  BY <1>16 DEF ReleaseInitMutex
<1>17. ASSUME NEW t \in Thread, WaitTimeout(t) PROVE OnceInv'
  BY <1>17 DEF WaitTimeout
<1>18. ASSUME NEW t \in Thread, WaitEventTimeout(t) PROVE OnceInv'
  BY <1>18 DEF WaitEventTimeout
<1>19. ASSUME NEW t \in Thread, WaitInitMutexTimeout(t) PROVE OnceInv'
  BY <1>19 DEF WaitInitMutexTimeout
<1>20. ASSUME TimerStart PROVE OnceInv'
  BY <1>20 DEF TimerStart
<1>21. ASSUME TimerCompare PROVE OnceInv'
  BY <1>21 DEF TimerCompare
<1>22. ASSUME TimerReadBit PROVE OnceInv'
  BY <1>22 DEF TimerReadBit
<1>23. ASSUME TimerEvalBit PROVE OnceInv'
  BY <1>23 DEF TimerEvalBit
<1>24. ASSUME TimerWrite PROVE OnceInv'
  BY <1>24 DEF TimerWrite
<1>25. ASSUME TimerRefresh PROVE OnceInv'
  BY <1>25 DEF TimerRefresh
<1>26. ASSUME TimerFinish PROVE OnceInv'
  BY <1>26 DEF TimerFinish
<1>27. ASSUME IsrConfirm PROVE OnceInv'
  BY <1>27 DEF IsrConfirm
<1>28. ASSUME IsrRead PROVE OnceInv'
  BY <1>28 DEF IsrRead
<1>29. ASSUME DsrUpdate PROVE OnceInv'
  BY <1>29 DEF DsrUpdate
<1>30. ASSUME DsrCosAck PROVE OnceInv'
  BY <1>30 DEF DsrCosAck
<1>31. ASSUME DsrCheck PROVE OnceInv'
  BY <1>31 DEF DsrCheck
<1>32. ASSUME DsrWrite PROVE OnceInv'
  BY <1>32 DEF DsrWrite
<1>33. ASSUME DsrSignal PROVE OnceInv'
  BY <1>33 DEF DsrSignal
<1>34. ASSUME DeviceAck PROVE OnceInv'
  BY <1>34 DEF DeviceAck
<1>35. ASSUME DeviceCom PROVE OnceInv'
  BY <1>35 DEF DeviceCom
<1>36. ASSUME NEW s \in CommState, DeviceCos(s) PROVE OnceInv'
  BY <1>36 DEF DeviceCos
<1>37. CASE UNCHANGED vars
  BY <1>37 DEF vars
<1> HIDE DEF TypeOK, ResultInv, OnceInv, InitNotRepeated, CosWait, Wanted,
        EnableFlag, SignalCos, callVars, retVars, cosVars, devVars,
        flagVars, timerVars, irqVars, histVars, fwVars,
        threadVars, Goto, Return,
        Begin, ReadLabel, CosDone, InitWait
<1> QED
  BY <1>1, <1>2, <1>3, <1>4, <1>5, <1>6, <1>7, <1>8, <1>9, <1>10, <1>11,
     <1>12, <1>13, <1>14, <1>15, <1>16, <1>17, <1>18, <1>19, <1>20, <1>21,
     <1>22, <1>23, <1>24, <1>25, <1>26, <1>27, <1>28, <1>29, <1>30, <1>31,
     <1>32, <1>33, <1>34, <1>35, <1>36, <1>37 DEF Next, ThreadStep,
     ThreadTimeout, TimerStep, IrqStep

(* The initial states satisfy the invariants. *)
LEMMA InvInit == Init => CosInv /\ OnceInv
<1> SUFFICES ASSUME Init PROVE CosInv /\ OnceInv
  OBVIOUS
<1>1. TypeOK
  <2> USE DEF Init
  <2>1. /\ pc \in [Thread -> Label] /\ stage \in [Thread -> Stage]
        /\ op \in [Thread -> Op \cup {"none"}]
        /\ cosRet \in [Thread -> CosResult] /\ ret \in [Thread -> Result]
    BY DEF Label, Stage, CosResult, Result
  <2>2. /\ wait \in [Thread -> BOOLEAN] /\ was \in [Thread -> BOOLEAN]
        /\ acked \in [Thread -> BOOLEAN] /\ tmp \in [Thread -> SUBSET Bit]
    OBVIOUS
  <2>3. commCOS \subseteq CommFlag
    BY HostCosAssumption
  <2>4. calls \in 0 .. MaxCalls /\ changes \in 0 .. MaxChange
    BY HostCosAssumption
  <2> QED
    BY <2>1, <2>2, <2>3, <2>4 DEF TypeOK, Party
<1>2. ModeInv /\ FlagInv /\ AckInv /\ ResultInv /\ UndisturbedAcknowledged
  BY DEF Init, ModeInv, FlagInv, AckInv, ResultInv, UndisturbedAcknowledged,
     CosAcknowledged, Acknowledged, Unequal
<1>3. OnceInv
  BY DEF Init, OnceInv, InitNotRepeated
<1> QED
  BY <1>1, <1>2, <1>3 DEF CosInv

(* Every step keeps them. *)
LEMMA InvStep == CosInv /\ OnceInv /\ [Next]_vars => CosInv' /\ OnceInv'
<1> SUFFICES ASSUME CosInv, OnceInv, [Next]_vars PROVE CosInv' /\ OnceInv'
  OBVIOUS
<1>1. /\ TypeOK /\ ModeInv /\ FlagInv /\ AckInv /\ ResultInv
  BY DEF CosInv
<1> QED
  BY <1>1, TypeStep, ModeStep, FlagStep, AckStep, ResultStep, AcknowledgedStep,
     OnceStep DEF CosInv

(* The inductive invariant holds in every reachable state: the modes stay  *)
(* apart, undisturbed copies of the netX bits are safe to act on, and an   *)
(* unanswered COS command is still pending.                                *)
THEOREM HostCosInvariant == Spec => [](CosInv /\ OnceInv)
BY InvInit, InvStep, PTL DEF Spec

(* The channel instance, the threads and the DPM keep their types.         *)
THEOREM TypeCorrect == Spec => []TypeOK
<1>1. CosInv => TypeOK
  BY DEF CosInv
<1> QED
  BY <1>1, HostCosInvariant, PTL

(* DEV_DoHostCOSChange reports CIFX_NO_ERROR only for flags the firmware   *)
(* has read, unless a party acted on an outdated test of the command bit.  *)
THEOREM UndisturbedIsAcknowledged == Spec => []UndisturbedAcknowledged
<1>1. CosInv => UndisturbedAcknowledged
  BY DEF CosInv
<1> QED
  BY <1>1, HostCosInvariant, PTL

(* No COS command makes the firmware initialise the channel a second time  *)
(* for one xChannelReset.                                                  *)
THEOREM InitIsNotRepeated == Spec => []InitNotRepeated
<1>1. OnceInv => InitNotRepeated
  BY DEF OnceInv
<1> QED
  BY <1>1, HostCosInvariant, PTL

-----------------------------------------------------------------------------
(* One application thread in polling mode.  While a channel initialisation  *)
(* owns pvInitMutex nobody else touches the handshake flags, so what it     *)
(* finds in them is true again, whatever outdated tests came before.        *)

Alone == \A t, u \in Thread : t = u
Level(f, g) == ~Unequal(f, g, "hostCos")
Initialising(t) ==
  /\ op[t] = "init"
  /\ \/ pc[t] \in {"change", "load", "store"}
     \/ pc[t] \in {"read", "eval"} /\ stage[t] # "pre"

OwnerInv ==
  /\ timerPc # "idle" => initMutex = "timer"
  /\ \A t \in Thread :
       /\ pc[t] # "wait"
       /\ stage[t] \in {"notRunning", "notReady", "ready"} => op[t] = "init"
       /\ pc[t] \in {"load", "store"} => op[t] = "init"
       /\ Initialising(t) \/ pc[t] = "release" => initMutex = t

HostInv ==
  /\ usHostFlags = cellHost
  /\ \A t \in Thread : pc[t] = "store" => tmp[t] = cellHost

FreshInv ==
  \A t \in Thread : op[t] = "init" =>
    /\ pc[t] = "change" => Level(usHostFlags, usNetxFlags)
    /\ pc[t] \in {"eval", "change"} /\ stage[t] \in {"access", "ack"} =>
         (Level(usHostFlags, usNetxFlags) => Level(cellHost, cellNetx))
    /\ pc[t] = "change" => stage[t] = "access"
    /\ pc[t] \in {"read", "eval"} /\ stage[t] = "ack" =>
         acked[t] \/ (writer = t /\ ~Level(cellHost, cellNetx))

PollInv == ~fIrqEnabled => OwnerInv /\ HostInv /\ FreshInv /\ InitAcknowledged

(* Polling thread and channel initialisation own pvInitMutex in turn. *)
LEMMA OwnerStep ==
  ASSUME TypeOK, ModeInv, ResultInv, ~fIrqEnabled, OwnerInv, [Next]_vars
  PROVE  OwnerInv'
<1> USE DEF TypeOK, OwnerInv, Initialising, ResultInv, CosWait, RetryLabel,
        InitMutexFree, Stage, Goto, Return, Begin, ReadLabel, CosDone, InitWait,
        callVars, retVars, cosVars, devVars, flagVars, timerVars, irqVars, histVars,
        fwVars, threadVars
<1>1. ASSUME NEW t \in Thread, NEW o \in Op, NEW w \in BOOLEAN, Call(t, o, w) PROVE OwnerInv'
  BY <1>1, HostCosAssumption DEF Call
<1>2. ASSUME NEW t \in Thread, ReadHandshakeFlags(t) PROVE OwnerInv'
  BY <1>2, HostCosAssumption DEF ReadHandshakeFlags
<1>3. ASSUME NEW t \in Thread, SetHostState(t) PROVE OwnerInv'
  BY <1>3, HostCosAssumption DEF SetHostState
<1>4. ASSUME NEW t \in Thread, BusStateOn(t) PROVE OwnerInv'
  BY <1>4, HostCosAssumption DEF BusStateOn
<1>5. ASSUME NEW t \in Thread, BusStateOff(t) PROVE OwnerInv'
  BY <1>5, HostCosAssumption DEF BusStateOff
<1>6. ASSUME NEW t \in Thread, ConfigLock(t) PROVE OwnerInv'
  BY <1>6, HostCosAssumption DEF ConfigLock
<1>7. ASSUME NEW t \in Thread, ChannelInit(t) PROVE OwnerInv'
  BY <1>7, HostCosAssumption DEF ChannelInit
<1>8. ASSUME NEW t \in Thread, WaitInitMutex(t) PROVE OwnerInv'
  BY <1>8, HostCosAssumption DEF WaitInitMutex
<1>9. ASSUME NEW t \in Thread, WaitOk(t) PROVE OwnerInv'
  BY <1>9, HostCosAssumption DEF WaitOk
<1>10. ASSUME NEW t \in Thread, WaitRetry(t) PROVE OwnerInv'
  BY <1>10, HostCosAssumption DEF WaitRetry
<1>11. ASSUME NEW t \in Thread, WaitEvent(t) PROVE OwnerInv'
  BY <1>11, HostCosAssumption DEF WaitEvent
<1>12. ASSUME NEW t \in Thread, HostCosChange(t) PROVE OwnerInv'
  BY <1>12, HostCosAssumption DEF HostCosChange
<1>13. ASSUME NEW t \in Thread, HostCosRemember(t) PROVE OwnerInv'
  BY <1>13, HostCosAssumption DEF HostCosRemember
<1>14. ASSUME NEW t \in Thread, ReadHostFlagsLoad(t) PROVE OwnerInv'
  BY <1>14, HostCosAssumption DEF ReadHostFlagsLoad
<1>15. ASSUME NEW t \in Thread, ReadHostFlagsStore(t) PROVE OwnerInv'
  BY <1>15, HostCosAssumption DEF ReadHostFlagsStore
<1>16. ASSUME NEW t \in Thread, ReleaseInitMutex(t) PROVE OwnerInv'
  BY <1>16, HostCosAssumption DEF ReleaseInitMutex
<1>17. ASSUME NEW t \in Thread, WaitTimeout(t) PROVE OwnerInv'
  BY <1>17, HostCosAssumption DEF WaitTimeout
<1>18. ASSUME NEW t \in Thread, WaitEventTimeout(t) PROVE OwnerInv'
  BY <1>18, HostCosAssumption DEF WaitEventTimeout
<1>19. ASSUME NEW t \in Thread, WaitInitMutexTimeout(t) PROVE OwnerInv'
  BY <1>19, HostCosAssumption DEF WaitInitMutexTimeout
<1>20. ASSUME TimerStart PROVE OwnerInv'
  BY <1>20, HostCosAssumption DEF TimerStart
<1>21. ASSUME TimerCompare PROVE OwnerInv'
  BY <1>21, HostCosAssumption DEF TimerCompare
<1>22. ASSUME TimerReadBit PROVE OwnerInv'
  BY <1>22, HostCosAssumption DEF TimerReadBit
<1>23. ASSUME TimerEvalBit PROVE OwnerInv'
  BY <1>23, HostCosAssumption DEF TimerEvalBit
<1>24. ASSUME TimerWrite PROVE OwnerInv'
  BY <1>24, HostCosAssumption DEF TimerWrite
<1>25. ASSUME TimerRefresh PROVE OwnerInv'
  BY <1>25, HostCosAssumption DEF TimerRefresh
<1>26. ASSUME TimerFinish PROVE OwnerInv'
  BY <1>26, HostCosAssumption DEF TimerFinish
<1>27. ASSUME IrqStep PROVE FALSE
  BY <1>27 DEF IrqStep, IsrConfirm, IsrRead, DsrUpdate, DsrCosAck, DsrCheck, DsrWrite,
     DsrSignal, ModeInv
<1>28. ASSUME DeviceAck PROVE OwnerInv'
  BY <1>28, HostCosAssumption DEF DeviceAck
<1>29. ASSUME DeviceCom PROVE OwnerInv'
  BY <1>29, HostCosAssumption DEF DeviceCom
<1>30. ASSUME NEW s \in CommState, DeviceCos(s) PROVE OwnerInv'
  BY <1>30, HostCosAssumption DEF DeviceCos
<1>31. CASE UNCHANGED vars
  BY <1>31 DEF vars
<1> HIDE DEF TypeOK, OwnerInv, Initialising, ResultInv, CosWait, RetryLabel,
        InitMutexFree, Stage, Goto, Return, Begin, ReadLabel, CosDone, InitWait,
        callVars, retVars, cosVars, devVars, flagVars, timerVars, irqVars, histVars,
        fwVars, threadVars
<1> QED
  BY <1>1, <1>2, <1>3, <1>4, <1>5, <1>6, <1>7, <1>8, <1>9, <1>10, <1>11, <1>12,
     <1>13, <1>14, <1>15, <1>16, <1>17, <1>18, <1>19, <1>20, <1>21, <1>22, <1>23,
     <1>24, <1>25, <1>26, <1>27, <1>28, <1>29, <1>30, <1>31 DEF Next, ThreadStep,
     ThreadTimeout, TimerStep

(* The host bits are what the cell shows: nothing comes between the two      *)
(* halves of DEV_ReadHostFlags.                                              *)
LEMMA HostStep ==
  ASSUME Alone, TypeOK, ModeInv, ~fIrqEnabled, OwnerInv, HostInv, [Next]_vars
  PROVE  HostInv'
<1> USE DEF TypeOK, Alone, OwnerInv, Initialising, HostInv, RefreshFlags, SignalCos,
        RetryLabel, InitMutexFree, Goto, Return, Begin, ReadLabel, CosDone,
        InitWait, callVars, retVars, cosVars, devVars, flagVars, timerVars, irqVars,
        histVars, fwVars, threadVars
<1>1. ASSUME NEW t \in Thread, NEW o \in Op, NEW w \in BOOLEAN, Call(t, o, w) PROVE HostInv'
  BY <1>1, HostCosAssumption DEF Call
<1>2. ASSUME NEW t \in Thread, ReadHandshakeFlags(t) PROVE HostInv'
  BY <1>2, HostCosAssumption DEF ReadHandshakeFlags
<1>3. ASSUME NEW t \in Thread, SetHostState(t) PROVE HostInv'
  BY <1>3, HostCosAssumption DEF SetHostState
<1>4. ASSUME NEW t \in Thread, BusStateOn(t) PROVE HostInv'
  BY <1>4, HostCosAssumption DEF BusStateOn
<1>5. ASSUME NEW t \in Thread, BusStateOff(t) PROVE HostInv'
  BY <1>5, HostCosAssumption DEF BusStateOff
<1>6. ASSUME NEW t \in Thread, ConfigLock(t) PROVE HostInv'
  BY <1>6, HostCosAssumption DEF ConfigLock
<1>7. ASSUME NEW t \in Thread, ChannelInit(t) PROVE HostInv'
  BY <1>7, HostCosAssumption DEF ChannelInit
<1>8. ASSUME NEW t \in Thread, WaitInitMutex(t) PROVE HostInv'
  BY <1>8, HostCosAssumption DEF WaitInitMutex
<1>9. ASSUME NEW t \in Thread, WaitOk(t) PROVE HostInv'
  BY <1>9, HostCosAssumption DEF WaitOk
<1>10. ASSUME NEW t \in Thread, WaitRetry(t) PROVE HostInv'
  BY <1>10, HostCosAssumption DEF WaitRetry
<1>11. ASSUME NEW t \in Thread, WaitEvent(t) PROVE HostInv'
  BY <1>11, HostCosAssumption DEF WaitEvent
<1>12. ASSUME NEW t \in Thread, HostCosChange(t) PROVE HostInv'
  BY <1>12, HostCosAssumption DEF HostCosChange
<1>13. ASSUME NEW t \in Thread, HostCosRemember(t) PROVE HostInv'
  BY <1>13, HostCosAssumption DEF HostCosRemember
<1>14. ASSUME NEW t \in Thread, ReadHostFlagsLoad(t) PROVE HostInv'
  BY <1>14, HostCosAssumption DEF ReadHostFlagsLoad
<1>15. ASSUME NEW t \in Thread, ReadHostFlagsStore(t) PROVE HostInv'
  BY <1>15, HostCosAssumption DEF ReadHostFlagsStore
<1>16. ASSUME NEW t \in Thread, ReleaseInitMutex(t) PROVE HostInv'
  BY <1>16, HostCosAssumption DEF ReleaseInitMutex
<1>17. ASSUME NEW t \in Thread, WaitTimeout(t) PROVE HostInv'
  BY <1>17, HostCosAssumption DEF WaitTimeout
<1>18. ASSUME NEW t \in Thread, WaitEventTimeout(t) PROVE HostInv'
  BY <1>18, HostCosAssumption DEF WaitEventTimeout
<1>19. ASSUME NEW t \in Thread, WaitInitMutexTimeout(t) PROVE HostInv'
  BY <1>19, HostCosAssumption DEF WaitInitMutexTimeout
<1>20. ASSUME TimerStart PROVE HostInv'
  BY <1>20, HostCosAssumption DEF TimerStart
<1>21. ASSUME TimerCompare PROVE HostInv'
  BY <1>21, HostCosAssumption DEF TimerCompare
<1>22. ASSUME TimerReadBit PROVE HostInv'
  BY <1>22, HostCosAssumption DEF TimerReadBit
<1>23. ASSUME TimerEvalBit PROVE HostInv'
  BY <1>23, HostCosAssumption DEF TimerEvalBit
<1>24. ASSUME TimerWrite PROVE HostInv'
  BY <1>24, HostCosAssumption DEF TimerWrite
<1>25. ASSUME TimerRefresh PROVE HostInv'
  BY <1>25, HostCosAssumption DEF TimerRefresh
<1>26. ASSUME TimerFinish PROVE HostInv'
  BY <1>26, HostCosAssumption DEF TimerFinish
<1>27. ASSUME IrqStep PROVE FALSE
  BY <1>27 DEF IrqStep, IsrConfirm, IsrRead, DsrUpdate, DsrCosAck, DsrCheck, DsrWrite,
     DsrSignal, ModeInv
<1>28. ASSUME DeviceAck PROVE HostInv'
  BY <1>28, HostCosAssumption DEF DeviceAck
<1>29. ASSUME DeviceCom PROVE HostInv'
  BY <1>29, HostCosAssumption DEF DeviceCom
<1>30. ASSUME NEW s \in CommState, DeviceCos(s) PROVE HostInv'
  BY <1>30, HostCosAssumption DEF DeviceCos
<1>31. CASE UNCHANGED vars
  BY <1>31 DEF vars
<1> HIDE DEF TypeOK, Alone, OwnerInv, Initialising, HostInv, RefreshFlags,
        SignalCos, RetryLabel, InitMutexFree, Goto, Return, Begin, ReadLabel,
        CosDone, InitWait, callVars, retVars, cosVars, devVars, flagVars, timerVars,
        irqVars, histVars, fwVars, threadVars
<1> QED
  BY <1>1, <1>2, <1>3, <1>4, <1>5, <1>6, <1>7, <1>8, <1>9, <1>10, <1>11, <1>12,
     <1>13, <1>14, <1>15, <1>16, <1>17, <1>18, <1>19, <1>20, <1>21, <1>22, <1>23,
     <1>24, <1>25, <1>26, <1>27, <1>28, <1>29, <1>30, <1>31 DEF Next, ThreadStep,
     ThreadTimeout, TimerStep

(* A channel initialisation signals when the bits are equal, and its command  *)
(* is pending until the firmware has read it.                                *)
LEMMA FreshStep ==
  ASSUME Alone, TypeOK, ModeInv, ResultInv, ~fIrqEnabled, OwnerInv, HostInv,
         FreshInv, [Next]_vars
  PROVE  FreshInv'
<1> USE DEF TypeOK, Alone, OwnerInv, Initialising, HostInv, FreshInv, ResultInv,
        CosWait, Level, Unequal, Toggle, Reached, RefreshFlags, SignalCos,
        RetryLabel, InitMutexFree, Goto, Return, Begin, ReadLabel, CosDone,
        InitWait, callVars, retVars, cosVars, devVars, flagVars, timerVars, irqVars,
        histVars, fwVars, threadVars
<1>1. ASSUME NEW t \in Thread, NEW o \in Op, NEW w \in BOOLEAN, Call(t, o, w) PROVE FreshInv'
  BY <1>1, HostCosAssumption DEF Call
<1>2. ASSUME NEW t \in Thread, ReadHandshakeFlags(t) PROVE FreshInv'
  BY <1>2, HostCosAssumption DEF ReadHandshakeFlags
<1>3. ASSUME NEW t \in Thread, SetHostState(t) PROVE FreshInv'
  BY <1>3, HostCosAssumption DEF SetHostState
<1>4. ASSUME NEW t \in Thread, BusStateOn(t) PROVE FreshInv'
  BY <1>4, HostCosAssumption DEF BusStateOn
<1>5. ASSUME NEW t \in Thread, BusStateOff(t) PROVE FreshInv'
  BY <1>5, HostCosAssumption DEF BusStateOff
<1>6. ASSUME NEW t \in Thread, ConfigLock(t) PROVE FreshInv'
  BY <1>6, HostCosAssumption DEF ConfigLock
<1>7. ASSUME NEW t \in Thread, ChannelInit(t) PROVE FreshInv'
  BY <1>7, HostCosAssumption DEF ChannelInit
<1>8. ASSUME NEW t \in Thread, WaitInitMutex(t) PROVE FreshInv'
  BY <1>8, HostCosAssumption DEF WaitInitMutex
<1>9. ASSUME NEW t \in Thread, WaitOk(t) PROVE FreshInv'
  BY <1>9, HostCosAssumption DEF WaitOk
<1>10. ASSUME NEW t \in Thread, WaitRetry(t) PROVE FreshInv'
  BY <1>10, HostCosAssumption DEF WaitRetry
<1>11. ASSUME NEW t \in Thread, WaitEvent(t) PROVE FreshInv'
  BY <1>11, HostCosAssumption DEF WaitEvent
<1>12. ASSUME NEW t \in Thread, HostCosChange(t) PROVE FreshInv'
  BY <1>12, HostCosAssumption DEF HostCosChange
<1>13. ASSUME NEW t \in Thread, HostCosRemember(t) PROVE FreshInv'
  BY <1>13, HostCosAssumption DEF HostCosRemember
<1>14. ASSUME NEW t \in Thread, ReadHostFlagsLoad(t) PROVE FreshInv'
  BY <1>14, HostCosAssumption DEF ReadHostFlagsLoad
<1>15. ASSUME NEW t \in Thread, ReadHostFlagsStore(t) PROVE FreshInv'
  BY <1>15, HostCosAssumption DEF ReadHostFlagsStore
<1>16. ASSUME NEW t \in Thread, ReleaseInitMutex(t) PROVE FreshInv'
  BY <1>16, HostCosAssumption DEF ReleaseInitMutex
<1>17. ASSUME NEW t \in Thread, WaitTimeout(t) PROVE FreshInv'
  BY <1>17, HostCosAssumption DEF WaitTimeout
<1>18. ASSUME NEW t \in Thread, WaitEventTimeout(t) PROVE FreshInv'
  BY <1>18, HostCosAssumption DEF WaitEventTimeout
<1>19. ASSUME NEW t \in Thread, WaitInitMutexTimeout(t) PROVE FreshInv'
  BY <1>19, HostCosAssumption DEF WaitInitMutexTimeout
<1>20. ASSUME TimerStart PROVE FreshInv'
  BY <1>20, HostCosAssumption DEF TimerStart
<1>21. ASSUME TimerCompare PROVE FreshInv'
  BY <1>21, HostCosAssumption DEF TimerCompare
<1>22. ASSUME TimerReadBit PROVE FreshInv'
  BY <1>22, HostCosAssumption DEF TimerReadBit
<1>23. ASSUME TimerEvalBit PROVE FreshInv'
  BY <1>23, HostCosAssumption DEF TimerEvalBit
<1>24. ASSUME TimerWrite PROVE FreshInv'
  BY <1>24, HostCosAssumption DEF TimerWrite
<1>25. ASSUME TimerRefresh PROVE FreshInv'
  BY <1>25, HostCosAssumption DEF TimerRefresh
<1>26. ASSUME TimerFinish PROVE FreshInv'
  BY <1>26, HostCosAssumption DEF TimerFinish
<1>27. ASSUME IrqStep PROVE FALSE
  BY <1>27 DEF IrqStep, IsrConfirm, IsrRead, DsrUpdate, DsrCosAck, DsrCheck, DsrWrite,
     DsrSignal, ModeInv
<1>28. ASSUME DeviceAck PROVE FreshInv'
  BY <1>28, HostCosAssumption DEF DeviceAck
<1>29. ASSUME DeviceCom PROVE FreshInv'
  BY <1>29, HostCosAssumption DEF DeviceCom
<1>30. ASSUME NEW s \in CommState, DeviceCos(s) PROVE FreshInv'
  BY <1>30, HostCosAssumption DEF DeviceCos
<1>31. CASE UNCHANGED vars
  BY <1>31 DEF vars
<1> HIDE DEF TypeOK, Alone, OwnerInv, Initialising, HostInv, FreshInv, ResultInv,
        CosWait, Level, Unequal, Toggle, Reached, RefreshFlags, SignalCos,
        RetryLabel, InitMutexFree, Goto, Return, Begin, ReadLabel, CosDone,
        InitWait, callVars, retVars, cosVars, devVars, flagVars, timerVars, irqVars,
        histVars, fwVars, threadVars
<1> QED
  BY <1>1, <1>2, <1>3, <1>4, <1>5, <1>6, <1>7, <1>8, <1>9, <1>10, <1>11, <1>12,
     <1>13, <1>14, <1>15, <1>16, <1>17, <1>18, <1>19, <1>20, <1>21, <1>22, <1>23,
     <1>24, <1>25, <1>26, <1>27, <1>28, <1>29, <1>30, <1>31 DEF Next, ThreadStep,
     ThreadTimeout, TimerStep

(* Its success is reported only after that. *)
LEMMA InitAckStep ==
  ASSUME TypeOK, ModeInv, ResultInv, ~fIrqEnabled, OwnerInv, HostInv, FreshInv,
         InitAcknowledged, [Next]_vars
  PROVE  InitAcknowledged'
<1> USE DEF TypeOK, HostInv, FreshInv, ResultInv, InitAcknowledged, Acknowledged,
        CosWait, Level, Unequal, Reached, SignallingError, RefreshFlags, SignalCos,
        RetryLabel, InitMutexFree, Goto, Return, Begin, ReadLabel, CosDone,
        InitWait, callVars, retVars, cosVars, devVars, flagVars, timerVars, irqVars,
        histVars, fwVars, threadVars
<1>1. ASSUME NEW t \in Thread, NEW o \in Op, NEW w \in BOOLEAN, Call(t, o, w) PROVE InitAcknowledged'
  BY <1>1, HostCosAssumption DEF Call
<1>2. ASSUME NEW t \in Thread, ReadHandshakeFlags(t) PROVE InitAcknowledged'
  BY <1>2, HostCosAssumption DEF ReadHandshakeFlags
<1>3. ASSUME NEW t \in Thread, SetHostState(t) PROVE InitAcknowledged'
  BY <1>3, HostCosAssumption DEF SetHostState
<1>4. ASSUME NEW t \in Thread, BusStateOn(t) PROVE InitAcknowledged'
  BY <1>4, HostCosAssumption DEF BusStateOn
<1>5. ASSUME NEW t \in Thread, BusStateOff(t) PROVE InitAcknowledged'
  BY <1>5, HostCosAssumption DEF BusStateOff
<1>6. ASSUME NEW t \in Thread, ConfigLock(t) PROVE InitAcknowledged'
  BY <1>6, HostCosAssumption DEF ConfigLock
<1>7. ASSUME NEW t \in Thread, ChannelInit(t) PROVE InitAcknowledged'
  BY <1>7, HostCosAssumption DEF ChannelInit
<1>8. ASSUME NEW t \in Thread, WaitInitMutex(t) PROVE InitAcknowledged'
  BY <1>8, HostCosAssumption DEF WaitInitMutex
<1>9. ASSUME NEW t \in Thread, WaitOk(t) PROVE InitAcknowledged'
  BY <1>9, HostCosAssumption DEF WaitOk
<1>10. ASSUME NEW t \in Thread, WaitRetry(t) PROVE InitAcknowledged'
  BY <1>10, HostCosAssumption DEF WaitRetry
<1>11. ASSUME NEW t \in Thread, WaitEvent(t) PROVE InitAcknowledged'
  BY <1>11, HostCosAssumption DEF WaitEvent
<1>12. ASSUME NEW t \in Thread, HostCosChange(t) PROVE InitAcknowledged'
  BY <1>12, HostCosAssumption DEF HostCosChange
<1>13. ASSUME NEW t \in Thread, HostCosRemember(t) PROVE InitAcknowledged'
  BY <1>13, HostCosAssumption DEF HostCosRemember
<1>14. ASSUME NEW t \in Thread, ReadHostFlagsLoad(t) PROVE InitAcknowledged'
  BY <1>14, HostCosAssumption DEF ReadHostFlagsLoad
<1>15. ASSUME NEW t \in Thread, ReadHostFlagsStore(t) PROVE InitAcknowledged'
  BY <1>15, HostCosAssumption DEF ReadHostFlagsStore
<1>16. ASSUME NEW t \in Thread, ReleaseInitMutex(t) PROVE InitAcknowledged'
  BY <1>16, HostCosAssumption DEF ReleaseInitMutex
<1>17. ASSUME NEW t \in Thread, WaitTimeout(t) PROVE InitAcknowledged'
  BY <1>17, HostCosAssumption DEF WaitTimeout
<1>18. ASSUME NEW t \in Thread, WaitEventTimeout(t) PROVE InitAcknowledged'
  BY <1>18, HostCosAssumption DEF WaitEventTimeout
<1>19. ASSUME NEW t \in Thread, WaitInitMutexTimeout(t) PROVE InitAcknowledged'
  BY <1>19, HostCosAssumption DEF WaitInitMutexTimeout
<1>20. ASSUME TimerStart PROVE InitAcknowledged'
  BY <1>20, HostCosAssumption DEF TimerStart
<1>21. ASSUME TimerCompare PROVE InitAcknowledged'
  BY <1>21, HostCosAssumption DEF TimerCompare
<1>22. ASSUME TimerReadBit PROVE InitAcknowledged'
  BY <1>22, HostCosAssumption DEF TimerReadBit
<1>23. ASSUME TimerEvalBit PROVE InitAcknowledged'
  BY <1>23, HostCosAssumption DEF TimerEvalBit
<1>24. ASSUME TimerWrite PROVE InitAcknowledged'
  BY <1>24, HostCosAssumption DEF TimerWrite
<1>25. ASSUME TimerRefresh PROVE InitAcknowledged'
  BY <1>25, HostCosAssumption DEF TimerRefresh
<1>26. ASSUME TimerFinish PROVE InitAcknowledged'
  BY <1>26, HostCosAssumption DEF TimerFinish
<1>27. ASSUME IrqStep PROVE FALSE
  BY <1>27 DEF IrqStep, IsrConfirm, IsrRead, DsrUpdate, DsrCosAck, DsrCheck, DsrWrite,
     DsrSignal, ModeInv
<1>28. ASSUME DeviceAck PROVE InitAcknowledged'
  BY <1>28, HostCosAssumption DEF DeviceAck
<1>29. ASSUME DeviceCom PROVE InitAcknowledged'
  BY <1>29, HostCosAssumption DEF DeviceCom
<1>30. ASSUME NEW s \in CommState, DeviceCos(s) PROVE InitAcknowledged'
  BY <1>30, HostCosAssumption DEF DeviceCos
<1>31. CASE UNCHANGED vars
  BY <1>31 DEF vars
<1> HIDE DEF TypeOK, HostInv, FreshInv, ResultInv, InitAcknowledged, Acknowledged,
        CosWait, Level, Unequal, Reached, SignallingError, RefreshFlags, SignalCos,
        RetryLabel, InitMutexFree, Goto, Return, Begin, ReadLabel, CosDone,
        InitWait, callVars, retVars, cosVars, devVars, flagVars, timerVars, irqVars,
        histVars, fwVars, threadVars
<1> QED
  BY <1>1, <1>2, <1>3, <1>4, <1>5, <1>6, <1>7, <1>8, <1>9, <1>10, <1>11, <1>12,
     <1>13, <1>14, <1>15, <1>16, <1>17, <1>18, <1>19, <1>20, <1>21, <1>22, <1>23,
     <1>24, <1>25, <1>26, <1>27, <1>28, <1>29, <1>30, <1>31 DEF Next, ThreadStep,
     ThreadTimeout, TimerStep

(* The mode of a device does not change. *)
LEMMA ModeKept ==
  ASSUME [Next]_vars
  PROVE  fIrqEnabled' = fIrqEnabled
BY DEF Next, ThreadStep, ThreadTimeout, TimerStep, IrqStep, Call, ReadHandshakeFlags,
   SetHostState, BusStateOn, BusStateOff, ConfigLock, ChannelInit, WaitInitMutex, WaitOk,
   WaitRetry, WaitEvent, HostCosChange, HostCosRemember, ReadHostFlagsLoad,
   ReadHostFlagsStore, ReleaseInitMutex, WaitTimeout, WaitEventTimeout,
   WaitInitMutexTimeout, TimerStart, TimerCompare, TimerReadBit, TimerEvalBit, TimerWrite,
   TimerRefresh, TimerFinish, IsrConfirm, IsrRead, DsrUpdate, DsrCosAck, DsrCheck,
   DsrWrite, DsrSignal, DeviceAck, DeviceCom, DeviceCos, vars

(* DEV_DoChannelInit, with one application thread and no interrupts: if the *)
(* COS handshake of a channel initialisation ends well, the firmware has    *)
(* read the flags, whatever outdated tests went before.                     *)
THEOREM InitIsAcknowledged ==
  ASSUME Alone
  PROVE  Spec => []InitAcknowledged
<1>1. Init => PollInv
  BY DEF Init, PollInv, OwnerInv, HostInv, FreshInv, InitAcknowledged, Acknowledged, Initialising
<1>2. CosInv /\ PollInv /\ [Next]_vars => PollInv'
  <2> SUFFICES ASSUME CosInv, PollInv, [Next]_vars, ~fIrqEnabled'
               PROVE  OwnerInv' /\ HostInv' /\ FreshInv' /\ InitAcknowledged'
    BY DEF PollInv
  <2>1. /\ ~fIrqEnabled /\ TypeOK /\ ModeInv /\ ResultInv
        /\ OwnerInv /\ HostInv /\ FreshInv /\ InitAcknowledged
    BY ModeKept DEF PollInv, CosInv
  <2> QED
    BY <2>1, OwnerStep, HostStep, FreshStep, InitAckStep
<1>3. PollInv => InitAcknowledged
  BY DEF PollInv, InitAcknowledged
<1> QED
  BY <1>1, <1>2, <1>3, HostCosInvariant, PTL DEF Spec
=============================================================================

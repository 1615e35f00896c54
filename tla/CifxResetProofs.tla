-------------------------- MODULE CifxResetProofs --------------------------
(***************************************************************************)
(* Proofs about CifxReset, for any number of callers and calls.            *)
(***************************************************************************)
EXTENDS CifxReset, TLAPS

(* A stage of a start function keeps the types. *)
LEMMA StageType ==
  ASSUME TypeOK, NEW c \in Caller, NEW from, NEW r \in ResultCode,
         NEW l \in Label, Stage(c, from, r, l)
  PROVE  TypeOK'
<1>1. failed' \in BOOLEAN
  BY Zenon DEF Stage, TypeOK
<1>2. pc' \in [Caller -> Label] /\ lRet' \in [Caller -> ResultCode]
  BY DEF Stage, TypeOK, Goto, Result
<1> QED
  BY <1>1, <1>2 DEF Stage, TypeOK, callVars, handlerVars, devVars, dpmVars,
     errVars, modeVars

(* Every step keeps the types. *)
LEMMA TypeStep ==
  ASSUME TypeOK, [Next]_vars
  PROVE  TypeOK'
<1> USE DEF TypeOK, Label, HLabel, Flags, ResultCode, Mode, Handler, Cell,
        callVars, handlerVars, devVars, dpmVars, errVars, modeVars, Goto,
        Result, HGoto
<1>1. ASSUME NEW c \in Caller, NEW m \in Mode, Call(c, m) PROVE TypeOK'
  BY <1>1, ResetAssumption DEF Call
<1>2. ASSUME NEW c \in Caller, CheckReady(c) PROVE TypeOK'
  BY <1>2, ResetAssumption DEF CheckReady, SeenFlags
<1>3. ASSUME NEW c \in Caller, WaitInitMutex(c) PROVE TypeOK'
  BY <1>3, ResetAssumption DEF WaitInitMutex, MutexFree
<1>4. ASSUME NEW c \in Caller, WaitInitMutexTimeout(c) PROVE TypeOK'
  BY <1>4, ResetAssumption DEF WaitInitMutexTimeout, MutexFree
<1>5. ASSUME NEW c \in Caller, ResetPrepare(c) PROVE TypeOK'
  BY <1>5, ResetAssumption DEF ResetPrepare
<1>6. ASSUME NEW c \in Caller, ResetZero(c) PROVE TypeOK'
  BY <1>6, ResetAssumption DEF ResetZero
<1>7. ASSUME NEW c \in Caller, ResetExecute(c) PROVE TypeOK'
  BY <1>7, ResetAssumption DEF ResetExecute
<1>8. ASSUME NEW c \in Caller, DeviceDown(c) PROVE TypeOK'
  BY <1>8, ResetAssumption DEF DeviceDown, Recognised
<1>9. ASSUME NEW c \in Caller, DeviceDownTimeout(c) PROVE TypeOK'
  BY <1>9, ResetAssumption DEF DeviceDownTimeout, AfterResetTimeout
<1>10. ASSUME NEW c \in Caller, SystemStart(c) PROVE TypeOK'
  BY <1>10, StageType DEF SystemStart, AfterNotReady
<1>11. ASSUME NEW c \in Caller, SystemBootstart(c) PROVE TypeOK'
  BY <1>11, StageType DEF SystemBootstart, AfterNotReady
<1>12. ASSUME NEW c \in Caller, UpdateStart(c) PROVE TypeOK'
  BY <1>12, StageType DEF UpdateStart, AfterNotReady
<1>13. ASSUME NEW c \in Caller, ResetFinish(c) PROVE TypeOK'
  <2>1. FinishLabel \in Label
    BY DEF FinishLabel
  <2>2. pc' \in [Caller -> Label]
    BY <1>13, <2>1 DEF ResetFinish
  <2>3. fResetActive' \in BOOLEAN
    BY <1>13, Zenon DEF ResetFinish
  <2>4. UNCHANGED <<modeVars, mode, lRet, calls, pvInitMutex, usNetxFlags,
                    handlerVars, devVars, dpmVars, irqPending, overlap,
                    errVars>>
    BY <1>13 DEF ResetFinish
  <2> QED
    BY <2>2, <2>3, <2>4
<1>14. ASSUME NEW c \in Caller, FinishReread(c) PROVE TypeOK'
  BY <1>14, ResetAssumption DEF FinishReread
<1>15. ASSUME NEW c \in Caller, ReleaseInitMutex(c) PROVE TypeOK'
  BY <1>15, ResetAssumption DEF ReleaseInitMutex
<1>16. ASSUME NEW h \in Handler, IsrConfirm(h) PROVE TypeOK'
  <2>1. overlap' \in BOOLEAN
    BY <1>16, Zenon DEF IsrConfirm
  <2>2. fValid' \in [0 .. 1 -> BOOLEAN]
    BY <1>16 DEF IsrConfirm
  <2>3. hbuf' \in [Handler -> {0, 1}] /\ hpc' \in [Handler -> HLabel]
    BY <1>16 DEF IsrConfirm
  <2>4. irqPending' \in BOOLEAN
    BY <1>16, Zenon DEF IsrConfirm
  <2>5. UNCHANGED <<modeVars, callVars, pvInitMutex, fResetActive, usNetxFlags,
                    iIrqToDsrBuffer, atHsk, devVars, dpmVars, errVars>>
    BY <1>16 DEF IsrConfirm
  <2> QED
    BY <2>1, <2>2, <2>3, <2>4, <2>5
<1>17. ASSUME NEW h \in Handler, IsrOtherDevice(h) PROVE TypeOK'
  BY <1>17, ResetAssumption DEF IsrOtherDevice, Entry, OthersActive
<1>18. ASSUME NEW h \in Handler, IsrRead(h) PROVE TypeOK'
  BY <1>18, ResetAssumption DEF IsrRead
<1>19. ASSUME NEW h \in Handler, DsrIgnored(h) PROVE TypeOK'
  BY <1>19, ResetAssumption DEF DsrIgnored, Done
<1>20. ASSUME NEW h \in Handler, DsrBuffer(h) PROVE TypeOK'
  BY <1>20, ResetAssumption DEF DsrBuffer, Done
<1>21. ASSUME NEW h \in Handler, DsrFlip(h) PROVE TypeOK'
  BY <1>21, ResetAssumption DEF DsrFlip, NextBuffer
<1>22. ASSUME NEW h \in Handler, DsrFlags(h) PROVE TypeOK'
  BY <1>22, ResetAssumption DEF DsrFlags, Done
<1>23. ASSUME TimerEnter PROVE TypeOK'
  BY <1>23, ResetAssumption DEF TimerEnter, MutexFree
<1>24. ASSUME TimerLeave PROVE TypeOK'
  BY <1>24, ResetAssumption DEF TimerLeave
<1>25. ASSUME ReadHandshakeFlags PROVE TypeOK'
  BY <1>25, ResetAssumption DEF ReadHandshakeFlags
<1>26. ASSUME DeviceToggle PROVE TypeOK'
  BY <1>26, ResetAssumption DEF DeviceToggle, Age, Aged
<1>27. ASSUME DeviceReset PROVE TypeOK'
  <2>1. boots' \in 0 .. 2
    BY <1>27 DEF DeviceReset, Restart
  <2>2. usNetxFlags' \in Flags /\ atHsk' \in [0 .. 1 -> Flags]
    BY <1>27 DEF DeviceReset, Restart, Age, Aged
  <2>3. resetBit' \in BOOLEAN
    BY <1>27, Zenon DEF DeviceReset, Restart
  <2>4. dev' = "booting" /\ task' \in Mode
    BY <1>27 DEF DeviceReset, Restart
  <2>5. UNCHANGED <<modeVars, callVars, pvInitMutex, fResetActive, hpc, hbuf,
                    iIrqToDsrBuffer, fValid, ulSystemControl, irqPending,
                    overlap, errVars>>
    BY <1>27 DEF DeviceReset, Restart
  <2> QED
    BY <2>1, <2>2, <2>3, <2>4, <2>5
<1>28. ASSUME DeviceUpdated PROVE TypeOK'
  <2>1. boots' \in 0 .. 2
    BY <1>28 DEF DeviceUpdated, Restart
  <2>2. usNetxFlags' \in Flags /\ atHsk' \in [0 .. 1 -> Flags]
    BY <1>28 DEF DeviceUpdated, Restart, Age, Aged
  <2>3. resetBit' \in BOOLEAN
    BY <1>28, Zenon DEF DeviceUpdated, Restart
  <2>4. dev' = "booting" /\ task' \in Mode
    BY <1>28 DEF DeviceUpdated, Restart
  <2>5. UNCHANGED <<modeVars, callVars, pvInitMutex, fResetActive, hpc, hbuf,
                    iIrqToDsrBuffer, fValid, ulSystemControl, irqPending,
                    overlap, errVars>>
    BY <1>28 DEF DeviceUpdated, Restart
  <2> QED
    BY <2>1, <2>2, <2>3, <2>4, <2>5
<1>29. ASSUME DeviceUp PROVE TypeOK'
  BY <1>29, ResetAssumption DEF DeviceUp
<1>30. CASE UNCHANGED vars
  BY <1>30 DEF vars
<1> HIDE DEF TypeOK, Label, HLabel, Flags, ResultCode, Mode, Handler, Cell,
        callVars, handlerVars, devVars, dpmVars, errVars, modeVars, Goto,
        Result, HGoto
<1> QED
  BY <1>1, <1>2, <1>3, <1>4, <1>5, <1>6, <1>7, <1>8, <1>9, <1>10, <1>11,
     <1>12, <1>13, <1>14, <1>15, <1>16, <1>17, <1>18, <1>19, <1>20, <1>21,
     <1>22, <1>23, <1>24, <1>25, <1>26, <1>27, <1>28, <1>29, <1>30 DEF Next,
     CallerStep, HandlerStep

(* Type correctness: every step of the reset, of the handlers, of the      *)
(* polling thread and of the device keeps every variable in its type.      *)
THEOREM TypeCorrect == Spec => []TypeOK
<1>1. Init => TypeOK
  <2> USE DEF Init, Label, HLabel, Flags, ResultCode, Mode, Handler
  <2>1. Init => /\ pc \in [Caller -> Label] /\ mode \in [Caller -> Mode]
                /\ lRet \in [Caller -> ResultCode] /\ calls \in 0 .. MaxCalls
                /\ boots \in 0 .. 2
    BY ResetAssumption
  <2>2. Init => /\ hpc \in [Handler -> HLabel] /\ hbuf \in [Handler -> {0, 1}]
                /\ atHsk \in [0 .. 1 -> Flags]
    OBVIOUS
  <2>3. Init => fValid \in [0 .. 1 -> BOOLEAN]
    BY Zenon
  <2> QED
    BY <2>1, <2>2, <2>3 DEF TypeOK
<1> QED
  BY <1>1, TypeStep, PTL DEF Spec

(* Mutex owners and fResetActive. *)
LEMMA ControlStep ==
  ASSUME TypeOK, ControlInv, [Next]_vars
  PROVE  ControlInv'
<1> USE DEF TypeOK, ControlInv, OwnerInv, ActiveInv, ActiveOrTimedOut,
        Resetting, Label, Mode, Handler, callVars, handlerVars, devVars,
             dpmVars, errVars,
        modeVars, Goto, Result, HGoto
<1>1. ASSUME NEW c \in Caller, NEW m \in Mode, Call(c, m) PROVE ControlInv'
  BY <1>1, ResetAssumption DEF Call
<1>2. ASSUME NEW c \in Caller, CheckReady(c) PROVE ControlInv'
  BY <1>2, ResetAssumption DEF CheckReady, SeenFlags
<1>3. ASSUME NEW c \in Caller, WaitInitMutex(c) PROVE ControlInv'
  BY <1>3, ResetAssumption DEF WaitInitMutex, MutexFree
<1>4. ASSUME NEW c \in Caller, WaitInitMutexTimeout(c) PROVE ControlInv'
  BY <1>4, ResetAssumption DEF WaitInitMutexTimeout, MutexFree
<1>5. ASSUME NEW c \in Caller, ResetPrepare(c) PROVE ControlInv'
  BY <1>5, ResetAssumption DEF ResetPrepare
<1>6. ASSUME NEW c \in Caller, ResetZero(c) PROVE ControlInv'
  BY <1>6, ResetAssumption DEF ResetZero
<1>7. ASSUME NEW c \in Caller, ResetExecute(c) PROVE ControlInv'
  BY <1>7, ResetAssumption DEF ResetExecute
<1>8. ASSUME NEW c \in Caller, DeviceDown(c) PROVE ControlInv'
  BY <1>8, ResetAssumption DEF DeviceDown, Recognised
<1>9. ASSUME NEW c \in Caller, DeviceDownTimeout(c) PROVE ControlInv'
  BY <1>9, ResetAssumption DEF DeviceDownTimeout, AfterResetTimeout
<1>10. ASSUME NEW c \in Caller, SystemStart(c) PROVE ControlInv'
  BY <1>10, ResetAssumption DEF SystemStart, Stage, AfterNotReady
<1>11. ASSUME NEW c \in Caller, SystemBootstart(c) PROVE ControlInv'
  BY <1>11, ResetAssumption DEF SystemBootstart, Stage, AfterNotReady
<1>12. ASSUME NEW c \in Caller, UpdateStart(c) PROVE ControlInv'
  BY <1>12, ResetAssumption DEF UpdateStart, Stage, AfterNotReady
<1>13. ASSUME NEW c \in Caller, ResetFinish(c) PROVE ControlInv'
  BY <1>13, ResetAssumption DEF ResetFinish, FinishLabel
<1>14. ASSUME NEW c \in Caller, FinishReread(c) PROVE ControlInv'
  BY <1>14, ResetAssumption DEF FinishReread
<1>15. ASSUME NEW c \in Caller, ReleaseInitMutex(c) PROVE ControlInv'
  BY <1>15, ResetAssumption DEF ReleaseInitMutex
<1>16. ASSUME NEW h \in Handler, IsrConfirm(h) PROVE ControlInv'
  BY <1>16, ResetAssumption DEF IsrConfirm, Entry, OthersActive
<1>17. ASSUME NEW h \in Handler, IsrOtherDevice(h) PROVE ControlInv'
  BY <1>17, ResetAssumption DEF IsrOtherDevice, Entry, OthersActive
<1>18. ASSUME NEW h \in Handler, IsrRead(h) PROVE ControlInv'
  BY <1>18, ResetAssumption DEF IsrRead
<1>19. ASSUME NEW h \in Handler, DsrIgnored(h) PROVE ControlInv'
  BY <1>19, ResetAssumption DEF DsrIgnored, Done
<1>20. ASSUME NEW h \in Handler, DsrBuffer(h) PROVE ControlInv'
  BY <1>20, ResetAssumption DEF DsrBuffer, Done
<1>21. ASSUME NEW h \in Handler, DsrFlip(h) PROVE ControlInv'
  BY <1>21, ResetAssumption DEF DsrFlip, NextBuffer
<1>22. ASSUME NEW h \in Handler, DsrFlags(h) PROVE ControlInv'
  BY <1>22, ResetAssumption DEF DsrFlags, Done
<1>23. ASSUME TimerEnter PROVE ControlInv'
  BY <1>23, ResetAssumption DEF TimerEnter, MutexFree
<1>24. ASSUME TimerLeave PROVE ControlInv'
  BY <1>24, ResetAssumption DEF TimerLeave
<1>25. ASSUME ReadHandshakeFlags PROVE ControlInv'
  BY <1>25, ResetAssumption DEF ReadHandshakeFlags
<1>26. ASSUME DeviceToggle PROVE ControlInv'
  BY <1>26, ResetAssumption DEF DeviceToggle, Age, Aged
<1>27. ASSUME DeviceReset PROVE ControlInv'
  BY <1>27, ResetAssumption DEF DeviceReset, Restart, Age, Aged
<1>28. ASSUME DeviceUpdated PROVE ControlInv'
  BY <1>28, ResetAssumption DEF DeviceUpdated, Restart, Age, Aged
<1>29. ASSUME DeviceUp PROVE ControlInv'
  BY <1>29, ResetAssumption DEF DeviceUp
<1>30. CASE UNCHANGED vars
  BY <1>30 DEF vars
<1> HIDE DEF TypeOK, ControlInv, OwnerInv, ActiveInv, ActiveOrTimedOut,
        Resetting, Label, Mode, Handler, callVars, handlerVars, devVars,
             dpmVars,
        errVars, modeVars, Goto, Result, HGoto
<1> QED
  BY <1>1, <1>2, <1>3, <1>4, <1>5, <1>6, <1>7, <1>8, <1>9, <1>10, <1>11,
     <1>12, <1>13, <1>14, <1>15, <1>16, <1>17, <1>18, <1>19, <1>20, <1>21,
     <1>22, <1>23, <1>24, <1>25, <1>26, <1>27, <1>28, <1>29, <1>30 DEF Next,
     CallerStep, HandlerStep

(* Owners of pvInitMutex and fResetActive, in every reachable state. *)
LEMMA ControlInvariant == Spec => []ControlInv
<1>1. Init => ControlInv
  BY ResetAssumption DEF Init, ControlInv, OwnerInv, ActiveInv,
     ActiveOrTimedOut, Resetting, Handler, Label
<1> QED
  BY <1>1, TypeCorrect, ControlStep, PTL DEF Spec

(* However many threads reset the device: whoever is between               *)
(* DEV_Reset_Prepare and DEV_Reset_Finish owns pvInitMutex, and            *)
(* fResetActive stays set.                                                 *)
THEOREM ResetIsExclusive == Spec => []ResetExclusive
<1>1. TypeOK /\ ControlInv => ResetExclusive
  BY DEF ControlInv, OwnerInv, ActiveInv, ResetExclusive, Resetting
<1> QED
  BY <1>1, TypeCorrect, ControlInvariant, PTL

(* fResetActive is left set by CIFX_DEV_RESET_TIMEOUT and by nothing else. *)
THEOREM ActiveOnlyAfterTimeout == Spec => []ActiveOrTimedOut
<1>1. ControlInv => ActiveOrTimedOut
  BY DEF ControlInv
<1> QED
  BY <1>1, ControlInvariant, PTL

(* What a stage does that does not fail. *)
LEMMA StageStep ==
  ASSUME TypeOK, NEW c \in Caller, NEW from, NEW r, NEW l,
         Stage(c, from, r, l), ~failed'
  PROVE  /\ ~failed /\ r = "CIFX_NO_ERROR"
         /\ pc[c] = from /\ Goto(c, l) /\ Result(c, r)
         /\ UNCHANGED <<modeVars, mode, devVars, dpmVars, pvInitMutex>>
<1>1. ~failed /\ r = "CIFX_NO_ERROR"
  BY Zenon DEF Stage, TypeOK
<1> QED
  BY <1>1 DEF Stage

(* A stage leaves the flags and the handlers alone. *)
LEMMA StageFresh ==
  ASSUME TypeOK, FreshInv, NEW c \in Caller, NEW from, NEW r, NEW l,
         Stage(c, from, r, l), from # "handlers", l # "handlers"
  PROVE  FreshInv'
<1>1. /\ pc[c] = from /\ Goto(c, l)
      /\ UNCHANGED <<modeVars, fResetActive, usNetxFlags, handlerVars, devVars,
                     irqPending, overlap>>
  BY DEF Stage
<1> QED
  BY <1>1 DEF TypeOK, FreshInv, Awaited, Carried, Handler, Goto, modeVars,
     handlerVars, devVars

(* How far the device is. *)
LEMMA ProgressStep ==
  ASSUME TypeOK, OwnerInv, ProgressInv, [Next]_vars
  PROVE  ProgressInv'
<1> USE DEF TypeOK, OwnerInv, ProgressInv, Commanded, First, Up, Second,
        Updated, Settled, Label, Mode, Handler, Cell, callVars, handlerVars,
        devVars, dpmVars, errVars, modeVars, Goto, Result, HGoto
<1>1. ASSUME NEW c \in Caller, NEW m \in Mode, Call(c, m) PROVE ProgressInv'
  BY <1>1, ResetAssumption DEF Call
<1>2. ASSUME NEW c \in Caller, CheckReady(c) PROVE ProgressInv'
  BY <1>2, ResetAssumption DEF CheckReady, SeenFlags
<1>3. ASSUME NEW c \in Caller, WaitInitMutex(c) PROVE ProgressInv'
  BY <1>3, ResetAssumption DEF WaitInitMutex, MutexFree
<1>4. ASSUME NEW c \in Caller, WaitInitMutexTimeout(c) PROVE ProgressInv'
  BY <1>4, ResetAssumption DEF WaitInitMutexTimeout, MutexFree
<1>5. ASSUME NEW c \in Caller, ResetPrepare(c) PROVE ProgressInv'
  BY <1>5, ResetAssumption DEF ResetPrepare
<1>6. ASSUME NEW c \in Caller, ResetZero(c) PROVE ProgressInv'
  BY <1>6, ResetAssumption DEF ResetZero
<1>7. ASSUME NEW c \in Caller, ResetExecute(c) PROVE ProgressInv'
  BY <1>7, ResetAssumption DEF ResetExecute
<1>8. ASSUME NEW c \in Caller, DeviceDown(c) PROVE ProgressInv'
  BY <1>8, ResetAssumption DEF DeviceDown, Recognised
<1>9. ASSUME NEW c \in Caller, DeviceDownTimeout(c) PROVE ProgressInv'
  BY <1>9, ResetAssumption DEF DeviceDownTimeout, AfterResetTimeout
<1>10. ASSUME NEW c \in Caller, SystemStart(c) PROVE ProgressInv'
  <2> SUFFICES ASSUME ~failed' PROVE ProgressInv'
    OBVIOUS
  <2>0. mode[c] = "SYSTEMSTART"
    BY <1>10 DEF SystemStart
  <2>1. CASE Cell # "off" /\ Stage(c, "up", "CIFX_NO_ERROR", "finish")
    BY <2>0, <2>1, StageStep
  <2>2. CASE Cell = "off" /\ Stage(c, "up", "CIFX_DEV_NOT_READY",
       AfterNotReady)
    BY <2>2, StageStep
  <2> QED
    BY <1>10, <2>1, <2>2 DEF SystemStart
<1>11. ASSUME NEW c \in Caller, SystemBootstart(c) PROVE ProgressInv'
  <2> SUFFICES ASSUME ~failed' PROVE ProgressInv'
    OBVIOUS
  <2>0. mode[c] = "BOOTSTART"
    BY <1>11 DEF SystemBootstart
  <2>1. CASE Cell # "off" /\ Stage(c, "up", "CIFX_NO_ERROR", "cookie")
    BY <2>0, <2>1, StageStep
  <2>2. CASE Cell = "off" /\ Stage(c, "up", "CIFX_DEV_NOT_READY",
       AfterNotReady)
    BY <2>2, StageStep
  <2>3. CASE dev = "bsl" /\ Stage(c, "cookie", "CIFX_NO_ERROR", "finish")
    BY <2>0, <2>3, StageStep
  <2>4. CASE dev # "bsl" /\ Stage(c, "cookie", "CIFX_DEV_FUNCTION_FAILED",
       "finish")
    BY <2>4, StageStep
  <2> QED
    BY <1>11, <2>1, <2>2, <2>3, <2>4 DEF SystemBootstart
<1>12. ASSUME NEW c \in Caller, UpdateStart(c) PROVE ProgressInv'
  <2> SUFFICES ASSUME ~failed' PROVE ProgressInv'
    OBVIOUS
  <2>0. mode[c] = "UPDATESTART"
    BY <1>12 DEF UpdateStart
  <2>1. CASE Cell # "off" /\ Stage(c, "up", "CIFX_NO_ERROR", "cookie")
    BY <2>0, <2>1, StageStep
  <2>2. CASE Cell = "off" /\ Stage(c, "up", "CIFX_DEV_NOT_READY",
       AfterNotReady)
    BY <2>2, StageStep
  <2>3. CASE dev = "bsl" /\ Stage(c, "cookie", "CIFX_NO_ERROR", "down2")
    BY <2>0, <2>3, StageStep
  <2>4. CASE dev # "bsl" /\ Stage(c, "cookie", "CIFX_DEV_FUNCTION_FAILED",
       "finish")
    BY <2>4, StageStep
  <2>5. CASE Cell = "off" /\ Stage(c, "down2", "CIFX_NO_ERROR", "up2")
    BY <2>0, <2>5, StageStep
  <2>6. CASE Cell # "off" /\ Stage(c, "down2", "CIFX_DEV_RESET_TIMEOUT",
       "finish")
    BY <2>6, StageStep
  <2>7. CASE Cell # "off" /\ Stage(c, "up2", "CIFX_NO_ERROR", "finish")
    BY <2>0, <2>7, StageStep
  <2>8. CASE Cell = "off" /\ Stage(c, "up2", "CIFX_DEV_NOT_READY",
       AfterNotReady)
    BY <2>8, StageStep
  <2> QED
    BY <1>12, <2>1, <2>2, <2>3, <2>4, <2>5, <2>6, <2>7, <2>8 DEF UpdateStart
<1>13. ASSUME NEW c \in Caller, ResetFinish(c) PROVE ProgressInv'
  BY <1>13, ResetAssumption DEF ResetFinish, FinishLabel
<1>14. ASSUME NEW c \in Caller, FinishReread(c) PROVE ProgressInv'
  BY <1>14, ResetAssumption DEF FinishReread
<1>15. ASSUME NEW c \in Caller, ReleaseInitMutex(c) PROVE ProgressInv'
  BY <1>15, ResetAssumption DEF ReleaseInitMutex
<1>16. ASSUME NEW h \in Handler, IsrConfirm(h) PROVE ProgressInv'
  BY <1>16, ResetAssumption DEF IsrConfirm, Entry, OthersActive
<1>17. ASSUME NEW h \in Handler, IsrOtherDevice(h) PROVE ProgressInv'
  BY <1>17, ResetAssumption DEF IsrOtherDevice, Entry, OthersActive
<1>18. ASSUME NEW h \in Handler, IsrRead(h) PROVE ProgressInv'
  BY <1>18, ResetAssumption DEF IsrRead
<1>19. ASSUME NEW h \in Handler, DsrIgnored(h) PROVE ProgressInv'
  BY <1>19, ResetAssumption DEF DsrIgnored, Done
<1>20. ASSUME NEW h \in Handler, DsrBuffer(h) PROVE ProgressInv'
  BY <1>20, ResetAssumption DEF DsrBuffer, Done
<1>21. ASSUME NEW h \in Handler, DsrFlip(h) PROVE ProgressInv'
  BY <1>21, ResetAssumption DEF DsrFlip, NextBuffer
<1>22. ASSUME NEW h \in Handler, DsrFlags(h) PROVE ProgressInv'
  BY <1>22, ResetAssumption DEF DsrFlags, Done
<1>23. ASSUME TimerEnter PROVE ProgressInv'
  BY <1>23, ResetAssumption DEF TimerEnter, MutexFree
<1>24. ASSUME TimerLeave PROVE ProgressInv'
  BY <1>24, ResetAssumption DEF TimerLeave
<1>25. ASSUME ReadHandshakeFlags PROVE ProgressInv'
  BY <1>25, ResetAssumption DEF ReadHandshakeFlags
<1>26. ASSUME DeviceToggle PROVE ProgressInv'
  BY <1>26, ResetAssumption DEF DeviceToggle, Age, Aged
<1>27. ASSUME DeviceReset PROVE ProgressInv'
  BY <1>27, ResetAssumption DEF DeviceReset, Restart, Age, Aged
<1>28. ASSUME DeviceUpdated PROVE ProgressInv'
  BY <1>28, ResetAssumption DEF DeviceUpdated, Restart, Age, Aged
<1>29. ASSUME DeviceUp PROVE ProgressInv'
  BY <1>29, ResetAssumption DEF DeviceUp
<1>30. CASE UNCHANGED vars
  BY <1>30 DEF vars
<1> HIDE DEF TypeOK, OwnerInv, ProgressInv, Commanded, First, Up, Second,
        Updated, Settled, Label, Mode, Handler, Cell, callVars, handlerVars,
        devVars, dpmVars, errVars, modeVars, Goto, Result, HGoto
<1> QED
  BY <1>1, <1>2, <1>3, <1>4, <1>5, <1>6, <1>7, <1>8, <1>9, <1>10, <1>11,
       <1>12, <1>13, <1>14, <1>15, <1>16, <1>17, <1>18, <1>19, <1>20, <1>21,
       <1>22, <1>23, <1>24, <1>25, <1>26, <1>27, <1>28, <1>29, <1>30 DEF Next,
       CallerStep, HandlerStep

(* Who has the current flags. *)
LEMMA FreshStep ==
  ASSUME TypeOK, OwnerInv, ActiveInv, FreshInv, [Next]_vars
  PROVE  FreshInv'
<1> USE DEF TypeOK, OwnerInv, ActiveInv, Resetting, FreshInv, Awaited,
        Carried, Label, HLabel, Flags, Handler, Cell, callVars, handlerVars,
        devVars, dpmVars, errVars, modeVars, Goto, Result, HGoto
<1>1. ASSUME NEW c \in Caller, NEW m \in Mode, Call(c, m) PROVE FreshInv'
  BY <1>1, ResetAssumption DEF Call
<1>2. ASSUME NEW c \in Caller, CheckReady(c) PROVE FreshInv'
  BY <1>2, ResetAssumption DEF CheckReady, SeenFlags
<1>3. ASSUME NEW c \in Caller, WaitInitMutex(c) PROVE FreshInv'
  BY <1>3, ResetAssumption DEF WaitInitMutex, MutexFree
<1>4. ASSUME NEW c \in Caller, WaitInitMutexTimeout(c) PROVE FreshInv'
  BY <1>4, ResetAssumption DEF WaitInitMutexTimeout, MutexFree
<1>5. ASSUME NEW c \in Caller, ResetPrepare(c) PROVE FreshInv'
  BY <1>5, ResetAssumption DEF ResetPrepare
<1>6. ASSUME NEW c \in Caller, ResetZero(c) PROVE FreshInv'
  BY <1>6, ResetAssumption DEF ResetZero
<1>7. ASSUME NEW c \in Caller, ResetExecute(c) PROVE FreshInv'
  BY <1>7, ResetAssumption DEF ResetExecute
<1>8. ASSUME NEW c \in Caller, DeviceDown(c) PROVE FreshInv'
  BY <1>8, ResetAssumption DEF DeviceDown, Recognised
<1>9. ASSUME NEW c \in Caller, DeviceDownTimeout(c) PROVE FreshInv'
  BY <1>9, ResetAssumption DEF DeviceDownTimeout, AfterResetTimeout
<1>10. ASSUME NEW c \in Caller, SystemStart(c) PROVE FreshInv'
  BY <1>10, StageFresh DEF SystemStart, AfterNotReady
<1>11. ASSUME NEW c \in Caller, SystemBootstart(c) PROVE FreshInv'
  BY <1>11, StageFresh DEF SystemBootstart, AfterNotReady
<1>12. ASSUME NEW c \in Caller, UpdateStart(c) PROVE FreshInv'
  BY <1>12, StageFresh DEF UpdateStart, AfterNotReady
<1>13. ASSUME NEW c \in Caller, ResetFinish(c) PROVE FreshInv'
  BY <1>13, ResetAssumption DEF ResetFinish, FinishLabel
<1>14. ASSUME NEW c \in Caller, FinishReread(c) PROVE FreshInv'
  BY <1>14, ResetAssumption DEF FinishReread
<1>15. ASSUME NEW c \in Caller, ReleaseInitMutex(c) PROVE FreshInv'
  BY <1>15, ResetAssumption DEF ReleaseInitMutex
<1>16. ASSUME NEW h \in Handler, IsrConfirm(h) PROVE FreshInv'
  <2> SUFFICES ASSUME ~overlap', fIrqEnabled PROVE FreshInv'
    BY <1>16 DEF IsrConfirm
  <2>1. ~overlap /\ ~OthersActive(h)
    BY <1>16, Zenon DEF IsrConfirm
  <2>2. \A g \in Handler : hpc[g] = "idle"
    BY <1>16, <2>1 DEF IsrConfirm, Entry, OthersActive
  <2>3. /\ hbuf' = [hbuf EXCEPT ![h] = iIrqToDsrBuffer]
        /\ fValid' = [fValid EXCEPT ![iIrqToDsrBuffer] = TRUE]
        /\ hpc' = [hpc EXCEPT ![h] = "read"] /\ UNCHANGED iIrqToDsrBuffer
    BY <1>16 DEF IsrConfirm
  <2>4. hpc' = [g \in Handler |-> IF g = h THEN "read" ELSE "idle"]
    BY <2>2, <2>3
  <2>5. hbuf'[h] = iIrqToDsrBuffer' /\ fValid'[iIrqToDsrBuffer']
    BY <2>3
  <2> QED
    BY <2>4, <2>5
<1>17. ASSUME NEW h \in Handler, IsrOtherDevice(h) PROVE FreshInv'
  BY <1>17, ResetAssumption DEF IsrOtherDevice, Entry, OthersActive
<1>18. ASSUME NEW h \in Handler, IsrRead(h) PROVE FreshInv'
  BY <1>18, ResetAssumption DEF IsrRead
<1>19. ASSUME NEW h \in Handler, DsrIgnored(h) PROVE FreshInv'
  BY <1>19, ResetAssumption DEF DsrIgnored, Done
<1>20. ASSUME NEW h \in Handler, DsrBuffer(h) PROVE FreshInv'
  BY <1>20, ResetAssumption DEF DsrBuffer, Done
<1>21. ASSUME NEW h \in Handler, DsrFlip(h) PROVE FreshInv'
  BY <1>21, ResetAssumption DEF DsrFlip, NextBuffer
<1>22. ASSUME NEW h \in Handler, DsrFlags(h) PROVE FreshInv'
  BY <1>22, ResetAssumption DEF DsrFlags, Done
<1>23. ASSUME TimerEnter PROVE FreshInv'
  BY <1>23, ResetAssumption DEF TimerEnter, MutexFree
<1>24. ASSUME TimerLeave PROVE FreshInv'
  BY <1>24, ResetAssumption DEF TimerLeave
<1>25. ASSUME ReadHandshakeFlags PROVE FreshInv'
  BY <1>25, ResetAssumption DEF ReadHandshakeFlags
<1>26. ASSUME DeviceToggle PROVE FreshInv'
  BY <1>26, ResetAssumption DEF DeviceToggle, Age, Aged
<1>27. ASSUME DeviceReset PROVE FreshInv'
  BY <1>27, ResetAssumption DEF DeviceReset, Restart, Age, Aged
<1>28. ASSUME DeviceUpdated PROVE FreshInv'
  BY <1>28, ResetAssumption DEF DeviceUpdated, Restart, Age, Aged
<1>29. ASSUME DeviceUp PROVE FreshInv'
  BY <1>29, ResetAssumption DEF DeviceUp
<1>30. CASE UNCHANGED vars
  BY <1>30 DEF vars
<1> HIDE DEF TypeOK, OwnerInv, ActiveInv, Resetting, FreshInv, Awaited,
        Carried, Label, HLabel, Flags, Handler, Cell, callVars, handlerVars,
        devVars, dpmVars, errVars, modeVars, Goto, Result, HGoto
<1> QED
  BY <1>1, <1>2, <1>3, <1>4, <1>5, <1>6, <1>7, <1>8, <1>9, <1>10, <1>11,
       <1>12, <1>13, <1>14, <1>15, <1>16, <1>17, <1>18, <1>19, <1>20, <1>21,
       <1>22, <1>23, <1>24, <1>25, <1>26, <1>27, <1>28, <1>29, <1>30 DEF Next,
       CallerStep, HandlerStep

(* The inductive invariant: who owns pvInitMutex and fResetActive, how far *)
(* the device is with the command, who has the current flags.              *)
THEOREM ResetInvariant == Spec => []ResetInv
<1>1. Init => ProgressInv
  BY DEF Init, ProgressInv, Settled
<1>2. Init => FreshInv
  BY DEF Init, FreshInv, Handler
<1>3. ControlInv => OwnerInv /\ ActiveInv
  BY DEF ControlInv
<1>4. TypeOK /\ ControlInv /\ ProgressInv /\ FreshInv => ResetInv
  BY DEF ResetInv
<1> QED
  BY <1>1, <1>2, <1>3, <1>4, TypeCorrect, ControlInvariant, ProgressStep,
     FreshStep, PTL DEF Spec

(* CIFX_NO_ERROR means that the device has restarted since the command and *)
(* runs what was asked for, unless an earlier reset failed.                *)
THEOREM ResetIsHonest == Spec => []ResetHonest
<1>1. ResetInv => ResetHonest
  BY DEF ResetInv, ProgressInv, ResetHonest
<1> QED
  BY <1>1, ResetInvariant, PTL

(* In interrupt mode the cached flags are current whenever no interrupt is *)
(* under way, unless two runs of the handlers overlapped.                  *)
THEOREM FlagsAreFresh == Spec => []FlagsFresh
<1>1. ResetInv => FlagsFresh
  BY DEF ResetInv, TypeOK, FreshInv, FlagsFresh, Quiet, Awaited, Cell
<1> QED
  BY <1>1, ResetInvariant, PTL

=============================================================================

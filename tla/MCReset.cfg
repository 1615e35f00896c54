SPECIFICATION Spec
CONSTANTS
  Caller = {c1, c2}
  IrqThread = IrqThread
  Timer = Timer
  NoCaller = NoCaller
  MaxCalls = 2
SYMMETRY CallerSymmetry
INVARIANTS
  TypeOK
  ResetExclusive
  ActiveOrTimedOut
  ResetHonest
  FlagsFresh
CHECK_DEADLOCK FALSE

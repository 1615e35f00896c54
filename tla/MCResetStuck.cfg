SPECIFICATION Spec
CONSTANTS
  Caller = {c1, c2}
  IrqThread = IrqThread
  Timer = Timer
  NoCaller = NoCaller
  MaxCalls = 1
SYMMETRY CallerSymmetry
INVARIANTS
  ResetPending
CHECK_DEADLOCK FALSE

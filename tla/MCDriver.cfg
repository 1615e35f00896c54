SPECIFICATION FairSpec
CONSTANTS
  NumCards = 2
  Config <- MCConfig
  MaxCalls = 2
  MaxOpens = 1
  MaxFaults = 1
INVARIANTS
  TypeOK
  HandlersSafe
  InterruptsMatch
PROPERTIES
  DeinitReturns
CHECK_DEADLOCK FALSE

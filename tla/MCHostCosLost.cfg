SPECIFICATION Spec
CONSTANTS
  Thread = {t1}
  NoThread = NoThread
  Op = {"hostReady", "busOn"}
  CommState = {{"READY", "RUN"}}
  MaxCalls = 2
  MaxChange = 0
INVARIANTS
  CosAcknowledged
CHECK_DEADLOCK FALSE

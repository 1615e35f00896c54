SPECIFICATION Spec
CONSTANTS
  Thread = {t1}
  NoThread = NoThread
  Op = {"hostReady", "hostNotReady", "busOn"}
  CommState = {{"READY", "RUN"}}
  MaxCalls = 4
  MaxChange = 0
INVARIANTS
  EnableSignalledOnce
CHECK_DEADLOCK FALSE

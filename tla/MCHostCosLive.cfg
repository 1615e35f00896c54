SPECIFICATION FairSpec
CONSTANTS
  Thread = {t1}
  NoThread = NoThread
  Op = {"hostReady", "busOn", "init"}
  CommState = {{"READY", "RUN"}}
  MaxCalls = 2
  MaxChange = 1
PROPERTIES
  CosWaitEnds
  CosSettles
  CosPropagated
CHECK_DEADLOCK FALSE

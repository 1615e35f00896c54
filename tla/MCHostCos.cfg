SPECIFICATION Spec
CONSTANTS
  Thread = {t1}
  NoThread = NoThread
  Op = {"hostReady", "hostNotReady", "busOn", "busOff", "lock", "unlock", "init"}
  CommState = {{}, {"READY", "RUN"}, {"READY", "RUN", "BUS_ON", "CONFIG_LOCKED"}}
  MaxCalls = 2
  MaxChange = 1
INVARIANTS
  TypeOK
  UndisturbedAcknowledged
  InitAcknowledged
  InitNotRepeated
CHECK_DEADLOCK FALSE

SPECIFICATION FairSpec
CONSTANTS
  t1 = t1
  t2 = t2
  Thread = {t1, t2}
  NoThread = NoThread
  Scenario <- MCScenario
  NumCh = 2
  SyncCh <- MCSyncCh
  MaxCalls = 2
  MaxToggle = 2
INVARIANTS
  TypeOK
  ProcessDataExact
  SyncAlternates
  LateCallBounded
PROPERTIES
  NotificationArrives
CHECK_DEADLOCK FALSE

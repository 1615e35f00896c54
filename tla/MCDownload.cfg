SPECIFICATION FairSpec
CONSTANTS
  Dir <- MCDir
  Kind <- MCKind
  Unit <- MCUnit
  Damaged = "damaged"
  MaxCh = 2
  Stored <- MCStored
  Job <- MCJob
  HostBlock = 2
  DevBlock = {0, 1}
  MaxAnswers = 2
  FloodTick = 1
  MaxCalls = 2
  MaxFaults = 1
  MaxForeign = 1
INVARIANTS
  TypeOK
  UploadHonest
  TransferClosed
  FirmwareAlone
PROPERTIES
  FileStoreSpec
  
CHECK_DEADLOCK FALSE

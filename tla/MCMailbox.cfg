SPECIFICATION Spec
CONSTANTS
  Thread = {t1, t2}
  NoThread = NoThread
  Size = {"fits", "long"}
  MaxCalls = 3
  MaxPosts = 2
  MaxCos = 0
SYMMETRY ThreadSymmetry
INVARIANTS
  TypeOK
  MailboxExclusive
  PutResultHonest
PROPERTIES
  SendPipeSpec
  RecvPipeSpec
CHECK_DEADLOCK FALSE

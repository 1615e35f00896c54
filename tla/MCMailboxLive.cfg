SPECIFICATION FairSpec
CONSTANTS
  Thread = {t1, t2}
  NoThread = NoThread
  Size = {"fits"}
  MaxCalls = 2
  MaxPosts = 1
  MaxCos = 1
INVARIANTS
  CosFresh
PROPERTIES
  PutReturns
  GetWakes
  CosAnswered
CHECK_DEADLOCK FALSE

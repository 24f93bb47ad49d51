CONSTANTS
  t1 = t1
  t2 = t2
  Threads = {t1, t2}
  NoThread = NoThread
  MaxFid = 2
  MaxConverts = 1
  MaxTries <- Tries
  MaxSteps = 0
  AnyFid = FALSE
  Mortal = {}
  TBucket <- OwnTBucket
  FBucket <- OwnFBucket
  FLS_MAX_SIZE = 2
  Values = {1}
  MaxFls = 3
VIEW Relevant
SYMMETRY ThreadSymmetry
SPECIFICATION FlsSpec
INVARIANTS
  TestStillHolds
PROPERTIES
  ImplementsFlowStorage

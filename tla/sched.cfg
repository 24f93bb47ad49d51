CONSTANTS
  t1 = t1
  t2 = t2
  Threads = {t1, t2}
  NoThread = NoThread
  MaxFid = 2
  MaxConverts = 2
  MaxTries <- Tries
  MaxSteps = 1
  AnyFid = FALSE
  Mortal = {t2}
  TBucket <- OneTBucket
  FBucket <- OneFBucket
SPECIFICATION FairSpec
INVARIANTS
  TypeOK
  MutualExclusion
  StateNamesRunner
  OneThreadPerFlow
  TimeAccounted
  ActivationLedger
PROPERTIES
  LossNeedsOverlap
  ContextWrites
  ImplementsCoroutines
  EveryCallReturns

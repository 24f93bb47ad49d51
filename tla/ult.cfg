CONSTANTS
  t1 = t1
  t2 = t2
  Threads = {t1, t2}
  NoFiber = NoFiber
  MaxId = 2
  MaxSteps = 1
  MaxFrames = 1
  NumFibers = 2
  MaxDone = 2
  Others = {t2}
SPECIFICATION Spec
INVARIANTS
  LockedByOne
PROPERTIES
  BackNeedsInterruption
  ImplementsCoroutines
CONSTRAINT Undisturbed

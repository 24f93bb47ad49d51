CONSTANTS
  t1 = t1
  t2 = t2
  Threads = {t1, t2}
  NoFiber = NoFiber
  MaxId = 3
  MaxSteps = 0
  MaxFrames = 1
  NumFibers = 2
  MaxDone = 0
  Others = {t2}
SPECIFICATION Spec
PROPERTIES
  NoOneGetsBack

CONSTANTS
  t1 = t1
  t2 = t2
  Threads = {t1, t2}
  Main = t1
  NumFibers = 4
  Work = 1
  MaxFrames = 2
SPECIFICATION Spec
INVARIANTS
  TestbedTypeOK
  WaiterTakesAlarm
  AlarmGoesOn
  
CHECK_DEADLOCK FALSE

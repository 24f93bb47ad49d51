CONSTANTS
  f1 = f1
  f2 = f2
  f3 = f3
  CellFibers = {f1, f2, f3}
  MAX_FLS = 5
  Values = {0, 1}
SPECIFICATION FlsSpec
INVARIANTS
  SlotsPrivate
  ExitOnlyWhenFull
CHECK_DEADLOCK FALSE

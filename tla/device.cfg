CONSTANTS
  p1 = p1
  p2 = p2
  p3 = p3
  t1 = t1
  t2 = t2
  f1 = f1
  f2 = f2
  f3 = f3
  Procs = {p1, p2, p3}
  Threads = {t1, t2}
  Files = {f1, f2, f3}
  MaxLives = 2
SYMMETRY Symmetry
SPECIFICATION Spec
INVARIANTS
  NoUseAfterFree
  CallsKeepModule
  RefsReturned
  NoInheritedGroup

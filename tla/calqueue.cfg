CONSTANTS
  TICKS = 2
  CALQSPACE = 16
  MAXNBUCKETS = 8
  MaxPrio = 8
  MaxAhead = 3
  MaxSize = 10
SPECIFICATION Spec
INVARIANTS
  Counted
  SearchSound
PROPERTIES
  SearchKeepsStep
  ImplementsEventQueue

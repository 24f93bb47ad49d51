CONSTANTS
  TICKS = 2
  CALQSPACE = 16
  MAXNBUCKETS = 8
  MaxPrio = 9
  MaxAhead = 6
  MaxSize = 4
SPECIFICATION Spec
PROPERTIES
  ImplementsEventQueue

CONSTANTS
  CHANNELS_PER_CELL = 5
  BITS = 2
  COMPLETE_CALLS = 7
  W = 8
  NULL = NULL
SPECIFICATION FairSpec
INVARIANTS
  ViewsAgree
  ListExact
  NoFailure
  CallsConserved
PROPERTIES
  Completes

CONSTANTS
  r1 = r1
  r2 = r2
  r3 = r3
  Readers = {r1, r2, r3}
  NumBase = 2
  Rooms = {4, 5}
  MaxRewinds = 1
SYMMETRY ReaderSymmetry
SPECIFICATION Spec
INVARIANTS
  ListingExact
  SecondLookup
CHECK_DEADLOCK FALSE

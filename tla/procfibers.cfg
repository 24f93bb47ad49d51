CONSTANTS
  c1 = c1
  c2 = c2
  r1 = r1
  Creators = {c1, c2}
  Readers = {r1}
  MaxFid = 4
  NumBuckets = 3
  FBucket <- ThreeBuckets
  INFO_SIZE = 5
  MaxSize = 3
SPECIFICATION FairSpec
INVARIANTS
  EntriesFilled
  ListingBound
PROPERTIES
  ReadEnds
CHECK_DEADLOCK FALSE

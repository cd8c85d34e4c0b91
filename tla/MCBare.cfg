SPECIFICATION FairSpec
CONSTANTS
  Capacity = 4
  MaxBufsize = 3
  WordSize = 8
  StampCount = 1
  Writes = {1, 2, 3}
  Reads = {1, 2}
  Guarded = FALSE
INVARIANT TypeOK
PROPERTY CallsReturn

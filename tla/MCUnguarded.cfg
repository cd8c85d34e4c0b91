SPECIFICATION Spec
CONSTANTS
  Capacity = 4
  MaxBufsize = 3
  WordSize = 8
  StampCount = 1
  Writes = {1, 2}
  Reads = {2}
  Guarded = FALSE
PROPERTY OverflowKeepsNewest

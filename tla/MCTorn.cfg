SPECIFICATION Spec
CONSTANTS
  Capacity = 4
  MaxBufsize = 2
  WordSize = 16
  StampCount = 1
  Writes = {1, 2}
  Reads = {1, 2}
  Guarded = TRUE
INVARIANT ReportsWithinCapacity

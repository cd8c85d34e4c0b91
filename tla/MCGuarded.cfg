SPECIFICATION FairSpec
CONSTANTS
  Capacity = 4
  MaxBufsize = 2
  WordSize = 16
  StampCount = 8
  Writes = {1, 2}
  Reads = {1, 2}
  Guarded = TRUE
INVARIANT KnowledgeStays
INVARIANT RaceFree
INVARIANT Fifo
INVARIANT GuardPreventsDrop
INVARIANT GuardedReadIsWhole
PROPERTY ImplementsQueue

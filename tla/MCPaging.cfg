SPECIFICATION PagingSpec
CONSTANTS
  Procs = {1, 2}
  NPriv = 1
  NShm = 0
  NFrames = 2
  NSwap = 1
  FACTOR = 1
  BATCH = 1
  ROUNDS = 3
  MaxOps = 10
INVARIANT MemoryIntact
CHECK_DEADLOCK FALSE

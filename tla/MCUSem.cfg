SPECIFICATION USemSpec
\* A user semaphore shared by three processes.
CONSTANTS
  idleproc = idle
  Proc = {idle, p1, p2, p3}
  KThread = {idle}
  Started = {p1, p2, p3}
  Interruptible = {"WT_USEM"}
  Uninterruptible = {}
  InitValue = 0
  MaxPost = 2
INVARIANT PostAssert

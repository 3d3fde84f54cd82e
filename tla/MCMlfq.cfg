SPECIFICATION FairMlfqSpec
\* Three processes, three queues and slices of 1, 2 and 4 ticks.
CONSTANTS
  idleproc = idle
  Proc = {idle, p1, p2, p3}
  NLevel = 3
  TopSlice = 1
INVARIANT QueuesOk
PROPERTIES ImplementsClass ReadyRuns

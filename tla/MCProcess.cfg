SPECIFICATION ProcessSpec
CONSTANTS
  idle = idle
  init = init
  p1 = p1
  p2 = p2
  p3 = p3
  idleproc = idle
  initproc = init
  Proc <- MCProc
  KThread <- MCKThread
  Started <- MCStarted
  Interruptible <- MCInterruptible
  Uninterruptible <- MCUninterruptible
  MAX_PROCESS = 5
  MaxForks = 2
SYMMETRY Symmetry
INVARIANTS FamilyTree NoLostChild InitQuitsLast

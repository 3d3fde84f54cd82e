SPECIFICATION FairProcessSpec
CONSTANTS
  idle = idle
  init = init
  p1 = p1
  p2 = p2
  p3 = p3
  idleproc = idle
  initproc = init
  Proc <- MCProc2
  KThread <- MCKThread
  Started <- MCStarted
  Interruptible <- MCInterruptible
  Uninterruptible <- MCUninterruptible
  MAX_PROCESS = 4
  MaxForks = 2
PROPERTY InitReaps

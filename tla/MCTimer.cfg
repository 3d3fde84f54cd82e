SPECIFICATION FairTimerSpec
CONSTANTS
  idle = idle
  p1 = p1
  p2 = p2
  p3 = p3
  idleproc = idle
  Proc <- MCProc
  KThread <- MCKThread
  Started <- MCStarted
  Interruptible <- MCInterruptible
  Uninterruptible <- MCUninterruptible
  MaxTime = 3
INVARIANT TimersOk
PROPERTY ImplementsCountdowns
PROPERTY SleepEnds

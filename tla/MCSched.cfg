SPECIFICATION FairSpec
CONSTANTS
  idle = idle
  init = init
  p1 = p1
  p2 = p2
  idleproc = idle
  Proc <- MCProc
  Started <- MCStarted
  Interruptible <- MCInterruptible
  Uninterruptible <- MCUninterruptible
  KThread <- MCKThread
INVARIANT SchedInv
PROPERTY SwitchToRunnable
PROPERTY IdleYields

SPECIFICATION FairKSemSpec
CONSTANTS
  idle = idle
  kswapd = kswapd
  p1 = p1
  p2 = p2
  p3 = p3
  idleproc = idle
  Proc <- MCProc
  KThread <- MCKThread
  Started <- MCStarted
  Interruptible <- MCInterruptible
  Uninterruptible <- MCUninterruptible
  N = 1
INVARIANTS KSemInv UnitsConserved NoLostWakeup
PROPERTY LockGranted

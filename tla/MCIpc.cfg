SPECIFICATION Spec
CONSTANTS
  idle = idle
  p1 = p1
  p2 = p2
  p3 = p3
SYMMETRY Symmetry
INVARIANTS PidsUnique NoStuckSleeper DeliveredOnce TimerOwners IpcLifetimes

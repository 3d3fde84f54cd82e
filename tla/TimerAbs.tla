------------------------------ MODULE TimerAbs ------------------------------
(* What the timer list promises: a timer armed for n ticks wakes its owner *)
(* at the n-th tick from then on, whatever other timers come and go.       *)
EXTENDS Naturals

CONSTANTS Proc, MaxTime

VARIABLES remaining,  \* the ticks until p's timer goes off; 0 when none is armed
          state       \* the state of each process

AbsInit == remaining = [p \in Proc |-> 0]

Arm(p, n) == remaining[p] = 0 /\ remaining' = [remaining EXCEPT ![p] = n]

Cancel(p) == remaining' = [remaining EXCEPT ![p] = 0]

Tick ==
  /\ remaining' = [p \in Proc |-> IF remaining[p] = 0 THEN 0 ELSE remaining[p] - 1]
  /\ \A p \in Proc : remaining[p] = 1 => state'[p] = "RUNNABLE"

AbsNext == \/ \E p \in Proc, n \in 1..MaxTime : Arm(p, n)
           \/ \E p \in Proc : Cancel(p)
           \/ Tick

AbsSpec == AbsInit /\ [][AbsNext]_remaining

=============================================================================

------------------------------ MODULE MCSched ------------------------------
(* Sched with idleproc, one other kernel thread and two user        *)
(* processes.                                                               *)
EXTENDS Sched

CONSTANTS idle, init, p1, p2

MCProc == {idle, init, p1, p2}

MCKThread == {idle, init}

MCStarted == {}

MCInterruptible == {"WT_CHILD"}

MCUninterruptible == {"WT_KSEM"}

FairSpec == SchedSpec /\ SchedFairness

=============================================================================

------------------------------ MODULE MCTimer ------------------------------
(* Timer with idleproc and three user processes that sleep, kill and exit. *)
EXTENDS Timer

CONSTANTS idle, p1, p2, p3

MCProc == {idle, p1, p2, p3}

MCKThread == {idle}

MCStarted == {p1, p2, p3}

MCInterruptible == {"WT_TIMER"}

MCUninterruptible == {}

=============================================================================

------------------------------- MODULE MCKSem -------------------------------
(* A kernel semaphore shared by three user processes and kswapd.           *)
EXTENDS KSem

CONSTANTS idle, kswapd, p1, p2, p3

MCProc == {idle, kswapd, p1, p2, p3}

MCKThread == {idle, kswapd}

MCStarted == {kswapd, p1, p2, p3}

MCInterruptible == {}

MCUninterruptible == {"WT_KSEM", "WT_KSWAPD"}

\* Every down() of the lock returns (Granted), for one of the user processes:
\* the specification treats them alike.
LockGranted == Granted(p1)

=============================================================================

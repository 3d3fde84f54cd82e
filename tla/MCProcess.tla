----------------------------- MODULE MCProcess -----------------------------
(* initproc, its child p1 and two more proc_structs for p1 to create.      *)
EXTENDS Process, TLC

CONSTANTS idle, init, p1, p2, p3

MCProc == {idle, init, p1, p2, p3}

MCProc2 == {idle, init, p1, p2}

MCKThread == {idle, init}

MCStarted == {init, p1}

MCInterruptible == {"WT_CHILD"}

MCUninterruptible == {"WT_KSWAPD"}

Symmetry == Permutations({p2, p3})

=============================================================================

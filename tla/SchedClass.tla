----------------------------- MODULE SchedClass -----------------------------
(* What schedule() and wakeup_proc expect of a scheduling class (struct    *)
(* sched_class): it keeps a set of processes, and picks a member of it     *)
(* whenever there is one.  This is the run queue of module Sched.          *)
CONSTANTS Proc, idleproc

VARIABLES current, ready

ClassInit == current = idleproc /\ ready = {}

Enqueue(p) == p # current /\ ready' = ready \cup {p} /\ UNCHANGED current

\* The current process comes to schedule() and is put back, or not.
Switch(back) ==
  LET all == ready \cup (back \ {idleproc})
  IN  /\ back \subseteq {current}
      /\ \/ all = {} /\ current' = idleproc /\ ready' = {}
         \/ current' \in all /\ ready' = all \ {current'}

ClassNext == \/ \E p \in Proc \ {idleproc} : Enqueue(p)
             \/ \E back \in {{}, {current}} : Switch(back)

ClassSpec == ClassInit /\ [][ClassNext]_<<current, ready>>

=============================================================================

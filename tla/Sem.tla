-------------------------------- MODULE Sem --------------------------------
(* The semaphore of kern/sync/sem.c with its wait queue (kern/sync/wait.c): *)
(* __up and __down, for one semaphore.  The two kinds of users, kernel     *)
(* semaphores (module KSem) and user semaphores (module USem), pass their  *)
(* own wait state w.                                                        *)
EXTENDS Sched, Integers, Sequences

VARIABLES value,        \* sem->value
          wait_queue,   \* the processes whose wait_t is linked, in order
          wakeup_flags  \* wait->wakeup_flags, on the waiter's stack

semVars == <<value, wait_queue, wakeup_flags>>

Waiting(p) == \E i \in 1..Len(wait_queue) : wait_queue[i] = p

\* sem_init
SemInit(v) ==
  /\ value = v
  /\ wait_queue = <<>>
  /\ wakeup_flags = [p \in Proc |-> "WT_INTERRUPTED"]

MutUpIncrement ==
  /\ InKernel
  /\ value' = value + 1
  /\ UNCHANGED <<schedVars, wait_queue, wakeup_flags>>

\* __up with nobody waiting.
UpIncrement ==
  /\ InKernel /\ wait_queue = <<>>
  /\ value' = value + 1
  /\ UNCHANGED <<schedVars, wait_queue, wakeup_flags>>

MutUpHandOff(w) ==
  /\ wait_queue # <<>>
  /\ wait_queue' = Tail(wait_queue)
  /\ wakeup_flags' = [wakeup_flags EXCEPT ![Head(wait_queue)] = w]
  /\ value' = value + 1
  /\ Wakeup({Head(wait_queue)})

MutUpNoFlags(w) ==
  /\ wait_queue # <<>>
  /\ wait_queue' = Tail(wait_queue)
  /\ Wakeup({Head(wait_queue)})
  /\ UNCHANGED <<value, wakeup_flags>>

MutUpZeroFlags(w) ==
  /\ wait_queue # <<>>
  /\ wait_queue' = Tail(wait_queue)
  /\ wakeup_flags' = [wakeup_flags EXCEPT ![Head(wait_queue)] = "none"]
  /\ Wakeup({Head(wait_queue)})
  /\ UNCHANGED value

\* __up when somebody waits: wakeup_wait hands the unit to the first waiter,
\* value stays as it is.
UpHandOff(w) ==
  /\ wait_queue # <<>>
  /\ wait_queue' = Tail(wait_queue)
  /\ wakeup_flags' = [wakeup_flags EXCEPT ![Head(wait_queue)] = w]
  /\ Wakeup({Head(wait_queue)})
  /\ UNCHANGED value

MutDownTake ==
  /\ InKernel /\ value >= 0
  /\ value' = value - 1
  /\ UNCHANGED <<schedVars, wait_queue, wakeup_flags>>

\* __down and try_down when a unit is there.
DownTake ==
  /\ InKernel /\ value > 0
  /\ value' = value - 1
  /\ UNCHANGED <<schedVars, wait_queue, wakeup_flags>>

\* __down up to schedule(): wait_current_set.
DownSleep(w) ==
  /\ value <= 0
  /\ wait_queue' = Append(wait_queue, current)
  /\ wakeup_flags' = [wakeup_flags EXCEPT ![current] = "WT_INTERRUPTED"]
  /\ Sleep(w)
  /\ UNCHANGED value

\* wait_queue_del of the wait_t at position i.
Unlinked(i) ==
  [j \in 1..(Len(wait_queue) - 1) |-> wait_queue[IF j < i THEN j ELSE j + 1]]

\* __down after schedule(): wait_current_del, which finds the wait_t linked
\* if it was not __up that woke the process.
DownResume ==
  /\ InKernel
  /\ IF Waiting(current)
     THEN \E i \in 1..Len(wait_queue) : wait_queue[i] = current /\ wait_queue' = Unlinked(i)
     ELSE UNCHANGED wait_queue
  /\ UNCHANGED <<schedVars, value, wakeup_flags>>

=============================================================================

-------------------------------- MODULE USem --------------------------------
(* A user semaphore: sem_wait with and without a timeout, sem_post and     *)
(* sem_free (ipc_sem_* of kern/sync/sem.c), called by processes that share *)
(* it and that may be killed at any time.  WT_USEM is interruptible: a     *)
(* kill or a timer makes the waiter runnable and leaves its wait_t linked  *)
(* until the waiter gets to run.  The sem_undo list is searched under a    *)
(* kernel semaphore whose holders do not sleep here, so a search and the   *)
(* operation that follows it are one step.                                 *)
EXTENDS Sem, Syscall, FiniteSets

CONSTANTS InitValue,  \* the value the semaphore is created with
          MaxPost     \* bound on the number of posts

VARIABLES valid,    \* sem->valid
          armed,    \* the processes whose timer is linked
          posted,   \* how many posts there were
          taken,    \* how many waits took a unit
          panicked  \* an assertion failed: the kernel has stopped

ipcVars == <<valid, pc, armed, posted, taken, panicked>>

uvars == <<schedVars, semVars, ipcVars>>

USemInit ==
  /\ SchedInit /\ SemInit(InitValue)
  /\ valid = TRUE /\ PcInit /\ armed = {}
  /\ posted = 0 /\ taken = 0 /\ panicked = FALSE

inwait == {p \in Proc : pc[p] = "wait"}

\* pc is "wait" inside usem_down.
-----------------------------------------------------------------------------

\* ipc_sem_wait when a unit is there.
sem_wait_take ==
  /\ ~panicked /\ AtCall /\ valid
  /\ DownTake
  /\ taken' = taken + 1
  /\ Goto("ret")
  /\ UNCHANGED <<valid, armed, posted, panicked>>

\* ipc_sem_wait up to schedule(), with a timer if a timeout was given.
sem_wait_sleep(timed) ==
  /\ ~panicked /\ AtCall /\ valid
  /\ DownSleep("WT_USEM")
  /\ Goto("wait")
  /\ armed' = IF timed THEN armed \cup {current} ELSE armed
  /\ UNCHANGED <<valid, posted, taken, panicked>>

MutWaitResume ==
  /\ ~panicked /\ current \in inwait
  /\ DownResume
  /\ Goto("ret")
  /\ taken' = IF wakeup_flags[current] = "WT_USEM" THEN taken + 1 ELSE taken
  /\ UNCHANGED <<valid, armed, posted, panicked>>

\* ipc_sem_wait after schedule(): it returns 0 only when __up woke it.
sem_wait_resume ==
  /\ ~panicked /\ current \in inwait
  /\ DownResume
  /\ Goto("ret")
  /\ armed' = armed \ {current}
  /\ taken' = IF wakeup_flags[current] = "WT_USEM" THEN taken + 1 ELSE taken
  /\ UNCHANGED <<valid, posted, panicked>>

\* ipc_sem_post: __up asserts that the first waiter still waits (sem.c:70).
sem_post ==
  /\ ~panicked /\ AtCall /\ valid /\ posted < MaxPost
  /\ IF wait_queue = <<>> \/ wait_state[Head(wait_queue)] = "WT_USEM"
     THEN (UpIncrement \/ UpHandOff("WT_USEM")) /\ posted' = posted + 1 /\ UNCHANGED panicked
     ELSE InKernel /\ panicked' = TRUE /\ UNCHANGED <<schedVars, semVars, posted>>
  /\ Goto("ret")
  /\ UNCHANGED <<valid, armed, taken>>

MutSemFree ==
  /\ ~panicked /\ AtCall /\ valid /\ InKernel
  /\ valid' = FALSE
  /\ Goto("ret")
  /\ UNCHANGED <<schedVars, semVars, armed, posted, taken, panicked>>

\* ipc_sem_free: every waiter is woken and unlinked (wakeup_queue).
sem_free ==
  /\ ~panicked /\ AtCall /\ valid
  /\ valid' = FALSE
  /\ Wakeup({p \in Proc : Waiting(p)})
  /\ wait_queue' = <<>>
  /\ Goto("ret")
  /\ UNCHANGED <<value, wakeup_flags, armed, posted, taken, panicked>>

\* The timer interrupt; it takes the timers that go off from the list.
TimerTick(S, expired) ==
  /\ ~panicked
  /\ Tick(S, expired)
  /\ armed' = armed \ S
  /\ UNCHANGED <<semVars, valid, posted, taken, panicked>>

URest ==
  /\ ~panicked
  /\ OtherStep
  /\ UNCHANGED <<semVars, valid, armed, posted, taken, panicked>>

\* panic() ends in the kernel monitor.
Halted == panicked /\ UNCHANGED uvars

USemNext ==
  \/ sem_wait_take
  \/ \E timed \in BOOLEAN : sem_wait_sleep(timed)
  \/ sem_wait_resume
  \/ sem_post
  \/ sem_free
  \/ \E S \in SUBSET armed, expired \in BOOLEAN : TimerTick(S, expired)
  \/ URest
  \/ Halted

USemSpec == USemInit /\ [][USemNext]_uvars

\* The timer ticks and uses up slices, every ready process gets to run, and a
\* process that runs leaves the kernel (by exiting if it was killed).
USemFairness ==
  /\ WF_uvars(TimerTick({}, TRUE))
  /\ WF_uvars(URest /\ switching)
  /\ \A p \in Proc \ {idleproc} : SF_uvars(URest /\ switching /\ current' = p)
  /\ WF_uvars(URest /\ (Switch \/ Leave \/ OtherCall \/ (Die /\ current \in exiting)))
  /\ WF_uvars(sem_wait_resume)

FairUSemSpec == USemSpec /\ USemFairness

-----------------------------------------------------------------------------
(* Properties                                                              *)

Granted == {p \in inwait : wakeup_flags[p] = "WT_USEM"}

USemTypeOK ==
  /\ TypeOK
  /\ value \in Int /\ wait_queue \in Seq(Proc)
  /\ wakeup_flags \in [Proc -> {"WT_INTERRUPTED", "WT_USEM"}]
  /\ pc \in [Proc -> {"user", "call", "wait", "ret"}] /\ armed \subseteq Proc
  /\ posted \in 0..MaxPost /\ taken \in Nat
  /\ valid \in BOOLEAN /\ panicked \in BOOLEAN

\* Each post is worth one wait, whatever timeouts, kills and frees come in
\* between: __up's unit goes to value or to one waiter, and a waiter that a
\* timer or a kill woke takes none.
TokensConserved == value + Cardinality(Granted) + taken = InitValue + posted

\* Nobody sleeps while a unit is there, and whoever sleeps in usem_down is in
\* the queue that __up looks at.
NoSleepOnUnit ==
  /\ value > 0 => wait_queue = <<>>
  /\ \A p \in Proc : wait_state[p] = "WT_USEM" => Waiting(p)

\* Freeing the semaphore leaves nobody asleep on it and nobody linked to it.
FreedWakesAll ==
  ~valid => wait_queue = <<>> /\ \A p \in Proc : wait_state[p] # "WT_USEM"

\* A linked timer belongs to a process inside usem_down that sleeps
\* interruptibly or was woken, as run_timer_list asserts when it goes off.
TimerOwners == armed \subseteq inwait /\ IrqWakes(armed)

\* "assert(wait->proc->wait_state == wait_state)" (sem.c:70): the process that
\* __up takes from the queue is still waiting.
PostAssert == ~panicked

\* "SYS_kill : kill process -->do_kill-->proc->flags |= PF_EXITING
\* -->wakeup_proc-->do_wait-->do_exit" (proc.c:63): a killed process exits.
KillEnds == \A p \in Proc : p \in exiting ~> state[p] = "ZOMBIE"

=============================================================================

-------------------------------- MODULE KSem --------------------------------
(* A kernel semaphore and the processes that use it as a lock: down(), a    *)
(* critical section that may itself sleep (kmalloc waits for pages in      *)
(* try_free_pages), up().  This is how lock_mm, lock_shmem, lock_sfs_* and *)
(* lock_pipe are used.  The holder of a disk (lock_disk0, lock_channel)    *)
(* does not wait for memory; kswapd may wait for it like anybody else.     *)
(* WT_KSEM is not interruptible: a kill never ends the wait.               *)
EXTENDS Sem, FiniteSets

CONSTANT N  \* the initial value, 1 for a lock

ASSUME NAssumption == N \in Nat

ASSUME KWaitAssumption == {"WT_KSEM", "WT_KSWAPD"} \subseteq Uninterruptible

VARIABLE pc  \* "out", "wait" (in down), "in" (between down and up), "panic"

kvars == <<schedVars, semVars, pc>>

KSemInit == SchedInit /\ SemInit(N) /\ pc = [p \in Proc |-> "out"]

Goto(l) == pc' = [pc EXCEPT ![current] = l]

\* down(), when it need not wait, and try_down().
down_take == current # idleproc /\ pc[current] = "out" /\ DownTake /\ Goto("in")

MutDownSleep == pc[current] = "out" /\ DownSleep("WT_KSEM") /\ Goto("wait")

\* down(), when it has to wait.  The kernel thread kswapd frees the memory
\* that holders of such a lock may wait for, and takes none of these locks
\* itself (kswapd_main and what it calls have no lock_mm and no lock_shmem).
down_sleep ==
  /\ current \notin KThread
  /\ pc[current] = "out" /\ DownSleep("WT_KSEM") /\ Goto("wait")

\* down() after schedule(), with its assertion that __up woke it.
down_resume ==
  /\ pc[current] = "wait"
  /\ DownResume
  /\ Goto(IF wakeup_flags[current] = "WT_KSEM" THEN "in" ELSE "panic")

up == pc[current] = "in" /\ (UpIncrement \/ UpHandOff("WT_KSEM")) /\ Goto("out")

\* Inside the critical section: wait for memory, until the kernel thread
\* kswapd has freed some (kswapd_wakeup_all).
mem_sleep ==
  /\ current \notin KThread /\ pc[current] = "in"
  /\ Sleep("WT_KSWAPD")
  /\ UNCHANGED <<semVars, pc>>

mem_wakeup ==
  /\ current \in KThread \ {idleproc} /\ pc[current] = "out"
  /\ Wakeup({p \in Proc : wait_state[p] = "WT_KSWAPD"})
  /\ UNCHANGED <<semVars, pc>>

\* Everything else; a process leaves the kernel, exits or kills another one
\* outside of down() and up() only.
KRest ==
  /\ \/ schedule
     \/ TrapEnter
     \/ TrapExit /\ pc[current] = "out"
     \/ CallSchedule /\ pc[current] = "out"
     \/ \E p \in Proc : Kill({p}) /\ pc[current] = "out"
     \/ Exit({}) /\ pc[current] = "out" /\ current \notin KThread
     \/ \E expired \in BOOLEAN : TimerIrq({}, expired)
  /\ UNCHANGED <<semVars, pc>>

KSemNext ==
  \/ down_take \/ down_sleep \/ down_resume \/ up
  \/ mem_sleep \/ mem_wakeup
  \/ KRest

KSemSpec == KSemInit /\ [][KSemNext]_kvars

\* The timer ticks and uses up slices, the scheduler lets every ready process
\* run again and again, a process that runs leaves the kernel, or calls
\* schedule() if it is a kernel thread, again and again, critical sections
\* come to their end, and kswapd frees memory whenever it gets to run.
KSemFairness ==
  /\ WF_kvars(TimerIrq({}, TRUE) /\ UNCHANGED <<semVars, pc>>)
  /\ \A p \in Proc \ {idleproc} : SF_kvars(schedule /\ current' = p /\ UNCHANGED <<semVars, pc>>)
  /\ WF_kvars(schedule /\ UNCHANGED <<semVars, pc>>)
  /\ SF_kvars(/\ TrapExit \/ CallSchedule \/ (current \in exiting /\ Exit({}))
              /\ pc[current] = "out"
              /\ UNCHANGED <<semVars, pc>>)
  /\ WF_kvars(down_resume)
  /\ SF_kvars(up)
  /\ SF_kvars(mem_wakeup)

FairKSemSpec == KSemSpec /\ KSemFairness

-----------------------------------------------------------------------------

\* Who has a unit: inside, or handed it by __up and not on the CPU since.
Holder == {p \in Proc : pc[p] = "in" \/ (pc[p] = "wait" /\ ~Waiting(p))}

KSemTypeOK ==
  /\ value \in Int
  /\ wait_queue \in Seq(Proc)
  /\ wakeup_flags \in [Proc -> {"WT_INTERRUPTED", "WT_KSEM"}]
  /\ pc \in [Proc -> {"out", "wait", "in", "panic"}]

\* The process __up takes from the queue is asleep for this semaphore (the
\* assertion at sem.c:70): nothing else wakes a process that waits in down().
UpAssert ==
  \A i \in 1..Len(wait_queue) :
     state[wait_queue[i]] = "SLEEPING" /\ wait_state[wait_queue[i]] = "WT_KSEM"

\* down() returns only after __up handed it a unit (assert(flags == 0)).
DownAssert == \A p \in Proc : pc[p] # "panic"

\* No unit is lost and none is made: what is not in value is with a holder.
\* With N = 1 this is mutual exclusion between down() and up(), also while
\* the holder sleeps for memory and while __up hands the lock over.
UnitsConserved == value >= 0 /\ value + Cardinality(Holder) = N

\* Two processes are never both between down() and up() of a lock.
MutualExclusion ==
  N = 1 => \A p, q \in Proc : pc[p] = "in" /\ pc[q] = "in" => p = q

\* Nobody waits while a unit is there, and whoever sleeps in down() is in the
\* queue __up looks at: no wakeup is lost.
NoLostWakeup ==
  /\ value > 0 => wait_queue = <<>>
  /\ \A p \in Proc : wait_state[p] = "WT_KSEM" => Waiting(p)

\* A process that waits for the lock gets it, although a holder may sleep
\* until kswapd has freed memory and kswapd uses the same lock: kswapd never
\* waits for it.
Granted(p) == Waiting(p) ~> ~Waiting(p)

\* A process is linked once, and only while it is inside down().
QueueInv ==
  /\ \A i \in 1..Len(wait_queue) : pc[wait_queue[i]] = "wait"
  /\ \A i, j \in 1..Len(wait_queue) : wait_queue[i] = wait_queue[j] => i = j

\* A process in down() that is not linked was woken by __up.
GrantedInv ==
  \A p \in Proc : pc[p] = "wait" /\ ~Waiting(p) => wakeup_flags[p] = "WT_KSEM"

\* The queue, the flags on the waiters' stacks, the process states and the
\* run queue agree: the assertions of __up and down() (sem.c:70, sem.c:112)
\* hold, nobody sleeps on a unit, and whoever left the queue was handed one.
\* It is inductive (module KSemProofs).
KSemInv == /\ SchedInv /\ KSemTypeOK /\ QueueInv /\ GrantedInv
           /\ UpAssert /\ DownAssert /\ NoLostWakeup
=============================================================================

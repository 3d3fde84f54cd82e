-------------------------------- MODULE Mlfq --------------------------------
(* The scheduling class the kernel installs: kern/schedule/sched_MLFQ.c on *)
(* top of the round-robin queues of sched_RR.c, as sched_init sets them up *)
(* and as wakeup_proc, schedule, run_timer_list and do_fork use it.        *)
EXTENDS Integers, Sequences

CONSTANTS Proc, idleproc,
          NLevel,    \* the number of run queues, 4 in sched.c
          TopSlice   \* max_time_slice of the first one, 8 in sched.c

ASSUME MlfqAssumption == NLevel \in Nat \ {0} /\ TopSlice \in Nat \ {0} /\ idleproc \in Proc

VARIABLES current,
          queue,        \* queue[i]: the run_list of __rq[i - 1]
          level,        \* proc->rq as an index of queue; 0 is NULL
          time_slice,   \* proc->time_slice
          need_resched, \* of the current process
          alive         \* allocated and not exited

vars == <<current, queue, level, time_slice, need_resched, alive>>

Level == 1..NLevel

User == Proc \ {idleproc}

\* sched_init: rq->max_time_slice * (1 << i), twice as long in each queue.
max_time_slice[i \in Level] == IF i = 1 THEN TopSlice ELSE 2 * max_time_slice[i - 1]

Members(q) == {q[i] : i \in 1..Len(q)}

Queued == UNION {Members(queue[i]) : i \in Level}

MlfqInit ==
  /\ current = idleproc
  /\ queue = [i \in Level |-> <<>>]
  /\ level = [p \in Proc |-> 0]
  /\ time_slice = [p \in Proc |-> 0]
  /\ need_resched = TRUE
  /\ alive = {idleproc}

-----------------------------------------------------------------------------

\* MLFQ_enqueue: one queue down when the slice is used up, and no further
\* than the last one; otherwise the first queue.
TargetLevel(p) ==
  IF level[p] # 0 /\ time_slice[p] = 0
  THEN IF level[p] = NLevel THEN NLevel ELSE level[p] + 1
  ELSE 1

MutRefill(p) == IF time_slice[p] = 0 THEN max_time_slice[TargetLevel(p)] ELSE time_slice[p]

\* RR_enqueue: the slice of a process that enters its queue.
Refill(p) ==
  IF time_slice[p] = 0 \/ time_slice[p] > max_time_slice[TargetLevel(p)]
  THEN max_time_slice[TargetLevel(p)] ELSE time_slice[p]

MutPutAfter(p) == [queue EXCEPT ![TargetLevel(p)] = <<p>> \o @]

\* RR_enqueue: at the tail of its queue.
PutAfter(p) == [queue EXCEPT ![TargetLevel(p)] = Append(@, p)]

\* The queues, levels and slices after sched_class_enqueue for members of S
\* (one process or none).
Requeued(S) ==
  [queue |-> IF S = {} THEN queue ELSE PutAfter(CHOOSE p \in S : TRUE),
   level |-> [p \in Proc |-> IF p \in S THEN TargetLevel(p) ELSE level[p]],
   slice |-> [p \in Proc |-> IF p \in S THEN Refill(p) ELSE time_slice[p]]]

MutPickLevel(q) == IF q[1] = <<>> THEN 0 ELSE 1

\* MLFQ_pick_next: the first queue that is not empty, 0 when all are.
PickLevel(q) ==
  IF \A i \in Level : q[i] = <<>> THEN 0
  ELSE CHOOSE i \in Level : q[i] # <<>> /\ \A j \in 1..(i - 1) : q[j] = <<>>

-----------------------------------------------------------------------------

\* wakeup_proc(p), for a sleeping or a new process.
Wake(p) ==
  /\ p \in alive \ ({current, idleproc} \cup Queued)
  /\ LET r == Requeued({p})
     IN queue' = r.queue /\ level' = r.level /\ time_slice' = r.slice
  /\ UNCHANGED <<current, need_resched, alive>>

MutSwitchQueuesIdle(back) ==
  LET r == Requeued(back)
      i == PickLevel(r.queue)
  IN  /\ level' = r.level /\ time_slice' = r.slice
      /\ current' = IF i = 0 THEN idleproc ELSE Head(r.queue[i])
      /\ queue' = IF i = 0 THEN r.queue ELSE [r.queue EXCEPT ![i] = Tail(@)]

MutSwitchNoDequeue(back) ==
  LET r == Requeued(back \ {idleproc})
      i == PickLevel(r.queue)
  IN  /\ level' = r.level /\ time_slice' = r.slice
      /\ current' = IF i = 0 THEN idleproc ELSE Head(r.queue[i])
      /\ queue' = r.queue

\* schedule(), where back holds the current process iff it is runnable.
Switch(back) ==
  LET r == Requeued(back \ {idleproc})
      i == PickLevel(r.queue)
  IN  /\ level' = r.level /\ time_slice' = r.slice
      /\ current' = IF i = 0 THEN idleproc ELSE Head(r.queue[i])
      /\ queue' = IF i = 0 THEN r.queue ELSE [r.queue EXCEPT ![i] = Tail(@)]

\* The current process is preempted or yields; idleproc was asked to.
Preempt ==
  /\ need_resched
  /\ Switch({current})
  /\ need_resched' = FALSE
  /\ UNCHANGED alive

Block ==
  /\ current # idleproc
  /\ Switch({})
  /\ need_resched' = FALSE
  /\ UNCHANGED alive

Exit ==
  /\ current # idleproc
  /\ Switch({})
  /\ need_resched' = FALSE
  /\ alive' = alive \ {current}

Yield ==
  /\ current # idleproc
  /\ need_resched' = TRUE
  /\ UNCHANGED <<current, queue, level, time_slice, alive>>

\* sched_class_proc_tick and RR_proc_tick.
ProcTick ==
  /\ time_slice' = IF current # idleproc /\ time_slice[current] > 0
                   THEN [time_slice EXCEPT ![current] = @ - 1] ELSE time_slice
  /\ need_resched' = (need_resched \/ current = idleproc \/ time_slice'[current] = 0)
  /\ UNCHANGED <<current, queue, level, alive>>

MutChildShare == time_slice[current] - time_slice[current] \div 2

\* The child's part of the slice in do_fork.
ChildShare == time_slice[current] \div 2

\* alloc_proc and the division of the slice in do_fork; Wake(c) follows.  The
\* share is taken from the parent in a second statement, and a tick may come
\* between the two (there is time for one, not for two).
Fork(c, tick) ==
  LET left == IF tick /\ current # idleproc /\ time_slice[current] > 0
              THEN time_slice[current] - 1 ELSE time_slice[current]
  IN  /\ c \in Proc \ (alive \cup Queued)
      /\ time_slice' = [time_slice EXCEPT ![c] = ChildShare, ![current] = left - ChildShare]
      /\ need_resched' = (need_resched \/ (tick /\ (current = idleproc \/ left = 0)))
      /\ level' = [level EXCEPT ![c] = 0]
      /\ alive' = alive \cup {c}
      /\ UNCHANGED <<current, queue>>

MlfqNext ==
  \/ \E p \in User : Wake(p)
  \/ Preempt
  \/ Block
  \/ Exit
  \/ Yield
  \/ ProcTick
  \/ \E c \in User, tick \in BOOLEAN : Fork(c, tick)

MlfqSpec == MlfqInit /\ [][MlfqNext]_vars

\* The hardware timer ticks, and trap() calls schedule() when it is asked to.
FairMlfqSpec == MlfqSpec /\ WF_vars(ProcTick) /\ WF_vars(Preempt)

-----------------------------------------------------------------------------
(* Properties                                                              *)

MlfqTypeOK ==
  /\ {current, idleproc} \cup Queued \subseteq alive /\ alive \subseteq Proc
  /\ queue \in [Level -> Seq(User)]
  /\ level \in [Proc -> 0..NLevel]
  /\ time_slice \in [Proc -> Int]
  /\ need_resched \in BOOLEAN

\* proc->rq names the one queue a queued process is linked into (RR_dequeue
\* asserts it), a process is linked once, and never while it is on the CPU.
LinkedOnce ==
  /\ current \notin Queued
  /\ \A i \in Level : \A k \in 1..Len(queue[i]) :
       /\ level[queue[i][k]] = i
       /\ \A m \in 1..Len(queue[i]) : queue[i][m] = queue[i][k] => m = k

\* A queued process has a slice of at least 1 and at most its queue's, also
\* when it got its slice in do_fork or brought it from a longer queue.
QueuedSlice ==
  \A i \in Level : \A p \in Members(queue[i]) : time_slice[p] \in 1..max_time_slice[i]

\* A slice never goes below zero, which do_fork asserts (proc.c:524): the
\* parent keeps the larger half, so a tick that comes while the slice is
\* divided still leaves it enough to pay the child's share.
SliceNotNegative == \A p \in Proc : time_slice[p] >= 0

Class == INSTANCE SchedClass WITH ready <- Queued

\* MLFQ is a scheduling class: it neither loses nor invents a process, and
\* schedule() goes to idleproc only when no process is ready.
ImplementsClass == Class!ClassSpec

\* Once processes only compute (none wakes, blocks, yields, forks or ends any
\* more), each one that is ready gets the CPU: all sink to the last queue,
\* which is served in turn.  Without that condition MLFQ has no such promise:
\* processes that wake again and again keep the first queue busy.
ReadyRuns ==
  <>[][ProcTick \/ Preempt]_vars => \A p \in User : p \in Queued ~> current = p

\* What RR_dequeue and do_fork assert, and RR_enqueue and MLFQ_enqueue keep:
\* a process is linked once, where proc->rq says, with a slice of that queue.
QueuesOk == MlfqTypeOK /\ LinkedOnce /\ QueuedSlice /\ SliceNotNegative
=============================================================================

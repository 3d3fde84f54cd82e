------------------------------- MODULE Sched -------------------------------
(* Process states and the switch discipline of the kernel (one CPU):       *)
(* wakeup_proc, schedule and the timer tick of kern/schedule/sched.c,      *)
(* wait_current_set of kern/sync/wait.c, the way into and out of the       *)
(* kernel of kern/trap/trap.c, and the state changes of a process's life   *)
(* in kern/process/proc.c.                                                  *)
(*                                                                         *)
(* The kernel is not preemptive: a switch happens only in schedule().  A   *)
(* step is a stretch of kernel code of the current process; interrupts     *)
(* come between any two steps, also between the moment a process marks     *)
(* itself SLEEPING and its call of schedule() (switching = TRUE).          *)
(*                                                                         *)
(* This module is the contract the other components rely on: who calls     *)
(* wakeup_proc and on whom is left open, except for what the code asserts. *)
(* Their modules extend this one, use its operators, and are checked to    *)
(* implement SchedSpec.  The run queue is a set: which process pick_next   *)
(* returns is the scheduling class's business (module Mlfq).               *)

CONSTANTS Proc,      \* the proc_structs there can be
          idleproc,  \* runs when nothing else can, and is never queued
          KThread,   \* the kernel threads: idleproc, initproc, kswapd
          Started,   \* the processes created before the behaviour starts
          Interruptible,   \* the WT_* that carry WT_INTERRUPTED
          Uninterruptible  \* the others: WT_KSEM, WT_KSWAPD

ASSUME ProcAssumption == /\ idleproc \in KThread /\ KThread \subseteq Proc
                         /\ Started \subseteq Proc \ {idleproc}

ASSUME WaitAssumption == /\ "none" \notin Interruptible \cup Uninterruptible
                         /\ Interruptible \cap Uninterruptible = {}

VARIABLES current,       \* the process on the CPU
          state,         \* proc->state; "FREE" when there is no such proc_struct
          wait_state,    \* proc->wait_state; "none" is 0
          rq,            \* the processes linked into the run queue
          need_resched,  \* proc->need_resched
          exiting,       \* the processes with PF_EXITING in proc->flags
          mode,          \* where the process is, or will be when it is resumed
          switching      \* the current process is about to call schedule()

schedVars == <<current, state, wait_state, rq, need_resched, exiting, mode, switching>>

ProcState == {"FREE", "UNINIT", "SLEEPING", "RUNNABLE", "ZOMBIE"}

WaitState == Interruptible \cup Uninterruptible

\* A new process starts at forkret, which goes straight to user mode.
StartMode(p) == IF p \in KThread THEN "kernel" ELSE "user"

SchedInit ==
  /\ current = idleproc
  /\ state = [p \in Proc |-> IF p \in Started \cup {idleproc} THEN "RUNNABLE" ELSE "FREE"]
  /\ wait_state = [p \in Proc |-> "none"]
  /\ rq = Started
  /\ need_resched = [p \in Proc |-> p = idleproc]
  /\ exiting = {}
  /\ mode = [p \in Proc |-> StartMode(p)]
  /\ switching = FALSE

-----------------------------------------------------------------------------
(* The operations of sched.c                                               *)

MutEnqueueIdle(q, S) == q \cup S

\* sched_class_enqueue for each member of S; idleproc is never queued.
sched_class_enqueue(q, S) == q \cup (S \ {idleproc})

\* The members of S whose state wakeup_proc changes; the others get a warning.
NotRunnable(S) == {p \in S : state[p] # "RUNNABLE"}

MutWakeEnqueuesCurrent(S) ==
  /\ \A p \in S : state[p] \in {"UNINIT", "SLEEPING", "RUNNABLE"}
  /\ state' = [p \in Proc |-> IF p \in S THEN "RUNNABLE" ELSE state[p]]
  /\ wait_state' = [p \in Proc |-> IF p \in NotRunnable(S) THEN "none" ELSE wait_state[p]]
  /\ rq' = sched_class_enqueue(rq, NotRunnable(S))

MutWakeKeepsWaitState(S) ==
  /\ \A p \in S : state[p] \in {"UNINIT", "SLEEPING", "RUNNABLE"}
  /\ state' = [p \in Proc |-> IF p \in S THEN "RUNNABLE" ELSE state[p]]
  /\ wait_state' = wait_state
  /\ rq' = sched_class_enqueue(rq, NotRunnable(S) \ {current})

\* wakeup_proc on each member of S; the first conjunct is its assertion (a
\* caller never names a zombie, nor a proc_struct that was freed).
wakeup_proc(S) ==
  /\ \A p \in S : state[p] \in {"UNINIT", "SLEEPING", "RUNNABLE"}
  /\ state' = [p \in Proc |-> IF p \in S THEN "RUNNABLE" ELSE state[p]]
  /\ wait_state' = [p \in Proc |-> IF p \in NotRunnable(S) THEN "none" ELSE wait_state[p]]
  /\ rq' = sched_class_enqueue(rq, NotRunnable(S) \ {current})

MutRequeueAlways == sched_class_enqueue(rq, {current})

\* What the current process leaves in the run queue when it calls schedule().
RequeueCurrent ==
  IF state[current] = "RUNNABLE" THEN sched_class_enqueue(rq, {current}) ELSE rq

schedule ==
  /\ switching
  /\ switching' = FALSE
  /\ need_resched' = [need_resched EXCEPT ![current] = FALSE]
  /\ \/ /\ RequeueCurrent = {}
        /\ current' = idleproc
        /\ rq' = {}
     \/ \E next \in RequeueCurrent :
           /\ current' = next
           /\ rq' = RequeueCurrent \ {next}
  /\ UNCHANGED <<state, wait_state, exiting, mode>>

MutTickIgnoresIdle(expired) ==
  need_resched' = IF expired /\ current # idleproc
                  THEN [need_resched EXCEPT ![current] = TRUE]
                  ELSE need_resched

\* sched_class_proc_tick: the current process has used up its time slice
\* (expired), or it is idleproc.
sched_class_proc_tick(expired) ==
  need_resched' = IF expired \/ current = idleproc
                  THEN [need_resched EXCEPT ![current] = TRUE]
                  ELSE need_resched

-----------------------------------------------------------------------------
(* Kernel code of the current process                                      *)

InKernel == mode[current] = "kernel" /\ ~switching

\* A trap from user mode: a system call, an exception.
TrapEnter ==
  /\ mode[current] = "user" /\ ~switching
  /\ mode' = [mode EXCEPT ![current] = "kernel"]
  /\ UNCHANGED <<current, state, wait_state, rq, need_resched, exiting, switching>>

\* The end of trap(): may_killed finds nothing (else the process goes to
\* Exit), then back to user mode, by way of schedule() if asked for.
TrapExit ==
  /\ InKernel /\ current \notin KThread /\ current \notin exiting
  /\ mode' = [mode EXCEPT ![current] = "user"]
  /\ switching' = need_resched[current]
  /\ UNCHANGED <<current, state, wait_state, rq, need_resched, exiting>>

\* A direct call of schedule(): cpu_idle when asked to, other kernel threads.
CallSchedule ==
  /\ InKernel /\ current \in KThread
  /\ current = idleproc => need_resched[current]
  /\ switching' = TRUE
  /\ UNCHANGED <<current, state, wait_state, rq, need_resched, exiting, mode>>

\* do_yield: the switch itself happens at the end of trap().
Yield ==
  /\ InKernel
  /\ need_resched' = [need_resched EXCEPT ![current] = TRUE]
  /\ UNCHANGED <<current, state, wait_state, rq, exiting, mode, switching>>

\* The current process wakes the members of S.
Wakeup(S) ==
  /\ InKernel
  /\ wakeup_proc(S)
  /\ UNCHANGED <<current, need_resched, exiting, mode, switching>>

\* The current process wakes the members of S, marks itself SLEEPING for the
\* reason w and goes on to schedule() (wait_current_set, do_wait, do_sleep).
SleepAndWake(w, S) ==
  /\ InKernel /\ current # idleproc /\ current \notin S
  /\ \A p \in S : state[p] \in {"UNINIT", "SLEEPING", "RUNNABLE"}
  /\ state' = [p \in Proc |-> IF p = current THEN "SLEEPING"
                              ELSE IF p \in S THEN "RUNNABLE" ELSE state[p]]
  /\ wait_state' = [p \in Proc |-> IF p = current THEN w
                                   ELSE IF p \in NotRunnable(S) THEN "none" ELSE wait_state[p]]
  /\ rq' = sched_class_enqueue(rq, NotRunnable(S))
  /\ switching' = TRUE
  /\ UNCHANGED <<current, need_resched, exiting, mode>>

Sleep(w) == SleepAndWake(w, {})

\* The end of __do_exit: wakes the members of S, never to run again.
Exit(S) ==
  /\ InKernel /\ current # idleproc /\ current \notin S
  /\ \A p \in S : state[p] \in {"UNINIT", "SLEEPING", "RUNNABLE"}
  /\ state' = [p \in Proc |-> IF p = current THEN "ZOMBIE"
                              ELSE IF p \in S THEN "RUNNABLE" ELSE state[p]]
  /\ wait_state' = [p \in Proc |-> IF p \in NotRunnable(S) THEN "none" ELSE wait_state[p]]
  /\ rq' = sched_class_enqueue(rq, NotRunnable(S))
  /\ switching' = TRUE
  /\ UNCHANGED <<current, need_resched, exiting, mode>>

MutKillWakesAll(S) ==
  /\ InKernel /\ current \notin KThread /\ idleproc \notin S
  /\ \A p \in S : state[p] \in {"SLEEPING", "RUNNABLE", "ZOMBIE"} /\ p \notin exiting
  /\ exiting' = exiting \cup S
  /\ wakeup_proc({p \in S : wait_state[p] # "none"})
  /\ UNCHANGED <<current, need_resched, mode, switching>>

\* __do_kill on each member of S: only an interruptible wait ends; a process
\* that is runnable, or asleep for the kernel's sake, is left to notice the
\* flag (idleproc has no pid to be found by).
Kill(S) ==
  /\ InKernel /\ current \notin KThread /\ idleproc \notin S
  /\ \A p \in S : state[p] \in {"SLEEPING", "RUNNABLE", "ZOMBIE"} /\ p \notin exiting
  /\ exiting' = exiting \cup S
  /\ wakeup_proc({p \in S : wait_state[p] \in Interruptible})
  /\ UNCHANGED <<current, need_resched, mode, switching>>

\* alloc_proc: a new proc_struct, not to be seen by the scheduler yet.  Its
\* fields have their initial values since FreeProc: what a proc_struct holds
\* between kfree and alloc_proc is never read.
AllocProc(p) ==
  /\ InKernel /\ state[p] = "FREE"
  /\ state' = [state EXCEPT ![p] = "UNINIT"]
  /\ UNCHANGED <<current, wait_state, rq, need_resched, exiting, mode, switching>>

\* kfree(proc), at the end of do_wait or when do_fork fails.
FreeProc(p) ==
  /\ InKernel /\ state[p] \in {"UNINIT", "ZOMBIE"}
  /\ state' = [state EXCEPT ![p] = "FREE"]
  /\ need_resched' = [need_resched EXCEPT ![p] = FALSE]
  /\ exiting' = exiting \ {p}
  /\ mode' = [mode EXCEPT ![p] = StartMode(p)]
  /\ UNCHANGED <<current, wait_state, rq, switching>>

-----------------------------------------------------------------------------
(* Interrupts: they come in user and in kernel mode; one that came in user *)
(* mode ends in TrapExit, one that came in kernel mode just returns.       *)

\* The processes an interrupt may wake: the owner of a timer sleeps
\* interruptibly or was woken already, stdin is read under WT_KBD.
IrqWakes(S) ==
  \A p \in S : \/ state[p] = "RUNNABLE"
               \/ state[p] = "SLEEPING" /\ wait_state[p] \in Interruptible

\* run_timer_list wakes the owners S of the timers that expire, then counts
\* the tick against the current process.
TimerIrq(S, expired) ==
  /\ IrqWakes(S)
  /\ wakeup_proc(S)
  /\ sched_class_proc_tick(expired)
  /\ mode' = IF switching THEN mode ELSE [mode EXCEPT ![current] = "kernel"]
  /\ UNCHANGED <<current, exiting, switching>>

\* dev_stdin_write wakes the readers of the keyboard buffer.
KbdIrq(S) ==
  /\ IrqWakes(S)
  /\ wakeup_proc(S)
  /\ mode' = IF switching THEN mode ELSE [mode EXCEPT ![current] = "kernel"]
  /\ UNCHANGED <<current, need_resched, exiting, switching>>

SchedNext ==
  \/ schedule
  \/ TrapEnter
  \/ TrapExit
  \/ CallSchedule
  \/ Yield
  \/ \E S \in SUBSET Proc : Wakeup(S)
  \/ \E w \in WaitState, S \in SUBSET Proc : SleepAndWake(w, S)
  \/ \E S \in SUBSET Proc : Exit(S)
  \/ \E S \in SUBSET Proc : Kill(S)
  \/ \E p \in Proc : AllocProc(p)
  \/ \E p \in Proc : FreeProc(p)
  \/ \E S \in SUBSET Proc, expired \in BOOLEAN : TimerIrq(S, expired)
  \/ \E S \in SUBSET Proc : KbdIrq(S)

SchedSpec == SchedInit /\ [][SchedNext]_schedVars

\* The hardware timer keeps ticking, and code that can go on goes on.
SchedFairness ==
  /\ WF_schedVars(schedule)
  /\ WF_schedVars(CallSchedule)
  /\ WF_schedVars(\E S \in SUBSET Proc, expired \in BOOLEAN : TimerIrq(S, expired))

-----------------------------------------------------------------------------
(* Properties                                                              *)

TypeOK ==
  /\ current \in Proc
  /\ state \in [Proc -> ProcState]
  /\ wait_state \in [Proc -> WaitState \cup {"none"}]
  /\ rq \in SUBSET (Proc \ {idleproc})
  /\ need_resched \in [Proc -> BOOLEAN]
  /\ exiting \in SUBSET Proc
  /\ mode \in [Proc -> {"user", "kernel"}]
  /\ switching \in BOOLEAN

\* The run queue holds exactly the runnable processes that are not on the
\* CPU: wakeup_proc and schedule() (sched.c) never lose a runnable process,
\* even one woken between its wait_current_set and its schedule(), and never
\* link a process twice (the assertion on run_link in RR_enqueue).
RunQueueInv ==
  rq = {p \in Proc \ {idleproc, current} : state[p] = "RUNNABLE"}

\* A process has a reason to wait exactly while it sleeps: __do_kill,
\* run_timer_list and __up read wait_state to tell whether to wake it.
WaitStateInv ==
  \A p \in Proc : wait_state[p] # "none" <=> state[p] = "SLEEPING"

\* Outside the window before schedule() the CPU runs a runnable process; a
\* zombie on the CPU is on its way to schedule(), so that its kernel stack
\* is not in use any more when another process frees it in do_wait.
CurrentInv ==
  /\ ~switching => state[current] = "RUNNABLE"
  /\ state[current] \in {"RUNNABLE", "SLEEPING", "ZOMBIE"}
  /\ state[idleproc] = "RUNNABLE"

\* schedule() hands the CPU to a runnable process only: a zombie or a sleeper
\* never runs again before wakeup_proc.
SwitchToRunnable ==
  [][current' # current => state[current'] = "RUNNABLE"]_schedVars

\* An idle CPU does not stay idle when a process is runnable: wakeup_proc
\* does not set need_resched, it is the tick that makes cpu_idle call
\* schedule().
IdleYields ==
  (current = idleproc /\ rq # {}) ~> (current # idleproc)

\* What wakeup_proc, schedule() and the traps around them keep together: the
\* run queue, the reasons to wait and the process on the CPU agree, whichever
\* of them is changed first.  It is inductive (module SchedProofs).
SchedInv == TypeOK /\ RunQueueInv /\ WaitStateInv /\ CurrentInv

=============================================================================

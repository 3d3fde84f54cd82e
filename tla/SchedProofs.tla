---------------------------- MODULE SchedProofs ----------------------------
(* The safety properties of Sched for every set of processes and kernel    *)
(* threads.  SchedInv is inductive: schedule() keeps CurrentInv only       *)
(* because the run queue holds nothing but runnable processes, and a wake- *)
(* up keeps RunQueueInv only because a runnable process is not waiting.    *)
EXTENDS Sched, TLAPS

LEMMA InitInv == ASSUME SchedInit PROVE SchedInv
<1> USE ProcAssumption DEF SchedInit
<1>1. TypeOK
  BY DEF TypeOK, ProcState, WaitState, StartMode
<1>2. RunQueueInv /\ WaitStateInv /\ CurrentInv
  BY DEF RunQueueInv, WaitStateInv, CurrentInv
<1> QED
  BY <1>1, <1>2 DEF SchedInv

\* What a wakeup of the members of S does to the parts of the invariant it
\* can disturb, when the current process is not switched.
LEMMA WakeupInv ==
  ASSUME SchedInv, NEW S \in SUBSET Proc, wakeup_proc(S), current' = current,
         switching' = switching
  PROVE  /\ state' \in [Proc -> ProcState]
         /\ wait_state' \in [Proc -> WaitState \cup {"none"}]
         /\ rq' \in SUBSET (Proc \ {idleproc})
         /\ RunQueueInv' /\ WaitStateInv' /\ CurrentInv'
<1>1. state' \in [Proc -> ProcState]
  BY DEF SchedInv, TypeOK, wakeup_proc, ProcState
<1>2. wait_state' \in [Proc -> WaitState \cup {"none"}]
  BY DEF SchedInv, TypeOK, wakeup_proc
<1>3. rq' \in SUBSET (Proc \ {idleproc})
  BY DEF SchedInv, TypeOK, wakeup_proc, sched_class_enqueue, NotRunnable
<1>4. RunQueueInv'
  BY DEF SchedInv, TypeOK, wakeup_proc, sched_class_enqueue, NotRunnable, RunQueueInv
<1>5. WaitStateInv'
  BY DEF SchedInv, TypeOK, wakeup_proc, NotRunnable, WaitStateInv
<1>6. CurrentInv'
  BY ProcAssumption DEF SchedInv, TypeOK, wakeup_proc, CurrentInv
<1> QED
  BY <1>1, <1>2, <1>3, <1>4, <1>5, <1>6

LEMMA ScheduleInv == ASSUME SchedInv, schedule PROVE SchedInv'
<1> USE ProcAssumption DEF SchedInv
<1>1. TypeOK'
  BY DEF TypeOK, schedule, RequeueCurrent, sched_class_enqueue
<1>2. RunQueueInv'
  BY DEF TypeOK, RunQueueInv, schedule, RequeueCurrent, sched_class_enqueue, CurrentInv
<1>3. WaitStateInv'
  BY DEF WaitStateInv, schedule
<1>4. CurrentInv'
  BY DEF TypeOK, RunQueueInv, CurrentInv, schedule, RequeueCurrent, sched_class_enqueue
<1> QED
  BY <1>1, <1>2, <1>3, <1>4

LEMMA SleepInv ==
  ASSUME SchedInv, NEW w \in WaitState, NEW S \in SUBSET Proc, SleepAndWake(w, S)
  PROVE  SchedInv'
<1> USE ProcAssumption DEF SchedInv
<1>0. w # "none"
  BY WaitAssumption DEF WaitState
<1>1. TypeOK'
  BY DEF TypeOK, SleepAndWake, sched_class_enqueue, NotRunnable, ProcState
<1>2. RunQueueInv'
  BY DEF TypeOK, RunQueueInv, SleepAndWake, sched_class_enqueue, NotRunnable
<1>3. WaitStateInv'
  BY <1>0 DEF TypeOK, WaitStateInv, SleepAndWake, NotRunnable
<1>4. CurrentInv'
  BY DEF TypeOK, CurrentInv, SleepAndWake
<1> QED
  BY <1>1, <1>2, <1>3, <1>4

LEMMA ExitInv ==
  ASSUME SchedInv, NEW S \in SUBSET Proc, Exit(S)
  PROVE  SchedInv'
<1> USE ProcAssumption DEF SchedInv
<1>1. TypeOK'
  BY DEF TypeOK, Exit, sched_class_enqueue, NotRunnable, ProcState
<1>2. RunQueueInv'
  BY DEF TypeOK, RunQueueInv, Exit, sched_class_enqueue, NotRunnable
<1>3. WaitStateInv'
  BY DEF TypeOK, WaitStateInv, CurrentInv, InKernel, Exit, NotRunnable
<1>4. CurrentInv'
  BY DEF TypeOK, CurrentInv, Exit
<1> QED
  BY <1>1, <1>2, <1>3, <1>4

LEMMA StepInv == SchedInv /\ [SchedNext]_schedVars => SchedInv'
<1> SUFFICES ASSUME SchedInv, [SchedNext]_schedVars PROVE SchedInv'
  OBVIOUS
<1> USE ProcAssumption
<1>1. CASE schedule
  BY <1>1, ScheduleInv
<1>2. CASE TrapEnter
  BY <1>2 DEF SchedInv, TypeOK, RunQueueInv, WaitStateInv, CurrentInv, TrapEnter
<1>3. CASE TrapExit
  BY <1>3 DEF SchedInv, TypeOK, RunQueueInv, WaitStateInv, CurrentInv, TrapExit, InKernel
<1>4. CASE CallSchedule
  BY <1>4 DEF SchedInv, TypeOK, RunQueueInv, WaitStateInv, CurrentInv, CallSchedule
<1>5. CASE Yield
  BY <1>5 DEF SchedInv, TypeOK, RunQueueInv, WaitStateInv, CurrentInv, Yield
<1>6. ASSUME NEW S \in SUBSET Proc, Wakeup(S) PROVE SchedInv'
  BY <1>6, WakeupInv DEF SchedInv, TypeOK, Wakeup
<1>7. ASSUME NEW w \in WaitState, NEW S \in SUBSET Proc, SleepAndWake(w, S) PROVE SchedInv'
  BY <1>7, SleepInv
<1>8. ASSUME NEW S \in SUBSET Proc, Exit(S) PROVE SchedInv'
  BY <1>8, ExitInv
<1>9. ASSUME NEW p \in Proc, AllocProc(p) PROVE SchedInv'
  BY <1>9 DEF SchedInv, TypeOK, RunQueueInv, WaitStateInv, CurrentInv, AllocProc, ProcState,
       StartMode
<1>10. ASSUME NEW p \in Proc, FreeProc(p) PROVE SchedInv'
  BY <1>10 DEF SchedInv, TypeOK, RunQueueInv, WaitStateInv, CurrentInv, FreeProc,
       InKernel, ProcState, StartMode
<1>11. ASSUME NEW S \in SUBSET Proc, NEW expired \in BOOLEAN, TimerIrq(S, expired)
       PROVE  SchedInv'
  BY <1>11, WakeupInv DEF SchedInv, TypeOK, TimerIrq, sched_class_proc_tick
<1>12. ASSUME NEW S \in SUBSET Proc, KbdIrq(S) PROVE SchedInv'
  BY <1>12, WakeupInv DEF SchedInv, TypeOK, KbdIrq
<1>14. ASSUME NEW S \in SUBSET Proc, Kill(S) PROVE SchedInv'
  <2>1. {p \in S : wait_state[p] \in Interruptible} \in SUBSET Proc
    OBVIOUS
  <2> QED
    BY <1>14, <2>1, WakeupInv DEF SchedInv, TypeOK, Kill
<1>13. CASE UNCHANGED schedVars
  BY <1>13 DEF SchedInv, TypeOK, RunQueueInv, WaitStateInv, CurrentInv, schedVars
<1> QED
  BY <1>1, <1>2, <1>3, <1>4, <1>5, <1>6, <1>7, <1>8, <1>9, <1>10, <1>11, <1>12,
     <1>13, <1>14 DEF SchedNext

\* The invariant of the scheduler core holds in every behaviour of SchedSpec.
THEOREM SchedInvariant == SchedSpec => []SchedInv
  BY InitInv, StepInv, PTL DEF SchedSpec

\* No interleaving of wakeups, interrupts and switches (sched.c) gives a
\* variable a value outside its type; idleproc is never queued.
THEOREM TypeCorrect == SchedSpec => []TypeOK
  BY SchedInvariant, PTL DEF SchedInv

\* wakeup_proc and schedule() keep the run queue equal to the set of runnable
\* processes that are not on the CPU, however many processes there are.
THEOREM RunQueueCorrect == SchedSpec => []RunQueueInv
  BY SchedInvariant, PTL DEF SchedInv

\* A process has a wait_state exactly while it is SLEEPING.
THEOREM WaitStateCorrect == SchedSpec => []WaitStateInv
  BY SchedInvariant, PTL DEF SchedInv

\* Outside the window before schedule() the current process is runnable.
THEOREM CurrentCorrect == SchedSpec => []CurrentInv
  BY SchedInvariant, PTL DEF SchedInv

\* schedule() hands the CPU to a runnable process only.
THEOREM SwitchCorrect == SchedSpec => SwitchToRunnable
<1>1. SchedInv /\ [SchedNext]_schedVars
        => [current' # current => state[current'] = "RUNNABLE"]_schedVars
  BY ProcAssumption DEF SchedInv, TypeOK, RunQueueInv, CurrentInv, SchedNext, schedVars, schedule,
       RequeueCurrent, sched_class_enqueue, TrapEnter, TrapExit, CallSchedule,
       Yield, Wakeup, SleepAndWake, Exit, Kill, AllocProc, FreeProc,
       TimerIrq, KbdIrq
<1> QED
  BY <1>1, SchedInvariant, PTL DEF SchedSpec, SwitchToRunnable

=============================================================================

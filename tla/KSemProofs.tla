----------------------------- MODULE KSemProofs -----------------------------
(* Kernel semaphores for every number of processes and every initial value. *)
(* KSemInv adds to the scheduler's invariant what ties the queue, the      *)
(* flags on the waiters' stacks and the process states together.  The      *)
(* units are counted last: handing one over changes no count because the   *)
(* waiter that leaves the queue is a holder at once.                       *)
EXTENDS KSem, SchedProofs, FiniteSetTheorems

LEMMA KSemInitInv == ASSUME KSemInit PROVE KSemInv
<1>1. SchedInv
  BY InitInv DEF KSemInit
<1>2. KSemTypeOK
  BY NAssumption DEF KSemInit, SemInit, KSemTypeOK
<1>3. QueueInv /\ GrantedInv /\ UpAssert /\ DownAssert
  BY DEF KSemInit, SemInit, QueueInv, GrantedInv, UpAssert, DownAssert
<1>4. NoLostWakeup
  BY DEF KSemInit, SemInit, SchedInit, NoLostWakeup
<1> QED
  BY <1>1, <1>2, <1>3, <1>4 DEF KSemInv

\* Every step of the processes is a step of the scheduler core or leaves its
\* state alone, so SchedInv is kept.
LEMMA KSemSchedStep == ASSUME KSemInv, [KSemNext]_kvars PROVE [SchedNext]_schedVars
<1> USE DEF KSemInv
<1>1. {} \in SUBSET Proc /\ TRUE \in BOOLEAN /\ FALSE \in BOOLEAN
  OBVIOUS
<1>2. {"WT_KSEM", "WT_KSWAPD"} \subseteq WaitState
  BY KWaitAssumption DEF WaitState
<1>3. CASE down_take
  BY <1>3 DEF down_take, DownTake
<1>4. CASE down_sleep
  BY <1>1, <1>2, <1>4 DEF down_sleep, DownSleep, Sleep, SchedNext
<1>5. CASE down_resume
  BY <1>5 DEF down_resume, DownResume
<1>6. CASE up
  <2>1. CASE UpIncrement
    BY <2>1 DEF UpIncrement
  <2>2. CASE UpHandOff("WT_KSEM")
    <3>1. Head(wait_queue) \in Proc
      BY <2>2 DEF UpHandOff, KSemTypeOK
    <3>2. {Head(wait_queue)} \in SUBSET Proc
      BY <3>1
    <3> QED
      BY <2>2, <3>2 DEF UpHandOff, SchedNext
  <2> QED
    BY <1>6, <2>1, <2>2 DEF up
<1>7. CASE mem_sleep
  BY <1>1, <1>2, <1>7 DEF mem_sleep, Sleep, SchedNext
<1>8. CASE mem_wakeup
  <2>1. {p \in Proc : wait_state[p] = "WT_KSWAPD"} \in SUBSET Proc
    OBVIOUS
  <2> QED
    BY <1>8, <2>1 DEF mem_wakeup, SchedNext
<1>9. CASE KRest
  BY <1>1, <1>9 DEF KRest, SchedNext
<1>10. CASE UNCHANGED kvars
  BY <1>10 DEF kvars
<1> QED
  BY <1>3, <1>4, <1>5, <1>6, <1>7, <1>8, <1>9, <1>10 DEF KSemNext

LEMMA KSemSchedInv == ASSUME KSemInv, [KSemNext]_kvars PROVE SchedInv'
  BY KSemSchedStep, StepInv DEF KSemInv

\* A step that touches neither the semaphore nor the program counters keeps
\* the invariant if it neither starts nor ends a wait for a semaphore.
LEMMA KeepInv ==
  ASSUME KSemInv, SchedInv', UNCHANGED <<semVars, pc>>,
         \A p \in Proc : wait_state'[p] = "WT_KSEM" <=> wait_state[p] = "WT_KSEM"
  PROVE  KSemInv'
<1> USE DEF KSemInv, semVars
<1>1. KSemTypeOK' /\ QueueInv' /\ GrantedInv' /\ DownAssert'
  BY DEF KSemTypeOK, QueueInv, GrantedInv, DownAssert, Waiting
<1>2. UpAssert'
  <2> SUFFICES ASSUME NEW i \in 1..Len(wait_queue)
               PROVE  state'[wait_queue[i]] = "SLEEPING" /\ wait_state'[wait_queue[i]] = "WT_KSEM"
    BY DEF UpAssert
  <2>1. wait_queue[i] \in Proc /\ wait_state[wait_queue[i]] = "WT_KSEM"
    BY DEF UpAssert, KSemTypeOK
  <2> QED
    BY <2>1 DEF SchedInv, WaitStateInv
<1>3. NoLostWakeup'
  BY DEF NoLostWakeup, Waiting
<1> QED
  BY <1>1, <1>2, <1>3

LEMMA MemInv ==
  ASSUME KSemInv, mem_sleep \/ mem_wakeup, SchedInv'
  PROVE  KSemInv'
<1>1. UNCHANGED <<semVars, pc>>
  BY DEF mem_sleep, mem_wakeup
<1>2. InKernel /\ wait_state[current] = "none"
  BY DEF mem_sleep, mem_wakeup, Sleep, SleepAndWake, Wakeup, InKernel, KSemInv,
         SchedInv, TypeOK, WaitStateInv, CurrentInv
<1>3. \A p \in Proc : wait_state'[p] = "WT_KSEM" <=> wait_state[p] = "WT_KSEM"
  BY <1>2 DEF mem_sleep, mem_wakeup, Sleep, SleepAndWake, Wakeup, wakeup_proc,
              NotRunnable, KSemInv, SchedInv, TypeOK
<1> QED
  BY <1>1, <1>3, KeepInv

LEMMA RestInv ==
  ASSUME KSemInv, KRest, SchedInv'
  PROVE  KSemInv'
<1>1. UNCHANGED <<semVars, pc>>
  BY DEF KRest
<1>2. \A p \in Proc : wait_state[p] = "WT_KSEM" => wait_state[p] \notin Interruptible
  BY KWaitAssumption, WaitAssumption
<1>3. InKernel => wait_state[current] = "none"
  BY DEF InKernel, KSemInv, SchedInv, TypeOK, WaitStateInv, CurrentInv
<1>4. \A p \in Proc : wait_state'[p] = "WT_KSEM" <=> wait_state[p] = "WT_KSEM"
  <2>1. CASE schedule \/ TrapEnter \/ TrapExit \/ CallSchedule
    BY <2>1 DEF schedule, TrapEnter, TrapExit, CallSchedule
  <2>2. ASSUME NEW q \in Proc, Kill({q})
        PROVE  \A p \in Proc : wait_state'[p] = "WT_KSEM" <=> wait_state[p] = "WT_KSEM"
    BY <1>2, <2>2 DEF Kill, wakeup_proc, NotRunnable, KSemInv, SchedInv, TypeOK
  <2>3. CASE Exit({})
    BY <2>3 DEF Exit, NotRunnable, KSemInv, SchedInv, TypeOK
  <2>4. ASSUME NEW expired \in BOOLEAN, TimerIrq({}, expired)
        PROVE  \A p \in Proc : wait_state'[p] = "WT_KSEM" <=> wait_state[p] = "WT_KSEM"
    BY <2>4 DEF TimerIrq, wakeup_proc, NotRunnable, KSemInv, SchedInv, TypeOK
  <2> QED
    BY <2>1, <2>2, <2>3, <2>4 DEF KRest
<1> QED
  BY <1>1, <1>4, KeepInv

LEMMA DownTakeInv ==
  ASSUME KSemInv, down_take, SchedInv'
  PROVE  KSemInv'
<1> USE DEF KSemInv
<1>1. /\ pc[current] = "out" /\ pc' = [pc EXCEPT ![current] = "in"]
      /\ value > 0 /\ value' = value - 1
      /\ UNCHANGED <<schedVars, wait_queue, wakeup_flags>> /\ current \in Proc
  BY DEF down_take, DownTake, Goto, SchedInv, TypeOK
<1>2. wait_queue = <<>>
  BY <1>1 DEF NoLostWakeup
<1>3. KSemTypeOK'
  BY <1>1 DEF KSemTypeOK
<1>4. QueueInv' /\ UpAssert'
  BY <1>1, <1>2 DEF QueueInv, UpAssert
<1>5. GrantedInv' /\ DownAssert'
  BY <1>1 DEF KSemTypeOK, GrantedInv, DownAssert, Waiting
<1>6. NoLostWakeup'
  BY <1>1, <1>2 DEF NoLostWakeup, Waiting, schedVars
<1> QED
  BY <1>3, <1>4, <1>5, <1>6

LEMMA DownSleepInv ==
  ASSUME KSemInv, down_sleep, SchedInv'
  PROVE  KSemInv'
<1> USE DEF KSemInv
<1>1. /\ pc[current] = "out" /\ pc' = [pc EXCEPT ![current] = "wait"]
      /\ value <= 0 /\ value' = value /\ current \in Proc
      /\ wait_queue' = Append(wait_queue, current)
      /\ wakeup_flags' = [wakeup_flags EXCEPT ![current] = "WT_INTERRUPTED"]
  BY DEF down_sleep, DownSleep, Goto, SchedInv, TypeOK
<1>2. /\ wait_state'[current] = "WT_KSEM" /\ state'[current] = "SLEEPING"
      /\ \A p \in Proc \ {current} : wait_state'[p] = wait_state[p] /\ state'[p] = state[p]
  BY DEF down_sleep, DownSleep, Sleep, SleepAndWake, NotRunnable, SchedInv, TypeOK
<1>3. KSemTypeOK'
  BY <1>1 DEF KSemTypeOK
<1>4. /\ Len(wait_queue') = Len(wait_queue) + 1 /\ wait_queue'[Len(wait_queue')] = current
      /\ \A i \in 1..Len(wait_queue) : wait_queue'[i] = wait_queue[i] /\ wait_queue[i] \in Proc
      /\ Len(wait_queue) \in Nat
  BY <1>1 DEF KSemTypeOK
<1>5. \A i \in 1..Len(wait_queue) : wait_queue[i] # current
  BY <1>1 DEF QueueInv
<1>6. QueueInv'
  BY <1>1, <1>4, <1>5 DEF QueueInv, KSemTypeOK
<1>7. \A p \in Proc : Waiting(p)' <=> (Waiting(p) \/ p = current)
  BY <1>4 DEF Waiting
<1>8. GrantedInv' /\ DownAssert'
  BY <1>1, <1>7 DEF KSemTypeOK, GrantedInv, DownAssert
<1>9. UpAssert'
  BY <1>2, <1>4, <1>5 DEF UpAssert
<1>10. NoLostWakeup'
  BY <1>1, <1>2, <1>7 DEF NoLostWakeup, KSemTypeOK
<1> QED
  BY <1>3, <1>6, <1>8, <1>9, <1>10

\* A process that resumes in down() is not linked any more.
LEMMA ResumeGranted ==
  ASSUME KSemInv, down_resume
  PROVE  /\ ~Waiting(current) /\ wakeup_flags[current] = "WT_KSEM"
         /\ pc[current] = "wait" /\ pc' = [pc EXCEPT ![current] = "in"]
         /\ UNCHANGED <<schedVars, semVars>> /\ current \in Proc
<1> USE DEF KSemInv
<1>1. current \in Proc /\ state[current] = "RUNNABLE" /\ pc[current] = "wait"
  BY DEF down_resume, DownResume, InKernel, SchedInv, TypeOK, CurrentInv
<1>2. ~Waiting(current)
  BY <1>1 DEF Waiting, UpAssert
<1>3. wakeup_flags[current] = "WT_KSEM"
  BY <1>1, <1>2 DEF GrantedInv
<1> QED
  BY <1>1, <1>2, <1>3 DEF down_resume, DownResume, Goto, semVars

LEMMA DownResumeInv ==
  ASSUME KSemInv, down_resume, SchedInv'
  PROVE  KSemInv'
<1> USE DEF KSemInv
<1>1. KSemTypeOK' /\ DownAssert'
  BY ResumeGranted DEF KSemTypeOK, DownAssert, semVars
<1>2. QueueInv'
  BY ResumeGranted DEF QueueInv, Waiting, semVars, KSemTypeOK
<1>3. GrantedInv'
  BY ResumeGranted DEF GrantedInv, Waiting, semVars, KSemTypeOK
<1>4. UpAssert' /\ NoLostWakeup'
  BY ResumeGranted DEF UpAssert, NoLostWakeup, Waiting, semVars, schedVars
<1> QED
  BY <1>1, <1>2, <1>3, <1>4

\* What __up does when it hands its unit to the first waiter, h.
LEMMA HandOffFacts ==
  ASSUME KSemInv, up, wait_queue # <<>>,
         NEW h, h = Head(wait_queue)
  PROVE  /\ h \in Proc /\ current \in Proc /\ h # current /\ pc[h] = "wait" /\ Waiting(h)
         /\ pc[current] = "in" /\ pc' = [pc EXCEPT ![current] = "out"]
         /\ value' = value /\ wakeup_flags' = [wakeup_flags EXCEPT ![h] = "WT_KSEM"]
         /\ wait_queue' \in Seq(Proc) /\ Len(wait_queue') = Len(wait_queue) - 1
         /\ Len(wait_queue) \in Nat \ {0}
         /\ \A i \in 1..Len(wait_queue') : wait_queue'[i] = wait_queue[i + 1]
         /\ \A p \in Proc : Waiting(p)' <=> (Waiting(p) /\ p # h)
         /\ wait_state'[h] = "none"
         /\ \A p \in Proc \ {h} : wait_state'[p] = wait_state[p] /\ state'[p] = state[p]
<1> USE DEF KSemInv
<1>1. UpHandOff("WT_KSEM") /\ pc[current] = "in" /\ pc' = [pc EXCEPT ![current] = "out"]
  BY DEF up, UpIncrement, Goto
<1>2. Len(wait_queue) \in Nat \ {0} /\ h = wait_queue[1] /\ h \in Proc
  BY DEF KSemTypeOK
<1>3. pc[h] = "wait" /\ h # current /\ current \in Proc /\ Waiting(h)
  BY <1>1, <1>2 DEF QueueInv, Waiting, SchedInv, TypeOK
<1>4. /\ wait_queue' \in Seq(Proc) /\ Len(wait_queue') = Len(wait_queue) - 1
      /\ \A i \in 1..Len(wait_queue') : wait_queue'[i] = wait_queue[i + 1]
  BY <1>1, <1>2 DEF UpHandOff, KSemTypeOK
<1>5. \A p \in Proc : Waiting(p)' <=> (Waiting(p) /\ p # h)
  <2> TAKE p \in Proc
  <2>1. ASSUME Waiting(p)' PROVE Waiting(p) /\ p # h
    <3>1. PICK i \in 1..Len(wait_queue') : wait_queue'[i] = p
      BY <2>1 DEF Waiting
    <3>2. wait_queue[i + 1] = p /\ i + 1 \in 1..Len(wait_queue) /\ i + 1 # 1
      BY <3>1, <1>2, <1>4
    <3> QED
      BY <3>2, <1>2 DEF Waiting, QueueInv
  <2>2. ASSUME Waiting(p), p # h PROVE Waiting(p)'
    <3>1. PICK i \in 1..Len(wait_queue) : wait_queue[i] = p
      BY <2>2 DEF Waiting
    <3>2. i - 1 \in 1..Len(wait_queue') /\ wait_queue'[i - 1] = wait_queue[(i - 1) + 1] /\ (i - 1) + 1 = i
      BY <3>1, <2>2, <1>2, <1>4
    <3> QED
      BY <3>1, <3>2 DEF Waiting
  <2> QED
    BY <2>1, <2>2
<1>6. /\ wait_state'[h] = "none"
      /\ \A p \in Proc \ {h} : wait_state'[p] = wait_state[p] /\ state'[p] = state[p]
  BY <1>1, <1>2 DEF UpHandOff, Wakeup, wakeup_proc, NotRunnable, UpAssert, SchedInv, TypeOK
<1> QED
  BY <1>1, <1>2, <1>3, <1>4, <1>5, <1>6 DEF UpHandOff

LEMMA UpIncrementFacts ==
  ASSUME KSemInv, up, wait_queue = <<>>
  PROVE  /\ pc[current] = "in" /\ pc' = [pc EXCEPT ![current] = "out"] /\ current \in Proc
         /\ value' = value + 1 /\ UNCHANGED <<schedVars, wait_queue, wakeup_flags>>
  BY DEF up, UpIncrement, UpHandOff, Goto, KSemInv, SchedInv, TypeOK

LEMMA UpInv ==
  ASSUME KSemInv, up, SchedInv'
  PROVE  KSemInv'
<1> USE DEF KSemInv
<1>1. CASE wait_queue = <<>>
  <2>0. /\ pc' = [pc EXCEPT ![current] = "out"] /\ value' = value + 1
        /\ UNCHANGED <<wait_queue, wakeup_flags>>
    BY <1>1, UpIncrementFacts
  <2>1. KSemTypeOK'
    <3>1. value' \in Int
      BY <2>0 DEF KSemTypeOK
    <3>2. pc' \in [Proc -> {"out", "wait", "in", "panic"}]
      BY <2>0 DEF KSemTypeOK
    <3> QED
      BY <2>0, <3>1, <3>2 DEF KSemTypeOK
  <2>2. QueueInv' /\ UpAssert'
    BY <1>1, UpIncrementFacts DEF QueueInv, UpAssert
  <2>3. GrantedInv' /\ DownAssert'
    BY <1>1, UpIncrementFacts DEF GrantedInv, DownAssert, KSemTypeOK, Waiting
  <2>4. NoLostWakeup'
    BY <1>1, UpIncrementFacts DEF NoLostWakeup, Waiting, schedVars
  <2> QED
    BY <2>1, <2>2, <2>3, <2>4
<1>2. CASE wait_queue # <<>>
  <2> DEFINE h == Head(wait_queue)
  <2>1. KSemTypeOK' /\ DownAssert'
    BY <1>2, HandOffFacts DEF KSemTypeOK, DownAssert
  <2>2. QueueInv'
    <3>1. \A i \in 1..Len(wait_queue') :
             i + 1 \in 1..Len(wait_queue) /\ wait_queue'[i] = wait_queue[i + 1]
      BY <1>2, HandOffFacts
    <3>2. \A i \in 1..Len(wait_queue') : pc'[wait_queue'[i]] = "wait"
      BY <1>2, <3>1, HandOffFacts DEF QueueInv, KSemTypeOK
    <3>3. \A i, j \in 1..Len(wait_queue') : wait_queue'[i] = wait_queue'[j] => i + 1 = j + 1
      BY <3>1 DEF QueueInv
    <3>4. \A i, j \in 1..Len(wait_queue') : i + 1 = j + 1 => i = j
      BY <1>2, HandOffFacts
    <3> QED
      BY <3>2, <3>3, <3>4 DEF QueueInv
  <2>3. GrantedInv'
    BY <1>2, HandOffFacts DEF GrantedInv, KSemTypeOK
  <2>4. UpAssert'
    <3> SUFFICES ASSUME NEW i \in 1..Len(wait_queue')
                 PROVE  /\ state'[wait_queue'[i]] = "SLEEPING"
                        /\ wait_state'[wait_queue'[i]] = "WT_KSEM"
      BY DEF UpAssert
    <3>1. i + 1 \in 1..Len(wait_queue) /\ i + 1 # 1 /\ wait_queue'[i] = wait_queue[i + 1]
      BY <1>2, HandOffFacts
    <3>2. wait_queue[i + 1] # h /\ wait_queue[i + 1] \in Proc
      <4>1. 1 \in 1..Len(wait_queue) /\ h = wait_queue[1]
        BY <1>2, HandOffFacts DEF KSemTypeOK
      <4> QED
        BY <3>1, <4>1 DEF QueueInv, KSemTypeOK
    <3> QED
      BY <1>2, <3>1, <3>2, HandOffFacts DEF UpAssert
  <2>5. NoLostWakeup'
    BY <1>2, HandOffFacts DEF NoLostWakeup, KSemTypeOK
  <2> QED
    BY <2>1, <2>2, <2>3, <2>4, <2>5
<1> QED
  BY <1>1, <1>2

LEMMA KSemStepInv == KSemInv /\ [KSemNext]_kvars => KSemInv'
<1> SUFFICES ASSUME KSemInv, [KSemNext]_kvars PROVE KSemInv'
  OBVIOUS
<1>1. SchedInv'
  BY KSemSchedInv
<1>2. CASE UNCHANGED kvars
  BY <1>1, <1>2, KeepInv DEF kvars, schedVars
<1> QED
  BY <1>1, <1>2, DownTakeInv, DownSleepInv, DownResumeInv, UpInv, MemInv, RestInv DEF KSemNext

\* The invariant of a kernel semaphore and its users holds for every set of
\* processes and every initial value.
THEOREM KSemInvariant == KSemSpec => []KSemInv
  BY KSemInitInv, KSemStepInv, PTL DEF KSemSpec

\* The processes that use kernel semaphores keep to the scheduler's contract:
\* every behaviour of theirs is one of module Sched.
THEOREM KSemImplementsSched == KSemSpec => SchedSpec
<1>1. KSemInit => SchedInit
  BY DEF KSemInit
<1>2. KSemInv /\ [KSemNext]_kvars => [SchedNext]_schedVars
  BY KSemSchedStep
<1> QED
  BY <1>1, <1>2, KSemInvariant, PTL DEF KSemSpec, SchedSpec

\* The assertion at sem.c:70 holds for kernel semaphores: the process that
\* __up takes from the queue is asleep in down().
THEOREM UpAssertHolds == KSemSpec => []UpAssert
  BY KSemInvariant, PTL DEF KSemInv

\* The assertion in down() holds: only __up ends its wait.
THEOREM DownAssertHolds == KSemSpec => []DownAssert
  BY KSemInvariant, PTL DEF KSemInv

\* No wakeup is lost: nobody waits while there is a unit, and every process
\* asleep in down() is in the queue.
THEOREM NoLostWakeupHolds == KSemSpec => []NoLostWakeup
  BY KSemInvariant, PTL DEF KSemInv

-----------------------------------------------------------------------------
(* Counting the units                                                      *)

UnitsInv == IsFiniteSet(Holder) /\ value >= 0 /\ value + Cardinality(Holder) = N

LEMMA UnitsInit == ASSUME KSemInit PROVE UnitsInv
<1>1. Holder = {}
  BY DEF KSemInit, SemInit, Holder
<1> QED
  BY <1>1, FS_EmptySet, NAssumption DEF UnitsInv, KSemInit, SemInit

LEMMA UnitsStep == ASSUME KSemInv, UnitsInv, [KSemNext]_kvars PROVE UnitsInv'
<1>0. Cardinality(Holder) \in Nat /\ value \in Int /\ N \in Nat
  BY FS_CardinalityType, NAssumption DEF UnitsInv, KSemInv, KSemTypeOK
<1>1. CASE down_take
  <2>1. /\ pc[current] = "out" /\ pc' = [pc EXCEPT ![current] = "in"] /\ current \in Proc
        /\ value > 0 /\ value' = value - 1 /\ UNCHANGED wait_queue
    BY <1>1 DEF down_take, DownTake, Goto, KSemInv, SchedInv, TypeOK
  <2>2. Holder' = Holder \cup {current} /\ current \notin Holder
    BY <2>1 DEF Holder, Waiting, KSemInv, KSemTypeOK
  <2>3. IsFiniteSet(Holder') /\ Cardinality(Holder') = Cardinality(Holder) + 1
    BY <2>2, FS_AddElement DEF UnitsInv
  <2> QED
    BY <1>0, <2>1, <2>3 DEF UnitsInv
<1>2. CASE down_sleep
  <2>1. /\ pc[current] = "out" /\ pc' = [pc EXCEPT ![current] = "wait"] /\ current \in Proc
        /\ value' = value /\ wait_queue' = Append(wait_queue, current)
    BY <1>2 DEF down_sleep, DownSleep, Goto, KSemInv, SchedInv, TypeOK
  <2>2. \A p \in Proc : Waiting(p)' <=> (Waiting(p) \/ p = current)
    <3>1. /\ Len(wait_queue') = Len(wait_queue) + 1 /\ wait_queue'[Len(wait_queue')] = current
          /\ \A i \in 1..Len(wait_queue) : wait_queue'[i] = wait_queue[i]
          /\ Len(wait_queue) \in Nat
      BY <2>1 DEF KSemInv, KSemTypeOK
    <3> QED
      BY <3>1 DEF Waiting
  <2>3. Holder' = Holder
    BY <2>1, <2>2 DEF Holder, KSemInv, KSemTypeOK
  <2> QED
    BY <2>1, <2>3 DEF UnitsInv
<1>3. CASE down_resume
  <2>1. Holder' = Holder /\ value' = value
    BY <1>3, ResumeGranted DEF Holder, Waiting, semVars, KSemInv, KSemTypeOK
  <2> QED
    BY <2>1 DEF UnitsInv
<1>4. CASE up /\ wait_queue = <<>>
  <2>1. /\ pc[current] = "in" /\ pc' = [pc EXCEPT ![current] = "out"] /\ current \in Proc
        /\ value' = value + 1 /\ UNCHANGED wait_queue
    BY <1>4, UpIncrementFacts
  <2>2. Holder' = Holder \ {current} /\ current \in Holder
    BY <2>1 DEF Holder, Waiting, KSemInv, KSemTypeOK
  <2>3. IsFiniteSet(Holder') /\ Cardinality(Holder') = Cardinality(Holder) - 1
    BY <2>2, FS_RemoveElement DEF UnitsInv
  <2> QED
    BY <1>0, <2>1, <2>3 DEF UnitsInv
<1>5. CASE up /\ wait_queue # <<>>
  <2> DEFINE h == Head(wait_queue)
             rest == Holder \ {current}
  <2>1. /\ h \in Proc /\ current \in Proc /\ h # current /\ pc[h] = "wait" /\ Waiting(h)
        /\ pc[current] = "in" /\ pc' = [pc EXCEPT ![current] = "out"] /\ value' = value
        /\ \A p \in Proc : Waiting(p)' <=> (Waiting(p) /\ p # h)
    BY <1>5, HandOffFacts
  <2>2. Holder' = rest \cup {h} /\ h \notin rest /\ current \in Holder
    BY <2>1 DEF Holder, KSemInv, KSemTypeOK
  <2>3. IsFiniteSet(rest) /\ Cardinality(rest) = Cardinality(Holder) - 1
    BY <2>2, FS_RemoveElement DEF UnitsInv
  <2>4. IsFiniteSet(rest \cup {h}) /\ Cardinality(rest \cup {h}) = Cardinality(rest) + 1
    BY <2>2, <2>3, FS_AddElement
  <2> HIDE DEF h, rest
  <2> QED
    BY <1>0, <2>1, <2>2, <2>3, <2>4 DEF UnitsInv
<1>6. CASE mem_sleep \/ mem_wakeup \/ KRest \/ UNCHANGED kvars
  <2>1. UNCHANGED <<semVars, pc>>
    BY <1>6 DEF mem_sleep, mem_wakeup, KRest, kvars
  <2> QED
    BY <2>1 DEF UnitsInv, Holder, Waiting, semVars
<1> QED
  BY <1>1, <1>2, <1>3, <1>4, <1>5, <1>6 DEF KSemNext

\* down() and up() neither lose nor make a unit, for every initial value and
\* every number of processes, whoever sleeps, is killed or is woken.
THEOREM UnitsConservedHolds == KSemSpec => []UnitsConserved
<1>1. UnitsInv => UnitsConserved
  BY DEF UnitsInv, UnitsConserved
<1> QED
  BY <1>1, UnitsInit, UnitsStep, KSemInvariant, PTL DEF KSemSpec

\* A kernel semaphore with initial value 1 is a lock: two processes are never
\* both between down() and up().
THEOREM MutualExclusionHolds == KSemSpec => []MutualExclusion
<1>1. KSemInv /\ UnitsInv => MutualExclusion
  <2> SUFFICES ASSUME KSemInv, UnitsInv, N = 1, NEW p \in Proc, NEW q \in Proc,
                      pc[p] = "in", pc[q] = "in", p # q
               PROVE  FALSE
    BY DEF MutualExclusion
  <2> DEFINE rest == Holder \ {p}
  <2>1. p \in Holder /\ q \in rest
    BY DEF Holder
  <2>2. IsFiniteSet(rest) /\ Cardinality(rest) = Cardinality(Holder) - 1
    BY <2>1, FS_RemoveElement DEF UnitsInv
  <2>3. Cardinality(rest) \in Nat /\ Cardinality(rest) # 0
    BY <2>1, <2>2, FS_EmptySet, FS_CardinalityType
  <2>4. Cardinality(Holder) \in Nat /\ value \in Int
    BY FS_CardinalityType DEF UnitsInv, KSemInv, KSemTypeOK
  <2> QED
    BY <2>2, <2>3, <2>4 DEF UnitsInv
<1> QED
  BY <1>1, UnitsInit, UnitsStep, KSemInvariant, PTL DEF KSemSpec

=============================================================================

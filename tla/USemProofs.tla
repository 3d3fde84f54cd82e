----------------------------- MODULE USemProofs -----------------------------
(* User semaphores for every number of processes, waits, posts and         *)
(* timeouts.  A timer or a kill ends a wait and leaves the wait_t linked,  *)
(* so unlike for kernel semaphores a queued process need not be asleep;    *)
(* what remains is that a queued process is inside usem_down and was       *)
(* granted nothing yet.                                                    *)
EXTENDS USem, SchedProofs, FiniteSetTheorems

\* What the theorems ask of the constants: WT_USEM carries WT_INTERRUPTED.
USemConstants ==
  /\ "WT_USEM" \in Interruptible
  /\ InitValue \in Nat /\ MaxPost \in Nat

UPlaces == {"user", "call", "wait", "ret"}

UType ==
  /\ value \in Nat /\ wait_queue \in Seq(Proc)
  /\ wakeup_flags \in [Proc -> {"WT_INTERRUPTED", "WT_USEM"}]
  /\ pc \in [Proc -> UPlaces] /\ armed \in SUBSET Proc
  /\ posted \in 0..MaxPost /\ taken \in Nat
  /\ valid \in BOOLEAN /\ panicked \in BOOLEAN

\* A linked wait_t belongs to a process in usem_down that __up has not
\* granted a unit, and is linked once.
QueuedInv ==
  /\ \A i \in 1..Len(wait_queue) :
        pc[wait_queue[i]] = "wait" /\ wakeup_flags[wait_queue[i]] = "WT_INTERRUPTED"
  /\ \A i, j \in 1..Len(wait_queue) : wait_queue[i] = wait_queue[j] => i = j

\* Where a process is in its system call and what the scheduler knows of it:
\* in usem_down it is in the kernel and no zombie, and there is no other
\* reason to sleep.
PlacesInv ==
  \A p \in Proc : /\ mode[p] = "user" <=> pc[p] = "user"
                  /\ pc[p] = "wait" => state[p] \in {"SLEEPING", "RUNNABLE"}
                  /\ wait_state[p] \in {"none", "WT_USEM"}

ArmedInv == \A p \in armed : pc[p] = "wait"

\* The strengthening that is inductive.
USemInv ==
  /\ SchedInv /\ UType /\ QueuedInv /\ PlacesInv /\ ArmedInv
  /\ NoSleepOnUnit /\ FreedWakesAll

LEMMA USemInitInv == ASSUME USemConstants, USemInit PROVE USemInv
<1> USE ProcAssumption DEF USemInit, SemInit, PcInit
<1>1. SchedInv
  BY InitInv
<1>2. UType
  <2>1. value \in Nat /\ posted \in 0..MaxPost /\ taken \in Nat
    BY DEF USemConstants
  <2>2. wait_queue \in Seq(Proc) /\ wakeup_flags \in [Proc -> {"WT_INTERRUPTED", "WT_USEM"}]
    OBVIOUS
  <2>3. pc \in [Proc -> UPlaces] /\ armed \in SUBSET Proc /\ valid \in BOOLEAN /\ panicked \in BOOLEAN
    BY DEF UPlaces
  <2> QED
    BY <2>1, <2>2, <2>3 DEF UType
<1>3. QueuedInv /\ ArmedInv
  BY DEF QueuedInv, ArmedInv
<1>4. PlacesInv
  BY DEF PlacesInv, SchedInit, StartMode
<1>5. NoSleepOnUnit /\ FreedWakesAll
  BY DEF NoSleepOnUnit, FreedWakesAll, SchedInit
<1> QED
  BY <1>1, <1>2, <1>3, <1>4, <1>5 DEF USemInv

-----------------------------------------------------------------------------
(* Every step is one of the scheduler's                                    *)

LEMMA USemSchedStep ==
  ASSUME USemConstants, USemInv, [USemNext]_uvars PROVE [SchedNext]_schedVars
<1>0. wait_queue \in Seq(Proc) /\ armed \in SUBSET Proc
  BY DEF USemInv, UType
<1>1. {} \in SUBSET Proc /\ "WT_USEM" \in WaitState
  BY DEF USemConstants, WaitState
<1>2. CASE sem_wait_take \/ sem_wait_resume \/ Halted \/ UNCHANGED uvars
  BY <1>2 DEF sem_wait_take, DownTake, sem_wait_resume, DownResume, Halted, uvars
<1>3. ASSUME NEW timed \in BOOLEAN, sem_wait_sleep(timed) PROVE SchedNext
  BY <1>1, <1>3 DEF sem_wait_sleep, DownSleep, Sleep, SchedNext
<1>4. CASE sem_post
  <2>1. ASSUME UpHandOff("WT_USEM") PROVE SchedNext
    <3>1. {Head(wait_queue)} \in SUBSET Proc
      BY <1>0, <2>1 DEF UpHandOff
    <3> QED
      BY <2>1, <3>1 DEF UpHandOff, SchedNext
  <2>2. ASSUME UpIncrement PROVE UNCHANGED schedVars
    BY <2>2 DEF UpIncrement
  <2> QED
    BY <1>4, <2>1, <2>2 DEF sem_post
<1>5. CASE sem_free
  <2>1. {p \in Proc : Waiting(p)} \in SUBSET Proc
    OBVIOUS
  <2> QED
    BY <1>5, <2>1 DEF sem_free, SchedNext
<1>6. ASSUME NEW S \in SUBSET armed, NEW expired \in BOOLEAN, TimerTick(S, expired)
      PROVE  SchedNext
  <2>1. S \in SUBSET Proc
    BY <1>0
  <2> QED
    BY <1>6, <2>1 DEF TimerTick, Tick, SchedNext
<1>7. CASE URest
  <2>1. ASSUME NEW p \in Proc, Kill({p}) PROVE SchedNext
    BY <2>1 DEF SchedNext
  <2>2. ASSUME Exit({}) PROVE SchedNext
    BY <1>1, <2>2 DEF SchedNext
  <2> QED
    BY <1>7, <2>1, <2>2 DEF URest, OtherStep, LiveStep, Enter, OtherCall, Leave, Switch, KillCall,
                           Die, DieWaking, SchedNext
<1> QED
  BY <1>2, <1>3, <1>4, <1>5, <1>6, <1>7 DEF USemNext

LEMMA USemSchedInv ==
  ASSUME USemConstants, USemInv, [USemNext]_uvars PROVE SchedInv'
  BY USemSchedStep, StepInv DEF USemInv

-----------------------------------------------------------------------------
(* The steps that leave the semaphore alone                                *)

\* The current process, outside usem_down, goes to l or stays; others may be
\* woken, and linked timers may go off.
Elsewhere(l) ==
  /\ \/ pc' = pc /\ \A p \in Proc : mode'[p] = mode[p]
     \/ /\ pc[current] # "wait" /\ l # "wait" /\ l \in UPlaces
        /\ pc' = [pc EXCEPT ![current] = l]
        /\ mode'[current] = "user" <=> l = "user"
        /\ \A p \in Proc \ {current} : mode'[p] = mode[p]
  /\ \A p \in Proc : wait_state'[p] \in {wait_state[p], "none"}
  /\ \A p \in Proc : pc[p] = "wait" /\ state[p] \in {"SLEEPING", "RUNNABLE"}
                       => state'[p] \in {"SLEEPING", "RUNNABLE"}

LEMMA ElsewherePlaces ==
  ASSUME USemInv, NEW l, Elsewhere(l)
  PROVE  /\ PlacesInv' /\ pc' \in [Proc -> UPlaces]
         /\ \A p \in Proc : pc'[p] = "wait" <=> pc[p] = "wait"
<1>1. pc \in [Proc -> UPlaces] /\ current \in Proc /\ PlacesInv
  BY DEF USemInv, UType, SchedInv, TypeOK
<1>2. pc' \in [Proc -> UPlaces] /\ \A p \in Proc : pc'[p] = "wait" <=> pc[p] = "wait"
  BY <1>1 DEF Elsewhere
<1>3. PlacesInv'
  <2> SUFFICES ASSUME NEW p \in Proc
               PROVE  /\ mode'[p] = "user" <=> pc'[p] = "user"
                      /\ pc'[p] = "wait" => state'[p] \in {"SLEEPING", "RUNNABLE"}
                      /\ wait_state'[p] \in {"none", "WT_USEM"}
    BY DEF PlacesInv
  <2> QED
    BY <1>1, <1>2 DEF Elsewhere, PlacesInv
<1> QED
  BY <1>2, <1>3

LEMMA ElsewhereInv ==
  ASSUME USemInv, SchedInv', NEW l, Elsewhere(l),
         UNCHANGED <<semVars, valid, posted, taken>>,
         armed' \in SUBSET armed, panicked' \in BOOLEAN
  PROVE  USemInv' /\ Granted' = Granted
<1> USE DEF USemInv, semVars
<1>1. /\ PlacesInv' /\ pc' \in [Proc -> UPlaces]
      /\ \A p \in Proc : pc'[p] = "wait" <=> pc[p] = "wait"
  BY ElsewherePlaces
<1>2. UType'
  BY <1>1 DEF UType
<1>3. QueuedInv'
  <2>1. \A i \in 1..Len(wait_queue) : wait_queue[i] \in Proc
    BY DEF UType
  <2> QED
    BY <1>1, <2>1 DEF QueuedInv
<1>4. ArmedInv'
  BY <1>1 DEF ArmedInv, UType
<1>5. \A p \in Proc : wait_state'[p] = "WT_USEM" => wait_state[p] = "WT_USEM"
  BY DEF Elsewhere
<1>6. NoSleepOnUnit' /\ FreedWakesAll'
  BY <1>5 DEF NoSleepOnUnit, FreedWakesAll, Waiting
<1>7. Granted' = Granted
  BY <1>1 DEF Granted, inwait
<1> QED
  BY <1>1, <1>2, <1>3, <1>4, <1>6, <1>7

LEMMA TickElsewhere ==
  ASSUME USemInv, NEW S \in SUBSET armed, NEW expired \in BOOLEAN, TimerTick(S, expired)
  PROVE  Elsewhere("ret")
<1>1. /\ current \in Proc /\ state \in [Proc -> ProcState] /\ mode \in [Proc -> {"user", "kernel"}]
      /\ armed \in SUBSET Proc /\ PlacesInv
  BY DEF USemInv, UType, SchedInv, TypeOK
<1>2. /\ TimerIrq(S, expired)
      /\ IF mode[current] = "user" /\ ~switching THEN Goto("ret") ELSE UNCHANGED pc
  BY DEF TimerTick, Tick
<1>3. /\ \A p \in Proc : wait_state'[p] \in {wait_state[p], "none"}
      /\ \A p \in Proc : pc[p] = "wait" /\ state[p] \in {"SLEEPING", "RUNNABLE"}
                           => state'[p] \in {"SLEEPING", "RUNNABLE"}
  BY <1>1, <1>2 DEF TimerIrq, wakeup_proc
<1>4. CASE mode[current] = "user" /\ ~switching
  BY <1>1, <1>2, <1>3, <1>4 DEF TimerIrq, Goto, Elsewhere, PlacesInv, UPlaces
<1>5. CASE ~(mode[current] = "user" /\ ~switching)
  <2>1. \A p \in Proc : mode'[p] = mode[p]
    BY <1>1, <1>2, <1>5 DEF TimerIrq
  <2> QED
    BY <1>2, <1>3, <1>5, <2>1 DEF Elsewhere
<1> QED
  BY <1>4, <1>5

LEMMA RestElsewhere ==
  ASSUME USemInv, URest
  PROVE  \E l \in UPlaces : Elsewhere(l)
<1>0. /\ current \in Proc /\ state \in [Proc -> ProcState] /\ mode \in [Proc -> {"user", "kernel"}]
      /\ PlacesInv
  BY DEF USemInv, UType, SchedInv, TypeOK
<1>1. CASE Enter
  BY <1>0, <1>1 DEF Enter, TrapEnter, Goto, Elsewhere, PlacesInv, UPlaces
<1>2. CASE OtherCall
  BY <1>0, <1>2 DEF OtherCall, AtCall, InKernel, Goto, Elsewhere, UPlaces, schedVars
<1>3. CASE Leave
  BY <1>0, <1>3 DEF Leave, TrapExit, Goto, Elsewhere, UPlaces
<1>4. CASE Switch
  BY <1>0, <1>4 DEF Switch, schedule, CallSchedule, Elsewhere, UPlaces
<1>5. ASSUME NEW p \in Proc, KillCall(p) PROVE Elsewhere("ret")
  <2>1. UNCHANGED mode /\ mode[current] = "kernel" /\ pc[current] = "call" /\ Goto("ret")
    BY <1>5 DEF KillCall, AtCall, Kill, InKernel
  <2>2. /\ \A q \in Proc : wait_state'[q] \in {wait_state[q], "none"}
        /\ \A q \in Proc : state'[q] \in {state[q], "RUNNABLE"}
    BY <1>0, <1>5 DEF KillCall, Kill, wakeup_proc
  <2> QED
    BY <1>0, <2>1, <2>2 DEF Goto, Elsewhere, UPlaces
<1>6. CASE Die
  <2>1. UNCHANGED mode /\ mode[current] = "kernel" /\ pc[current] # "wait" /\ Goto("ret")
    BY <1>6 DEF Die, DieWaking, AtCall, Exit, InKernel
  <2>2. /\ \A q \in Proc : wait_state'[q] \in {wait_state[q], "none"}
        /\ \A q \in Proc \ {current} : state'[q] = state[q]
    BY <1>0, <1>6 DEF Die, DieWaking, Exit
  <2> QED
    BY <1>0, <2>1, <2>2 DEF Goto, Elsewhere, UPlaces
<1>7. "ret" \in UPlaces
  BY DEF UPlaces
<1> QED
  BY <1>1, <1>2, <1>3, <1>4, <1>5, <1>6, <1>7 DEF URest, OtherStep, LiveStep

-----------------------------------------------------------------------------
(* The operations                                                          *)

LEMMA TakeInv ==
  ASSUME USemInv, SchedInv', sem_wait_take
  PROVE  /\ USemInv' /\ Granted' = Granted
         /\ value' = value - 1 /\ taken' = taken + 1 /\ posted' = posted
<1>1. /\ pc[current] = "call" /\ pc' = [pc EXCEPT ![current] = "ret"]
      /\ value > 0 /\ value' = value - 1 /\ taken' = taken + 1
      /\ UNCHANGED <<schedVars, wait_queue, wakeup_flags, valid, armed, posted, panicked>>
      /\ mode[current] = "kernel"
  BY DEF sem_wait_take, AtCall, DownTake, InKernel, Goto
<1>2. wait_queue = <<>>
  BY <1>1 DEF USemInv, NoSleepOnUnit
<1>3. Elsewhere("ret")
  BY <1>1 DEF Elsewhere, UPlaces, schedVars
<1>4. /\ PlacesInv' /\ pc' \in [Proc -> UPlaces]
      /\ \A p \in Proc : pc'[p] = "wait" <=> pc[p] = "wait"
  BY <1>3, ElsewherePlaces
<1>5. value' \in Nat /\ taken' \in Nat
  BY <1>1 DEF USemInv, UType
<1>6. UType'
  BY <1>1, <1>4, <1>5 DEF USemInv, UType
<1>7. QueuedInv' /\ ArmedInv'
  BY <1>1, <1>2, <1>4 DEF USemInv, UType, QueuedInv, ArmedInv
<1>8. NoSleepOnUnit' /\ FreedWakesAll'
  BY <1>1, <1>2 DEF USemInv, NoSleepOnUnit, FreedWakesAll, Waiting, schedVars
<1>9. Granted' = Granted
  BY <1>1, <1>4 DEF Granted, inwait
<1> QED
  BY <1>1, <1>4, <1>6, <1>7, <1>8, <1>9 DEF USemInv

LEMMA SleepWaitInv ==
  ASSUME USemInv, SchedInv', NEW timed \in BOOLEAN, sem_wait_sleep(timed)
  PROVE  /\ USemInv' /\ Granted' = Granted
         /\ UNCHANGED <<value, taken, posted>>
<1> USE DEF USemInv
<1>1. /\ pc[current] = "call" /\ pc' = [pc EXCEPT ![current] = "wait"]
      /\ value <= 0 /\ current \in Proc /\ valid /\ mode[current] = "kernel"
      /\ wait_queue' = Append(wait_queue, current)
      /\ wakeup_flags' = [wakeup_flags EXCEPT ![current] = "WT_INTERRUPTED"]
      /\ UNCHANGED <<mode, value, valid, posted, taken, panicked>>
      /\ armed' \in SUBSET (armed \cup {current})
  BY DEF sem_wait_sleep, AtCall, DownSleep, Sleep, SleepAndWake, InKernel, Goto, SchedInv, TypeOK
<1>2. /\ wait_state'[current] = "WT_USEM" /\ state'[current] = "SLEEPING"
      /\ \A p \in Proc \ {current} : wait_state'[p] = wait_state[p] /\ state'[p] = state[p]
  BY DEF sem_wait_sleep, DownSleep, Sleep, SleepAndWake, NotRunnable, SchedInv, TypeOK
<1>3. UType'
  BY <1>1 DEF UType, UPlaces
<1>4. /\ Len(wait_queue') = Len(wait_queue) + 1 /\ wait_queue'[Len(wait_queue')] = current
      /\ \A i \in 1..Len(wait_queue) : wait_queue'[i] = wait_queue[i] /\ wait_queue[i] \in Proc
      /\ Len(wait_queue) \in Nat
  BY <1>1 DEF UType
<1>5. \A i \in 1..Len(wait_queue) : wait_queue[i] # current
  BY <1>1 DEF QueuedInv
<1>6. QueuedInv'
  <2>1. \A i \in 1..Len(wait_queue') :
           pc'[wait_queue'[i]] = "wait" /\ wakeup_flags'[wait_queue'[i]] = "WT_INTERRUPTED"
    BY <1>1, <1>4, <1>5 DEF QueuedInv, UType
  <2>2. \A i, j \in 1..Len(wait_queue') : wait_queue'[i] = wait_queue'[j] => i = j
    BY <1>4, <1>5 DEF QueuedInv
  <2> QED
    BY <2>1, <2>2 DEF QueuedInv
<1>7. \A p \in Proc : Waiting(p)' <=> (Waiting(p) \/ p = current)
  BY <1>4 DEF Waiting
<1>8. PlacesInv' /\ ArmedInv'
  BY <1>1, <1>2 DEF PlacesInv, ArmedInv, UType
<1>9. NoSleepOnUnit' /\ FreedWakesAll'
  <2>1. ~(value' > 0) /\ valid'
    BY <1>1 DEF UType
  <2> QED
    BY <1>2, <1>7, <2>1 DEF NoSleepOnUnit, FreedWakesAll
<1>10. Granted' = Granted
  BY <1>1 DEF Granted, inwait, UType
<1> QED
  BY <1>1, <1>3, <1>6, <1>8, <1>9, <1>10

\* wait_queue_del takes one process from the queue and keeps the others.
LEMMA UnlinkedFacts ==
  ASSUME UType, QueuedInv, NEW i \in 1..Len(wait_queue), wait_queue' = Unlinked(i)
  PROVE  /\ wait_queue' \in Seq(Proc)
         /\ \A j \in 1..Len(wait_queue') : \E k \in 1..Len(wait_queue) : wait_queue'[j] = wait_queue[k]
         /\ \A j, k \in 1..Len(wait_queue') : wait_queue'[j] = wait_queue'[k] => j = k
         /\ \A p \in Proc : Waiting(p)' <=> (Waiting(p) /\ p # wait_queue[i])
<1> DEFINE at(j) == IF j < i THEN j ELSE j + 1
           back(k) == IF k < i THEN k ELSE k - 1
<1>0. Len(wait_queue) \in Nat /\ wait_queue \in [1..Len(wait_queue) -> Proc]
  BY DEF UType
<1>1. \A j \in 1..(Len(wait_queue) - 1) : at(j) \in 1..Len(wait_queue) /\ at(j) # i
  BY <1>0
<1>2. wait_queue' = [j \in 1..(Len(wait_queue) - 1) |-> wait_queue[at(j)]]
  BY DEF Unlinked
<1>3. \A j, k \in 1..(Len(wait_queue) - 1) : at(j) = at(k) => j = k
  BY <1>0
<1>4. \A k \in 1..Len(wait_queue) : k # i => back(k) \in 1..(Len(wait_queue) - 1) /\ at(back(k)) = k
  BY <1>0
<1> HIDE DEF at, back
<1>5. wait_queue' \in Seq(Proc) /\ Len(wait_queue') = Len(wait_queue) - 1
  <2>1. wait_queue' \in [1..(Len(wait_queue) - 1) -> Proc] /\ Len(wait_queue) - 1 \in Nat
    BY <1>0, <1>1, <1>2
  <2> QED
    BY <2>1
<1>6. \A j \in 1..Len(wait_queue') : wait_queue'[j] = wait_queue[at(j)]
  BY <1>2, <1>5
<1>7. \A j, k \in 1..Len(wait_queue') : wait_queue'[j] = wait_queue'[k] => j = k
  BY <1>1, <1>3, <1>5, <1>6 DEF QueuedInv
<1>8. \A p \in Proc : Waiting(p)' <=> (Waiting(p) /\ p # wait_queue[i])
  <2> TAKE p \in Proc
  <2>1. ASSUME Waiting(p)' PROVE Waiting(p) /\ p # wait_queue[i]
    <3>1. PICK j \in 1..Len(wait_queue') : wait_queue'[j] = p
      BY <2>1 DEF Waiting
    <3>2. at(j) \in 1..Len(wait_queue) /\ at(j) # i /\ wait_queue[at(j)] = p
      BY <3>1, <1>1, <1>5, <1>6
    <3> QED
      BY <3>2 DEF Waiting, QueuedInv
  <2>2. ASSUME Waiting(p), p # wait_queue[i] PROVE Waiting(p)'
    <3>1. PICK k \in 1..Len(wait_queue) : wait_queue[k] = p
      BY <2>2 DEF Waiting
    <3>2. back(k) \in 1..Len(wait_queue') /\ wait_queue'[back(k)] = p
      BY <2>2, <3>1, <1>4, <1>5, <1>6
    <3> QED
      BY <3>2 DEF Waiting
  <2> QED
    BY <2>1, <2>2
<1> QED
  BY <1>1, <1>5, <1>6, <1>7, <1>8

LEMMA ResumeInv ==
  ASSUME USemInv, SchedInv', sem_wait_resume
  PROVE  /\ USemInv' /\ UNCHANGED <<value, posted>>
         /\ IF wakeup_flags[current] = "WT_USEM"
            THEN current \in Granted /\ Granted' = Granted \ {current} /\ taken' = taken + 1
            ELSE Granted' = Granted /\ taken' = taken
<1>1. /\ current \in Proc /\ pc[current] = "wait" /\ pc' = [pc EXCEPT ![current] = "ret"]
      /\ UNCHANGED <<schedVars, value, wakeup_flags, valid, posted, panicked>>
      /\ armed' = armed \ {current} /\ mode[current] = "kernel" /\ state[current] = "RUNNABLE"
      /\ taken' = IF wakeup_flags[current] = "WT_USEM" THEN taken + 1 ELSE taken
  BY DEF sem_wait_resume, DownResume, InKernel, Goto, inwait, USemInv, SchedInv, TypeOK, CurrentInv
<1> USE DEF USemInv
<1>2. wait_state[current] = "none"
  BY <1>1 DEF SchedInv, TypeOK, WaitStateInv
<1>3. /\ wait_queue' \in Seq(Proc)
      /\ \A j \in 1..Len(wait_queue') : \E k \in 1..Len(wait_queue) : wait_queue'[j] = wait_queue[k]
      /\ \A j, k \in 1..Len(wait_queue') : wait_queue'[j] = wait_queue'[k] => j = k
      /\ \A p \in Proc : Waiting(p)' <=> (Waiting(p) /\ p # current)
  <2>1. CASE Waiting(current)
    <3>1. PICK i \in 1..Len(wait_queue) : wait_queue[i] = current /\ wait_queue' = Unlinked(i)
      BY <2>1 DEF sem_wait_resume, DownResume
    <3> QED
      BY <3>1, UnlinkedFacts
  <2>2. CASE ~Waiting(current)
    <3>1. wait_queue' = wait_queue
      BY <2>2 DEF sem_wait_resume, DownResume
    <3> QED
      BY <2>2, <3>1 DEF Waiting, QueuedInv, UType
  <2> QED
    BY <2>1, <2>2
<1>4. \A j \in 1..Len(wait_queue') : wait_queue'[j] # current /\ wait_queue'[j] \in Proc
  <2> TAKE j \in 1..Len(wait_queue')
  <2>1. wait_queue'[j] \in Proc
    BY <1>3
  <2>2. \A p \in Proc : Waiting(p)' => p # current
    BY <1>3
  <2> QED
    BY <1>1, <2>1, <2>2 DEF Waiting
<1>5. taken' \in Nat
  BY <1>1 DEF UType
<1>6. UType'
  BY <1>1, <1>3, <1>5 DEF UType, UPlaces
<1>7. QueuedInv'
  <2>1. \A j \in 1..Len(wait_queue') :
           pc'[wait_queue'[j]] = "wait" /\ wakeup_flags'[wait_queue'[j]] = "WT_INTERRUPTED"
    BY <1>1, <1>3, <1>4 DEF QueuedInv, UType
  <2> QED
    BY <1>3, <2>1 DEF QueuedInv
<1>8. PlacesInv' /\ ArmedInv'
  BY <1>1 DEF PlacesInv, ArmedInv, UType, schedVars
<1>9. wait_queue = <<>> => wait_queue' = <<>>
  <2> SUFFICES ASSUME wait_queue = <<>> PROVE wait_queue' = <<>>
    OBVIOUS
  <2>1. \A j \in 1..Len(wait_queue') : FALSE
    BY <1>3
  <2>2. Len(wait_queue') = 0
    BY <1>3, <2>1
  <2> QED
    BY <1>3, <2>2
<1>10. NoSleepOnUnit'
  BY <1>1, <1>2, <1>3, <1>9 DEF NoSleepOnUnit, schedVars
<1>11. FreedWakesAll'
  BY <1>1, <1>9 DEF FreedWakesAll, schedVars
<1>12. IF wakeup_flags[current] = "WT_USEM"
       THEN current \in Granted /\ Granted' = Granted \ {current} /\ taken' = taken + 1
       ELSE Granted' = Granted /\ taken' = taken
  BY <1>1 DEF Granted, inwait, UType
<1> QED
  BY <1>1, <1>6, <1>7, <1>8, <1>10, <1>11, <1>12

\* What __up does when it hands its unit to the first waiter, h.
LEMMA UnitHandedOver ==
  ASSUME USemInv, UpHandOff("WT_USEM"), pc[current] = "call", Goto("ret"),
         wait_state[Head(wait_queue)] = "WT_USEM", NEW h, h = Head(wait_queue)
  PROVE  /\ h \in Proc /\ h # current /\ pc[h] = "wait" /\ h \notin Granted
         /\ wait_queue' \in Seq(Proc) /\ Len(wait_queue') = Len(wait_queue) - 1
         /\ Len(wait_queue) \in Nat \ {0} /\ h = wait_queue[1]
         /\ \A i \in 1..Len(wait_queue') : wait_queue'[i] = wait_queue[i + 1]
         /\ \A p \in Proc : Waiting(p) /\ p # h => Waiting(p)'
         /\ wait_state'[h] = "none" /\ state'[h] = "RUNNABLE"
         /\ \A p \in Proc \ {h} : wait_state'[p] = wait_state[p] /\ state'[p] = state[p]
<1> USE DEF USemInv
<1>1. Len(wait_queue) \in Nat \ {0} /\ h = wait_queue[1] /\ h \in Proc
  BY DEF UpHandOff, UType
<1>2. pc[h] = "wait" /\ wakeup_flags[h] = "WT_INTERRUPTED" /\ h # current /\ h \notin Granted
  BY <1>1 DEF QueuedInv, Granted
<1>3. /\ wait_queue' \in Seq(Proc) /\ Len(wait_queue') = Len(wait_queue) - 1
      /\ \A i \in 1..Len(wait_queue') : wait_queue'[i] = wait_queue[i + 1]
  BY <1>1 DEF UpHandOff, UType
<1>4. \A p \in Proc : Waiting(p) /\ p # h => Waiting(p)'
  <2> SUFFICES ASSUME NEW p \in Proc, Waiting(p), p # h PROVE Waiting(p)'
    OBVIOUS
  <2>1. PICK i \in 1..Len(wait_queue) : wait_queue[i] = p
    BY DEF Waiting
  <2>2. i - 1 \in 1..Len(wait_queue') /\ wait_queue'[i - 1] = wait_queue[(i - 1) + 1] /\ (i - 1) + 1 = i
    BY <1>1, <1>3, <2>1
  <2> QED
    BY <2>1, <2>2 DEF Waiting
<1>5. /\ wait_state'[h] = "none" /\ state'[h] = "RUNNABLE"
      /\ \A p \in Proc \ {h} : wait_state'[p] = wait_state[p] /\ state'[p] = state[p]
  <2>1. state[h] = "SLEEPING"
    BY <1>1 DEF SchedInv, WaitStateInv
  <2> QED
    BY <1>1, <2>1 DEF UpHandOff, Wakeup, wakeup_proc, NotRunnable, SchedInv, TypeOK
<1> QED
  BY <1>1, <1>2, <1>3, <1>4, <1>5

\* sem_post with a waiter that still waits.
LEMMA HandOverInv ==
  ASSUME USemConstants, USemInv, SchedInv', sem_post, UpHandOff("WT_USEM"), posted' = posted + 1,
         panicked' = panicked, wait_state[Head(wait_queue)] = "WT_USEM", NEW h, h = Head(wait_queue)
  PROVE  USemInv' /\ Granted' = Granted \cup {h}
<1> USE DEF USemInv
<1>1. /\ pc[current] = "call" /\ Goto("ret") /\ pc' = [pc EXCEPT ![current] = "ret"]
      /\ mode[current] = "kernel" /\ current \in Proc /\ posted < MaxPost
      /\ wakeup_flags' = [wakeup_flags EXCEPT ![h] = "WT_USEM"]
      /\ UNCHANGED <<value, mode, valid, armed, taken>>
  BY DEF sem_post, AtCall, UpHandOff, Wakeup, InKernel, Goto, SchedInv, TypeOK
<1>2. /\ h \in Proc /\ h # current /\ pc[h] = "wait" /\ h \notin Granted
      /\ wait_queue' \in Seq(Proc) /\ Len(wait_queue') = Len(wait_queue) - 1
      /\ Len(wait_queue) \in Nat \ {0} /\ h = wait_queue[1]
      /\ \A i \in 1..Len(wait_queue') : wait_queue'[i] = wait_queue[i + 1]
      /\ \A p \in Proc : Waiting(p) /\ p # h => Waiting(p)'
      /\ wait_state'[h] = "none" /\ state'[h] = "RUNNABLE"
      /\ \A p \in Proc \ {h} : wait_state'[p] = wait_state[p] /\ state'[p] = state[p]
  BY <1>1, UnitHandedOver
<1>3. UType'
  <2>1. posted' \in 0..MaxPost
    BY <1>1 DEF UType, USemConstants
  <2> QED
    BY <1>1, <1>2, <2>1 DEF UType, UPlaces
<1>4. QueuedInv'
  <2>1. \A i \in 1..Len(wait_queue') :
           /\ i + 1 \in 1..Len(wait_queue) /\ i + 1 # 1
           /\ wait_queue'[i] = wait_queue[i + 1] /\ wait_queue[i + 1] \in Proc
    BY <1>2 DEF UType
  <2>2. \A i \in 1..Len(wait_queue') : wait_queue'[i] # h
    BY <1>2, <2>1 DEF QueuedInv
  <2>3. \A i \in 1..Len(wait_queue') :
           pc'[wait_queue'[i]] = "wait" /\ wakeup_flags'[wait_queue'[i]] = "WT_INTERRUPTED"
    BY <1>1, <1>2, <2>1, <2>2 DEF QueuedInv, UType
  <2>4. ASSUME NEW i \in 1..Len(wait_queue'), NEW j \in 1..Len(wait_queue'),
               wait_queue'[i] = wait_queue'[j]
        PROVE  i = j
    <3>1. i + 1 = j + 1
      BY <2>1, <2>4 DEF QueuedInv
    <3> QED
      BY <1>2, <3>1
  <2> QED
    BY <2>3, <2>4 DEF QueuedInv
<1>5. PlacesInv' /\ ArmedInv'
  BY <1>1, <1>2 DEF PlacesInv, ArmedInv, UType
<1>6. NoSleepOnUnit' /\ FreedWakesAll'
  <2>1. ~(value > 0) /\ valid
    BY <1>2 DEF NoSleepOnUnit, FreedWakesAll, UType
  <2>2. \A p \in Proc : wait_state'[p] = "WT_USEM" => p # h /\ Waiting(p)
    BY <1>2 DEF NoSleepOnUnit
  <2> QED
    BY <1>1, <1>2, <2>1, <2>2 DEF NoSleepOnUnit, FreedWakesAll
<1>7. Granted' = Granted \cup {h}
  BY <1>1, <1>2 DEF Granted, inwait, UType
<1> QED
  BY <1>3, <1>4, <1>5, <1>6, <1>7

LEMMA PostInv ==
  ASSUME USemConstants, USemInv, SchedInv', sem_post
  PROVE  /\ USemInv' /\ taken' = taken
         /\ \/ Granted' = Granted /\ value' = value + 1 /\ posted' = posted + 1
            \/ Granted' = Granted /\ value' = value /\ posted' = posted
            \/ /\ \E h \in Proc \ Granted : Granted' = Granted \cup {h}
               /\ value' = value /\ posted' = posted + 1
<1>1. /\ pc[current] = "call" /\ pc' = [pc EXCEPT ![current] = "ret"] /\ posted < MaxPost
      /\ UNCHANGED <<valid, armed, taken>>
  BY DEF sem_post, AtCall, Goto
<1>2. CASE wait_queue = <<>>
  <2>1. /\ value' = value + 1 /\ posted' = posted + 1 /\ mode[current] = "kernel"
        /\ UNCHANGED <<schedVars, wait_queue, wakeup_flags, panicked>>
    BY <1>2 DEF sem_post, UpIncrement, UpHandOff, InKernel
  <2>2. Elsewhere("ret")
    BY <1>1, <2>1 DEF Elsewhere, UPlaces, schedVars
  <2>3. /\ PlacesInv' /\ pc' \in [Proc -> UPlaces]
        /\ \A p \in Proc : pc'[p] = "wait" <=> pc[p] = "wait"
    BY <2>2, ElsewherePlaces
  <2>4. value' \in Nat /\ posted' \in 0..MaxPost
    BY <1>1, <2>1 DEF USemInv, UType, USemConstants
  <2>5. UType'
    BY <1>1, <2>1, <2>3, <2>4 DEF USemInv, UType
  <2>6. QueuedInv' /\ ArmedInv'
    BY <1>1, <1>2, <2>1, <2>3 DEF USemInv, UType, QueuedInv, ArmedInv
  <2>7. NoSleepOnUnit' /\ FreedWakesAll'
    BY <1>1, <1>2, <2>1 DEF USemInv, NoSleepOnUnit, FreedWakesAll, Waiting, schedVars
  <2>8. Granted' = Granted
    BY <2>1, <2>3 DEF Granted, inwait
  <2> QED
    BY <1>1, <2>1, <2>3, <2>5, <2>6, <2>7, <2>8 DEF USemInv
<1>3. CASE wait_queue # <<>> /\ wait_state[Head(wait_queue)] = "WT_USEM"
  <2> DEFINE h == Head(wait_queue)
  <2>1. UpHandOff("WT_USEM") /\ posted' = posted + 1 /\ panicked' = panicked
    BY <1>3 DEF sem_post, UpIncrement
  <2>2. h \in Proc \ Granted
    BY <1>1, <1>3, <2>1, UnitHandedOver DEF sem_post
  <2>3. USemInv' /\ Granted' = Granted \cup {h}
    BY <1>3, <2>1, HandOverInv
  <2>4. value' = value
    BY <2>1 DEF UpHandOff
  <2> QED
    BY <1>1, <2>1, <2>2, <2>3, <2>4
<1>4. CASE wait_queue # <<>> /\ wait_state[Head(wait_queue)] # "WT_USEM"
  <2>1. UNCHANGED <<schedVars, semVars, posted>> /\ panicked' = TRUE /\ mode[current] = "kernel"
    BY <1>4 DEF sem_post, InKernel
  <2>2. Elsewhere("ret")
    BY <1>1, <2>1 DEF Elsewhere, UPlaces, schedVars
  <2>3. panicked' \in BOOLEAN
    BY <2>1
  <2> QED
    BY <1>1, <2>1, <2>2, <2>3, ElsewhereInv DEF semVars
<1> QED
  BY <1>2, <1>3, <1>4

LEMMA FreeInv ==
  ASSUME USemInv, SchedInv', sem_free
  PROVE  USemInv' /\ Granted' = Granted /\ UNCHANGED <<value, taken, posted>>
<1>0. /\ current \in Proc /\ state \in [Proc -> ProcState] /\ PlacesInv
      /\ \A p \in Proc : wait_state[p] = "WT_USEM" => state[p] # "RUNNABLE" /\ Waiting(p)
  BY DEF USemInv, SchedInv, TypeOK, WaitStateInv, NoSleepOnUnit
<1>1. /\ pc[current] = "call" /\ pc' = [pc EXCEPT ![current] = "ret"] /\ mode[current] = "kernel"
      /\ valid' = FALSE /\ wait_queue' = <<>>
      /\ UNCHANGED <<mode, value, wakeup_flags, armed, posted, taken, panicked>>
  BY DEF sem_free, AtCall, Wakeup, InKernel, Goto
<1>2. \A p \in Proc : /\ wait_state'[p] \in {wait_state[p], "none"} /\ wait_state'[p] # "WT_USEM"
                      /\ state'[p] \in {state[p], "RUNNABLE"}
  BY <1>0 DEF sem_free, Wakeup, wakeup_proc, NotRunnable
<1>3. Elsewhere("ret")
  BY <1>1, <1>2 DEF Elsewhere, UPlaces
<1>4. /\ PlacesInv' /\ pc' \in [Proc -> UPlaces]
      /\ \A p \in Proc : pc'[p] = "wait" <=> pc[p] = "wait"
  BY <1>3, ElsewherePlaces
<1>5. UType'
  <2>1. valid' \in BOOLEAN
    BY <1>1
  <2>2. wait_queue' \in Seq(Proc)
    BY <1>1
  <2> QED
    BY <1>1, <1>4, <2>1, <2>2 DEF USemInv, UType
<1>6. QueuedInv' /\ ArmedInv'
  BY <1>1, <1>4 DEF USemInv, UType, QueuedInv, ArmedInv
<1>7. NoSleepOnUnit' /\ FreedWakesAll'
  BY <1>1, <1>2 DEF NoSleepOnUnit, FreedWakesAll
<1>8. Granted' = Granted
  BY <1>1, <1>4 DEF Granted, inwait
<1> QED
  BY <1>1, <1>4, <1>5, <1>6, <1>7, <1>8 DEF USemInv

\* Steps that neither use the semaphore nor run in usem_down.
LEMMA AsideInv ==
  ASSUME USemInv, SchedInv',
         \/ \E S \in SUBSET armed, expired \in BOOLEAN : TimerTick(S, expired)
         \/ URest \/ Halted \/ UNCHANGED uvars
  PROVE  USemInv' /\ Granted' = Granted /\ UNCHANGED <<value, taken, posted>>
<1>0. panicked \in BOOLEAN /\ armed \in SUBSET armed
  BY DEF USemInv, UType
<1>1. ASSUME NEW S \in SUBSET armed, NEW expired \in BOOLEAN, TimerTick(S, expired)
      PROVE  USemInv' /\ Granted' = Granted /\ UNCHANGED <<value, taken, posted>>
  <2>1. /\ UNCHANGED <<semVars, valid, posted, taken, panicked>> /\ armed' \in SUBSET armed
    BY <1>1 DEF TimerTick
  <2> QED
    BY <1>0, <1>1, <2>1, TickElsewhere, ElsewhereInv DEF semVars
<1>2. CASE URest
  <2>1. UNCHANGED <<semVars, valid, armed, posted, taken, panicked>>
    BY <1>2 DEF URest
  <2>2. PICK l \in UPlaces : Elsewhere(l)
    BY <1>2, RestElsewhere
  <2> QED
    BY <1>0, <2>1, <2>2, ElsewhereInv DEF semVars
<1>3. CASE Halted \/ UNCHANGED uvars
  <2>1. UNCHANGED <<schedVars, semVars, valid, pc, armed, posted, taken, panicked>>
    BY <1>3 DEF Halted, uvars, ipcVars
  <2>2. Elsewhere("ret")
    BY <2>1 DEF Elsewhere, schedVars
  <2> QED
    BY <1>0, <2>1, <2>2, ElsewhereInv DEF semVars
<1> QED
  BY <1>1, <1>2, <1>3

LEMMA USemStepInv == ASSUME USemConstants, USemInv, [USemNext]_uvars PROVE USemInv'
<1>1. SchedInv'
  BY USemSchedInv
<1> QED
  BY <1>1, TakeInv, SleepWaitInv, ResumeInv, PostInv, FreeInv, AsideInv DEF USemNext

\* The invariant of a user semaphore and its users holds for every set of
\* processes, every initial value and every number of posts.
THEOREM USemInvariant == ASSUME USemConstants PROVE USemSpec => []USemInv
  BY USemInitInv, USemStepInv, PTL DEF USemSpec

\* The system calls on a user semaphore keep to the scheduler's contract:
\* wakeup_proc is called on the waiters of sem_post and sem_free and on the
\* owners of timers only where its assertion allows it.
THEOREM USemImplementsSched == ASSUME USemConstants PROVE USemSpec => SchedSpec
<1>1. USemInit => SchedInit
  BY DEF USemInit
<1>2. USemInv /\ [USemNext]_uvars => [SchedNext]_schedVars
  BY USemSchedStep
<1> QED
  BY <1>1, <1>2, USemInvariant, PTL DEF USemSpec, SchedSpec

\* Nobody sleeps in usem_down on a semaphore that has a unit, or outside the
\* queue that __up looks at, whatever timers and kills do to the waiters.
THEOREM NoSleepOnUnitHolds == ASSUME USemConstants PROVE USemSpec => []NoSleepOnUnit
  BY USemInvariant, PTL DEF USemInv

\* After sem_free nobody is asleep on the semaphore or linked to it.
THEOREM FreedWakesAllHolds == ASSUME USemConstants PROVE USemSpec => []FreedWakesAll
  BY USemInvariant, PTL DEF USemInv

\* A linked timer belongs to a process inside usem_down that run_timer_list
\* may wake: ipc_del_timer comes before the timer_t goes out of scope.
THEOREM TimerOwnersHold == ASSUME USemConstants PROVE USemSpec => []TimerOwners
<1>1. USemInv => TimerOwners
  <2> SUFFICES ASSUME USemInv, NEW p \in armed
               PROVE  /\ p \in inwait
                      /\ \/ state[p] = "RUNNABLE"
                         \/ state[p] = "SLEEPING" /\ wait_state[p] \in Interruptible
    BY DEF TimerOwners, IrqWakes
  <2>1. p \in Proc /\ pc[p] = "wait" /\ state[p] \in {"SLEEPING", "RUNNABLE"}
    BY DEF USemInv, UType, ArmedInv, PlacesInv
  <2>2. state[p] = "SLEEPING" => wait_state[p] = "WT_USEM"
    BY <2>1 DEF USemInv, PlacesInv, SchedInv, WaitStateInv
  <2> QED
    BY <2>1, <2>2 DEF inwait, USemConstants
<1> QED
  BY <1>1, USemInvariant, PTL

-----------------------------------------------------------------------------
(* Counting the units                                                      *)

TokensInv == IsFiniteSet(Granted) /\ TokensConserved

LEMMA TokensInit == ASSUME USemConstants, USemInit PROVE TokensInv
<1>1. Granted = {}
  BY DEF USemInit, SemInit, Granted, inwait
<1> QED
  BY <1>1, FS_EmptySet DEF TokensInv, TokensConserved, USemConstants, USemInit, SemInit

LEMMA TokensStep ==
  ASSUME USemConstants, USemInv, TokensInv, [USemNext]_uvars PROVE TokensInv'
<1>0. /\ Cardinality(Granted) \in Nat /\ value \in Nat /\ taken \in Nat /\ posted \in Nat
      /\ InitValue \in Nat /\ value + Cardinality(Granted) + taken = InitValue + posted
      /\ IsFiniteSet(Granted)
  BY FS_CardinalityType DEF TokensInv, TokensConserved, USemInv, UType, USemConstants
<1>1. SchedInv'
  BY USemSchedInv
<1>2. CASE sem_wait_take
  BY <1>0, <1>1, <1>2, TakeInv DEF TokensInv, TokensConserved
<1>3. ASSUME NEW timed \in BOOLEAN, sem_wait_sleep(timed) PROVE TokensInv'
  BY <1>0, <1>1, <1>3, SleepWaitInv DEF TokensInv, TokensConserved
<1>4. CASE sem_wait_resume
  <2>1. CASE wakeup_flags[current] = "WT_USEM"
    <3>1. /\ current \in Granted /\ Granted' = Granted \ {current}
          /\ taken' = taken + 1 /\ value' = value /\ posted' = posted
      BY <1>1, <1>4, <2>1, ResumeInv
    <3>2. IsFiniteSet(Granted') /\ Cardinality(Granted') = Cardinality(Granted) - 1
      BY <1>0, <3>1, FS_RemoveElement
    <3> QED
      BY <1>0, <3>1, <3>2 DEF TokensInv, TokensConserved
  <2>2. CASE wakeup_flags[current] # "WT_USEM"
    BY <1>0, <1>1, <1>4, <2>2, ResumeInv DEF TokensInv, TokensConserved
  <2> QED
    BY <2>1, <2>2
<1>5. CASE sem_post
  <2>1. ASSUME NEW h \in Proc \ Granted, Granted' = Granted \cup {h}, value' = value,
               posted' = posted + 1, taken' = taken
        PROVE  TokensInv'
    <3>1. IsFiniteSet(Granted') /\ Cardinality(Granted') = Cardinality(Granted) + 1
      BY <1>0, <2>1, FS_AddElement
    <3>2. value' + Cardinality(Granted') + taken' = InitValue + posted'
      BY <1>0, <2>1, <3>1
    <3> QED
      BY <3>1, <3>2 DEF TokensInv, TokensConserved
  <2>2. ASSUME Granted' = Granted, value' = value + 1, posted' = posted + 1, taken' = taken
        PROVE  TokensInv'
    <3> DEFINE c == Cardinality(Granted)
    <3>1. c \in Nat /\ value + c + taken = InitValue + posted
      BY <1>0
    <3> HIDE DEF c
    <3>2. (value + 1) + c + taken = InitValue + (posted + 1)
      BY <1>0, <3>1
    <3> QED
      BY <1>0, <2>2, <3>2 DEF TokensInv, TokensConserved, c
  <2>3. ASSUME Granted' = Granted, value' = value, posted' = posted, taken' = taken
        PROVE  TokensInv'
    BY <1>0, <2>3 DEF TokensInv, TokensConserved
  <2> QED
    BY <1>1, <1>5, <2>1, <2>2, <2>3, PostInv
<1>6. CASE sem_free
  BY <1>0, <1>1, <1>6, FreeInv DEF TokensInv, TokensConserved
<1>7. ASSUME \/ \E S \in SUBSET armed, expired \in BOOLEAN : TimerTick(S, expired)
             \/ URest \/ Halted \/ UNCHANGED uvars
      PROVE  TokensInv'
  BY <1>0, <1>1, <1>7, AsideInv DEF TokensInv, TokensConserved
<1> QED
  BY <1>2, <1>3, <1>4, <1>5, <1>6, <1>7 DEF USemNext

\* Each post is worth one wait, for every number of processes and posts: a
\* unit is in value, on its way to one waiter that __up chose, or taken;
\* timeouts, kills and sem_free neither take one nor make one.
THEOREM TokensConservedHolds == ASSUME USemConstants PROVE USemSpec => []TokensConserved
<1>1. TokensInv => TokensConserved
  BY DEF TokensInv
<1> QED
  BY <1>1, TokensInit, TokensStep, USemInvariant, PTL DEF USemSpec

=============================================================================

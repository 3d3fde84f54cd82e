--------------------------- MODULE ProcessProofs ---------------------------
(* Parents, thread groups and do_wait for any number of processes.  What   *)
(* makes the family tree hold together in the middle of do_fork is that a  *)
(* proc_struct under construction belongs to a process that is in do_fork  *)
(* for it, and therefore does not exit; what makes it hold in __do_exit is *)
(* that a process that is not alone in its thread group is alive.          *)
EXTENDS Process, SchedProofs

Alive == {"SLEEPING", "RUNNABLE"}

Places == {"user", "call", "fork", "wait", "exit", "groupexit", "ret"}

LifeType ==
  /\ parent \in [Proc -> Proc] /\ thread_group \in [Proc -> SUBSET Proc]
  /\ pc \in [Proc -> Places] /\ target \in [Proc -> SUBSET Proc]
  /\ halted \in {"no", "panic", "quit"} /\ forks \in 0..MaxForks

ModesInv ==
  \A p \in Proc : /\ mode[p] = "user" <=> pc[p] = "user"
                  /\ state[p] \in {"FREE", "UNINIT"} => mode[p] = StartMode(p)

\* Where a kernel thread can be.
KPlaces(p) == IF p = initproc THEN {"call", "ret", "wait"} ELSE {"call"}

\* Kernel threads neither fork nor exit; initproc is there, and alone.
KThreadsInv ==
  /\ \A p \in KThread : state[p] \in {"FREE"} \cup Alive /\ pc[p] \in KPlaces(p)
  /\ state[initproc] \in Alive /\ thread_group[initproc] = {initproc}

\* A process under construction has a creator, which is in do_fork for it
\* and for no other.
ForksInv ==
  \A n \in Proc : state[n] = "UNINIT" =>
    /\ pc[parent[n]] = "fork"
    /\ \A m \in Proc : state[m] = "UNINIT" /\ parent[m] = parent[n] => m = n

ProcessInv ==
  /\ SchedInv /\ LifeType /\ ModesInv /\ KThreadsInv /\ ForksInv
  /\ ParentAlive /\ ThreadGroups /\ NoLostChild

\* nr_process follows what set_links and remove_links do.
Counted ==
  \/ Linked' = Linked /\ nr_process' = nr_process
  \/ \E n \in Proc \ Linked : Linked' = Linked \cup {n} /\ nr_process' = nr_process + 1
  \/ \E n \in Linked : Linked' = Linked \ {n} /\ nr_process' = nr_process - 1

-----------------------------------------------------------------------------

LEMMA ProcessInitInv == ASSUME ProcessInit PROVE ProcessInv
<1> USE ProcAssumption, ProcessAssumption DEF ProcessInit
<1>1. SchedInv
  BY InitInv
<1>2. LifeType
  BY DEF LifeType, Places, PcInit
<1>3. ModesInv
  BY DEF ModesInv, SchedInit, PcInit, StartMode
<1>4. KThreadsInv
  BY DEF KThreadsInv, KPlaces, Alive, SchedInit, PcInit
<1>5. ForksInv /\ NoLostChild
  BY DEF ForksInv, NoLostChild, SchedInit
<1>6. ParentAlive
  BY DEF ParentAlive, SchedInit
<1>7. ThreadGroups
  BY DEF ThreadGroups
<1> QED
  BY <1>1, <1>2, <1>3, <1>4, <1>5, <1>6, <1>7 DEF ProcessInv

-----------------------------------------------------------------------------
(* Every step is one of the scheduler's                                    *)

LEMMA WaitRoundSched ==
  ASSUME NEW T, wait_round(T) PROVE SchedNext \/ UNCHANGED schedVars
<1>1. ASSUME NEW z \in Zombies(T), FreeProc(z) PROVE SchedNext
  <2>1. z \in Proc
    BY DEF Zombies, Kids, Linked
  <2> QED
    BY <1>1, <2>1 DEF SchedNext
<1>2. ASSUME Sleep("WT_CHILD") PROVE SchedNext
  BY <1>2, ProcessAssumption DEF Sleep, SchedNext, WaitState
<1> QED
  BY <1>1, <1>2 DEF wait_round

LEMMA ProcessSchedStep == ASSUME ProcessInv, [ProcessNext]_pvars PROVE [SchedNext]_schedVars
<1>0. LifeType /\ current \in Proc
  BY DEF ProcessInv, SchedInv, TypeOK
<1>1. ASSUME NEW n \in Proc, AllocProc(n) \/ FreeProc(n) \/ Wakeup({n}) \/ Kill({n}) PROVE SchedNext
  BY <1>1 DEF SchedNext
<1>2. ASSUME do_exit PROVE SchedNext
  <2>1. thread_group[current] \ (exiting \cup {current}) \in SUBSET Proc
    BY <1>0 DEF LifeType
  <2> QED
    BY <1>2, <2>1 DEF do_exit, SchedNext
<1>3. ASSUME NEW a \in Proc, __do_exit(a) PROVE SchedNext
  <2>1. ExitWakes(a) \in SUBSET Proc
    BY <1>0 DEF LifeType, ExitWakes
  <2> QED
    BY <1>3, <2>1 DEF __do_exit, SchedNext
<1>4. ASSUME AllocWait PROVE SchedNext
  BY <1>1, <1>4 DEF AllocWait, KSleep, KWake, Sleep, SchedNext, WaitState
<1>5. ASSUME SliceEnds PROVE SchedNext
  BY <1>5 DEF SliceEnds, Tick, SchedNext
<1>6. ASSUME Dispatch PROVE SchedNext \/ UNCHANGED schedVars
  BY <1>6 DEF Dispatch, Enter, OtherCall, Leave, Switch, SchedNext
<1>7. ASSUME init_loop PROVE SchedNext \/ UNCHANGED schedVars
  BY <1>7 DEF init_loop, SchedNext
<1>8. ASSUME (\E T : do_wait(T)) \/ wait_resume \/ init_wait PROVE SchedNext \/ UNCHANGED schedVars
  BY <1>8, WaitRoundSched DEF do_wait, wait_resume, init_wait
<1>9. ASSUME do_execve \/ do_exit_thread \/ may_killed \/ Halted \/ UNCHANGED pvars
      PROVE  UNCHANGED schedVars
  BY <1>9 DEF do_execve, do_exit_thread, may_killed, Halted, pvars, schedVars
<1>10. ASSUME NEW n \in Proc, fork_begin(n) \/ (\E thread \in BOOLEAN : fork_done(n, thread))
                              \/ fork_fail(n) \/ do_kill(n)
       PROVE  SchedNext
  BY <1>1, <1>10 DEF fork_begin, fork_done, fork_fail, do_kill
<1> QED
  BY <1>2, <1>3, <1>4, <1>5, <1>6, <1>7, <1>8, <1>9, <1>10 DEF ProcessNext

LEMMA ProcessSchedInv == ASSUME ProcessInv, [ProcessNext]_pvars PROVE SchedInv'
  BY ProcessSchedStep, StepInv DEF ProcessInv

-----------------------------------------------------------------------------
(* Steps that leave the family alone                                       *)

\* The current process goes to the place l, or stays where it is.
Moved(l) ==
  /\ pc' = [pc EXCEPT ![current] = l]
  /\ l \in Places /\ (l # pc[current] => pc[current] # "fork")
  /\ l = "user" <=> mode'[current] = "user"
  /\ current \in KThread => l \in KPlaces(current)
  /\ \A p \in Proc \ {current} : mode'[p] = mode[p]

LEMMA MovedInv ==
  ASSUME ProcessInv, SchedInv', NEW l, Moved(l),
         \A p \in Proc : state'[p] = state[p] \/ (state[p] \in Alive /\ state'[p] \in Alive)
  PROVE  /\ pc' \in [Proc -> Places] /\ ModesInv'
         /\ \A p \in Proc : pc[p] = "fork" => pc'[p] = "fork"
         /\ \A p \in KThread : state'[p] \in {"FREE"} \cup Alive /\ pc'[p] \in KPlaces(p)
<1>1. current \in Proc /\ state[current] \notin {"FREE", "UNINIT"} /\ pc \in [Proc -> Places]
  BY DEF ProcessInv, SchedInv, TypeOK, CurrentInv, LifeType
<1>2. pc' \in [Proc -> Places]
  BY <1>1 DEF Moved
<1>3. \A p \in Proc : state'[p] \in {"FREE", "UNINIT"} => state[p] = state'[p] /\ p # current
  BY <1>1 DEF Alive
<1>4. ModesInv'
  BY <1>1, <1>3 DEF ProcessInv, ModesInv, Moved, StartMode
<1>5. \A p \in Proc : pc[p] = "fork" => pc'[p] = "fork"
  BY <1>1 DEF Moved
<1>6. \A p \in KThread : state'[p] \in {"FREE"} \cup Alive /\ pc'[p] \in KPlaces(p)
  BY <1>1, ProcAssumption DEF Moved, ProcessInv, KThreadsInv
<1> QED
  BY <1>2, <1>4, <1>5, <1>6

LEMMA QuietInv ==
  ASSUME ProcessInv, SchedInv', NEW l, Moved(l),
         UNCHANGED <<parent, thread_group, nr_process, forks>>,
         \A p \in Proc : state'[p] = state[p] \/ (state[p] \in Alive /\ state'[p] \in Alive),
         target' \in [Proc -> SUBSET Proc], halted' \in {"no", "panic", "quit"},
         \A p \in Proc : wait_state'[p] = "WT_CHILD" =>
           ~ \E z \in target'[p] : state[z] = "ZOMBIE" /\ parent[z] \in thread_group[p]
  PROVE  ProcessInv' /\ Counted
<1> USE DEF ProcessInv
<1>1. /\ pc' \in [Proc -> Places] /\ ModesInv'
      /\ \A p \in Proc : pc[p] = "fork" => pc'[p] = "fork"
      /\ \A p \in KThread : state'[p] \in {"FREE"} \cup Alive /\ pc'[p] \in KPlaces(p)
  BY MovedInv
<1>2. /\ \A p \in Proc : state[p] \in Alive <=> state'[p] \in Alive
      /\ \A p \in Proc : ~ (state[p] \in Alive) => state'[p] = state[p]
  BY DEF Alive
<1>3. LifeType'
  BY <1>1 DEF LifeType
<1>4. Linked' = Linked
  BY <1>2 DEF Linked, Alive
<1>5. Counted
  BY <1>4 DEF Counted
<1>6. KThreadsInv'
  BY <1>1, <1>2, ProcAssumption, ProcessAssumption DEF KThreadsInv
<1>7. \A p \in Proc : parent[p] \in Proc /\ thread_group[p] \subseteq Proc
  BY DEF LifeType
<1>8. \A p \in Proc : (state'[p] = "UNINIT" <=> state[p] = "UNINIT") /\ (state'[p] = "FREE" <=> state[p] = "FREE")
  BY <1>2 DEF Alive
<1>9. ForksInv'
  BY <1>1, <1>7, <1>8 DEF ForksInv
<1>10. ParentAlive'
  BY <1>2, <1>7, <1>8 DEF ParentAlive, Alive
<1>11. ThreadGroups'
  BY <1>2, <1>7 DEF ThreadGroups, Alive
<1>12. NoLostChild'
  <2>1. \A p \in Proc : \A z \in target'[p] : state'[z] = "ZOMBIE" => state[z] = "ZOMBIE"
    BY <1>2 DEF Alive
  <2> QED
    BY <2>1 DEF NoLostChild
<1> QED
  BY <1>1, <1>3, <1>5, <1>6, <1>9, <1>10, <1>11, <1>12

\* A step that wakes sleepers only, and no one starts to wait for a child.
LEMMA WakingInv ==
  ASSUME ProcessInv, SchedInv', NEW l, Moved(l),
         UNCHANGED <<parent, thread_group, nr_process, forks>>,
         \A p \in Proc : state'[p] = state[p] \/ (state[p] \in Alive /\ state'[p] \in Alive),
         target' = target \/ (~ switching /\ target' = [target EXCEPT ![current] = {}]),
         halted' \in {"no", "panic", "quit"},
         \A p \in Proc : wait_state'[p] = "WT_CHILD" => wait_state[p] = "WT_CHILD"
  PROVE  ProcessInv' /\ Counted
<1>0. target \in [Proc -> SUBSET Proc] /\ current \in Proc
  BY DEF ProcessInv, LifeType, SchedInv, TypeOK
<1>1. target' \in [Proc -> SUBSET Proc] /\ \A p \in Proc : target'[p] = target[p] \/ target'[p] = {}
  BY <1>0
<1>2. ASSUME NEW p \in Proc, wait_state'[p] = "WT_CHILD"
      PROVE  ~ \E z \in target'[p] : state[z] = "ZOMBIE" /\ parent[z] \in thread_group[p]
  BY <1>1, <1>2 DEF ProcessInv, NoLostChild
<1> QED
  BY <1>1, <1>2, QuietInv

\* What wakeup_proc does when it is called on sleepers.
LEMMA WakesSleepers ==
  ASSUME ProcessInv, NEW S \in SUBSET Proc, wakeup_proc(S), \A p \in S : wait_state[p] # "none"
  PROVE  /\ \A p \in Proc : state'[p] = state[p] \/ (state[p] \in Alive /\ state'[p] \in Alive)
         /\ \A p \in Proc : wait_state'[p] = "WT_CHILD" => wait_state[p] = "WT_CHILD"
<1>1. \A p \in S : state[p] = "SLEEPING"
  BY DEF ProcessInv, SchedInv, WaitStateInv
<1> QED
  BY <1>1 DEF wakeup_proc, Alive, NotRunnable

LEMMA KillWakes ==
  ASSUME ProcessInv, NEW S \in SUBSET Proc, Kill(S)
  PROVE  /\ \A p \in Proc : state'[p] = state[p] \/ (state[p] \in Alive /\ state'[p] \in Alive)
         /\ \A p \in Proc : wait_state'[p] = "WT_CHILD" => wait_state[p] = "WT_CHILD"
<1>1. {p \in S : wait_state[p] \in Interruptible} \in SUBSET Proc
  OBVIOUS
<1> QED
  BY <1>1, WakesSleepers, WaitAssumption DEF Kill

\* The current process comes to another place of its system call.
LEMMA GotoMoved ==
  ASSUME ProcessInv, NEW l \in Places \ {"user"}, Goto(l), mode'[current] = "kernel",
         pc[current] # "fork", current \in KThread => l \in KPlaces(current),
         \A p \in Proc \ {current} : mode'[p] = mode[p]
  PROVE  Moved(l)
  BY DEF Goto, Moved

LEMMA StayMoved ==
  ASSUME ProcessInv, UNCHANGED <<pc, mode>>
  PROVE  Moved(pc[current])
<1>1. pc \in [Proc -> Places] /\ current \in Proc
  BY DEF ProcessInv, LifeType, SchedInv, TypeOK
<1> QED
  BY <1>1 DEF Moved, ProcessInv, ModesInv, KThreadsInv

LEMMA CallsInv ==
  ASSUME ProcessInv, SchedInv',
         \/ do_exit \/ do_exit_thread \/ may_killed \/ (\E p \in Proc : do_kill(p))
  PROVE  ProcessInv' /\ Counted
<1>0. current \in Proc /\ thread_group[current] \subseteq Proc
  BY DEF ProcessInv, LifeType, SchedInv, TypeOK
<1>1. CASE do_exit
  <2> DEFINE S == thread_group[current] \ (exiting \cup {current})
  <2>1. S \in SUBSET Proc /\ Kill(S)
    BY <1>0, <1>1 DEF do_exit
  <2> HIDE DEF S
  <2>2. Moved("groupexit")
    BY <1>1, <2>1, GotoMoved DEF do_exit, Calling, AtCall, Kill, InKernel, Places
  <2>3. UNCHANGED <<parent, thread_group, nr_process, forks, target, halted>> /\ halted = "no"
    BY <1>1 DEF do_exit, Calling
  <2> QED
    BY <2>1, <2>2, <2>3, KillWakes, WakingInv
<1>2. CASE do_exit_thread
  <2>1. UNCHANGED <<state, wait_state, mode>> /\ InKernel
    BY <1>2 DEF do_exit_thread, schedVars
  <2>2. Moved("exit")
    BY <1>2, <2>1, GotoMoved DEF do_exit_thread, Calling, AtCall, InKernel, Places
  <2>3. UNCHANGED <<parent, thread_group, nr_process, forks, target, halted>> /\ halted = "no"
    BY <1>2 DEF do_exit_thread, Calling
  <2> QED
    BY <2>1, <2>2, <2>3, WakingInv
<1>3. CASE may_killed
  <2>1. /\ UNCHANGED <<state, wait_state, mode>> /\ InKernel
        /\ UNCHANGED <<parent, thread_group, nr_process, forks>> /\ halted = "no"
    BY <1>3 DEF may_killed, schedVars
  <2>2. CASE current = initproc
    <3>1. Moved(pc[current])
      BY <1>3, <2>1, <2>2, StayMoved DEF may_killed
    <3> QED
      BY <1>3, <2>1, <2>2, <3>1, WakingInv DEF may_killed
  <2>3. CASE current # initproc
    <3>1. current \notin KThread
      <4>1. pc[current] \in {"ret", "wait"} /\ current \in exiting
        BY <1>3 DEF may_killed
      <4> QED
        BY <2>3, <4>1 DEF ProcessInv, KThreadsInv, KPlaces
    <3>2. Moved("exit")
      BY <1>3, <2>1, <2>3, <3>1, GotoMoved DEF may_killed, InKernel, Places
    <3> QED
      BY <1>3, <2>1, <2>3, <3>2, WakingInv DEF may_killed, InKernel
  <2> QED
    BY <2>2, <2>3
<1>4. ASSUME NEW p \in Proc, do_kill(p) PROVE ProcessInv' /\ Counted
  <2>1. Kill({p})
    BY <1>4 DEF do_kill
  <2>2. Moved("ret")
    BY <1>4, <2>1, GotoMoved DEF do_kill, Calling, AtCall, Kill, InKernel, Places
  <2>3. UNCHANGED <<parent, thread_group, nr_process, forks, target, halted>> /\ halted = "no"
    BY <1>4 DEF do_kill, Calling
  <2> QED
    BY <2>1, <2>2, <2>3, KillWakes, WakingInv
<1> QED
  BY <1>1, <1>2, <1>3, <1>4

\* Sleeping in the middle of do_fork or __do_exit, ticks, and the ways into
\* and out of the kernel.
LEMMA OthersInv ==
  ASSUME ProcessInv, SchedInv', AllocWait \/ SliceEnds \/ Dispatch
  PROVE  ProcessInv' /\ Counted
<1>0. /\ current \in Proc /\ pc \in [Proc -> Places] /\ state[current] \notin {"FREE", "UNINIT"}
      /\ state \in [Proc -> ProcState] /\ mode \in [Proc -> {"user", "kernel"}]
      /\ mode[current] = "user" <=> pc[current] = "user"
      /\ current \in KThread => pc[current] \in KPlaces(current)
  BY DEF ProcessInv, LifeType, SchedInv, TypeOK, CurrentInv, ModesInv, KThreadsInv
<1>1. UNCHANGED <<parent, thread_group, nr_process, forks, target, halted>> /\ halted = "no"
  BY DEF AllocWait, SliceEnds, Dispatch
<1>2. ASSUME NEW w \in Uninterruptible, KSleep(w, {"fork", "exit", "groupexit"}) PROVE ProcessInv' /\ Counted
  <2>1. UNCHANGED <<pc, mode>> /\ state[current] = "RUNNABLE" /\ w # "WT_CHILD"
    BY <1>2, WaitAssumption, ProcessAssumption
    DEF KSleep, Sleep, SleepAndWake, InKernel, ProcessInv, SchedInv, CurrentInv
  <2>2. /\ state' = [p \in Proc |-> IF p = current THEN "SLEEPING" ELSE state[p]]
        /\ wait_state' = [p \in Proc |-> IF p = current THEN w ELSE wait_state[p]]
    BY <1>2 DEF KSleep, Sleep, SleepAndWake, NotRunnable
  <2>3. /\ \A p \in Proc : state'[p] = state[p] \/ (state[p] \in Alive /\ state'[p] \in Alive)
        /\ \A p \in Proc : wait_state'[p] = "WT_CHILD" => wait_state[p] = "WT_CHILD"
    BY <2>1, <2>2 DEF Alive
  <2> QED
    BY <1>1, <2>1, <2>3, StayMoved, WakingInv
<1>3. ASSUME NEW p \in Proc, KWake(p) PROVE ProcessInv' /\ Counted
  <2>1. wakeup_proc({p}) /\ wait_state[p] # "none" /\ UNCHANGED <<pc, mode>>
    BY <1>3, WaitAssumption DEF KWake, Wakeup
  <2>2. /\ \A q \in Proc : state'[q] = state[q] \/ (state[q] \in Alive /\ state'[q] \in Alive)
        /\ \A q \in Proc : wait_state'[q] = "WT_CHILD" => wait_state[q] = "WT_CHILD"
    BY <2>1, WakesSleepers
  <2> QED
    BY <1>1, <2>1, <2>2, StayMoved, WakingInv
<1>4. CASE SliceEnds
  <2>1. /\ wakeup_proc({}) /\ ~ switching
        /\ mode' = [mode EXCEPT ![current] = "kernel"]
        /\ IF mode[current] = "user" THEN Goto("ret") ELSE UNCHANGED pc
    BY <1>4 DEF SliceEnds, Tick, TimerIrq
  <2>2. /\ \A q \in Proc : state'[q] = state[q] \/ (state[q] \in Alive /\ state'[q] \in Alive)
        /\ \A q \in Proc : wait_state'[q] = "WT_CHILD" => wait_state[q] = "WT_CHILD"
    BY <2>1, WakesSleepers
  <2>3. CASE mode[current] = "user"
    <3>1. current \notin KThread
      BY <1>0, <2>3 DEF KPlaces
    <3>2. Moved("ret")
      BY <1>0, <2>1, <2>3, <3>1, GotoMoved DEF Places
    <3> QED
      BY <1>1, <2>2, <3>2, WakingInv
  <2>4. CASE mode[current] # "user"
    <3>1. mode' = mode /\ pc' = pc
      BY <1>0, <2>1, <2>4
    <3> QED
      BY <1>1, <2>2, <3>1, StayMoved, WakingInv
  <2> QED
    BY <2>3, <2>4
<1>5. CASE Dispatch
  <2>1. state' = state /\ wait_state' = wait_state
    BY <1>5 DEF Dispatch, Enter, TrapEnter, OtherCall, Leave, TrapExit, Switch, schedule,
                CallSchedule, schedVars
  <2>2. \E l : Moved(l)
    <3>1. CASE Enter
      <4>1. current \notin KThread /\ mode'[current] = "kernel" /\ pc[current] # "fork"
        BY <1>0, <3>1 DEF Enter, TrapEnter, KPlaces
      <4>2. Moved("call")
        BY <1>0, <3>1, <4>1, GotoMoved DEF Enter, TrapEnter, Places
      <4> QED
        BY <4>2
    <3>2. CASE OtherCall
      <4>1. Moved("ret")
        BY <1>0, <3>2, GotoMoved DEF OtherCall, AtCall, InKernel, Places, schedVars
      <4> QED
        BY <4>1
    <3>3. CASE Leave
      <4>1. Moved("user")
        BY <1>0, <3>3 DEF Leave, TrapExit, Goto, Moved, Places
      <4> QED
        BY <4>1
    <3>4. CASE Switch
      BY <3>4, StayMoved DEF Switch, schedule, CallSchedule
    <3> QED
      BY <1>5, <3>1, <3>2, <3>3, <3>4 DEF Dispatch
  <2> QED
    BY <1>1, <2>1, <2>2, WakingInv
<1> QED
  BY <1>2, <1>3, <1>4, <1>5 DEF AllocWait

\* The loop of init_main: round again, or done.
LEMMA LoopInv == ASSUME ProcessInv, SchedInv', init_loop PROVE ProcessInv' /\ Counted
<1>0. /\ current \in Proc /\ target \in [Proc -> SUBSET Proc] /\ halted = "no"
      /\ current = initproc /\ pc[current] = "ret" /\ InKernel
      /\ UNCHANGED <<parent, thread_group, nr_process, target, forks>>
  BY DEF ProcessInv, LifeType, SchedInv, TypeOK, init_loop
<1>1. CASE nr_process # nr_process_store
  <2>1. CallSchedule /\ Goto("call") /\ halted' = halted
    BY <1>1 DEF init_loop
  <2>2. Moved("call")
    BY <1>0, <2>1, GotoMoved DEF CallSchedule, InKernel, Places, KPlaces
  <2> QED
    BY <1>0, <2>1, <2>2, WakingInv DEF CallSchedule
<1>2. CASE nr_process = nr_process_store
  <2>1. UNCHANGED schedVars /\ pc' = pc /\ halted' = "quit"
    BY <1>2 DEF init_loop
  <2>2. UNCHANGED <<state, wait_state, mode>>
    BY <2>1 DEF schedVars
  <2>3. Moved(pc[current])
    BY <2>1, <2>2, StayMoved
  <2> QED
    BY <1>0, <2>1, <2>2, <2>3, WakingInv
<1> QED
  BY <1>1, <1>2

\* do_wait goes to sleep, or finds that there is nobody to wait for.
LEMMA WaitsInv ==
  ASSUME ProcessInv, SchedInv', NEW T \in SUBSET Proc, halted = "no",
         pc[current] \in {"call", "wait"}, current \in KThread => current = initproc,
         UNCHANGED <<parent, nr_process, thread_group, halted, forks>>,
         \/ /\ Zombies(T) = {} /\ Sleep("WT_CHILD")
            /\ target' = [target EXCEPT ![current] = T] /\ Goto("wait")
         \/ /\ InKernel /\ UNCHANGED schedVars
            /\ target' = [target EXCEPT ![current] = {}] /\ Goto("ret")
  PROVE  ProcessInv' /\ Counted
<1>0. current \in Proc /\ target \in [Proc -> SUBSET Proc]
  BY DEF ProcessInv, LifeType, SchedInv, TypeOK
<1>1. ASSUME Zombies(T) = {}, Sleep("WT_CHILD"), target' = [target EXCEPT ![current] = T], Goto("wait")
      PROVE  ProcessInv' /\ Counted
  <2>1. InKernel /\ mode' = mode /\ state[current] = "RUNNABLE"
    BY <1>1 DEF Sleep, SleepAndWake, InKernel, ProcessInv, SchedInv, CurrentInv
  <2>2. /\ state' = [p \in Proc |-> IF p = current THEN "SLEEPING" ELSE state[p]]
        /\ wait_state' = [p \in Proc |-> IF p = current THEN "WT_CHILD" ELSE wait_state[p]]
    BY <1>1 DEF Sleep, SleepAndWake, NotRunnable
  <2>3. Moved("wait")
    BY <1>1, <2>1, GotoMoved DEF InKernel, Places, KPlaces
  <2>4. ASSUME NEW p \in Proc, wait_state'[p] = "WT_CHILD", NEW z \in target'[p], state[z] = "ZOMBIE",
               parent[z] \in thread_group[p]
        PROVE  FALSE
    <3>1. CASE p = current
      <4>1. z \in T /\ z \in Linked
        BY <1>0, <1>1, <2>4, <3>1 DEF Linked
      <4> QED
        BY <1>1, <2>4, <3>1, <4>1 DEF Zombies, Kids
    <3>2. CASE p # current
      BY <1>0, <1>1, <2>2, <2>4, <3>2 DEF ProcessInv, NoLostChild
    <3> QED
      BY <3>1, <3>2
  <2>5. target' \in [Proc -> SUBSET Proc]
    BY <1>0, <1>1
  <2>6. \A p \in Proc : state'[p] = state[p] \/ (state[p] \in Alive /\ state'[p] \in Alive)
    BY <2>1, <2>2 DEF Alive
  <2> QED
    BY <2>3, <2>4, <2>5, <2>6, QuietInv
<1>2. ASSUME InKernel, UNCHANGED schedVars, target' = [target EXCEPT ![current] = {}], Goto("ret")
      PROVE  ProcessInv' /\ Counted
  <2>1. UNCHANGED <<state, wait_state, mode>>
    BY <1>2 DEF schedVars
  <2>2. Moved("ret")
    BY <1>2, <2>1, GotoMoved DEF InKernel, Places, KPlaces
  <2> QED
    BY <1>2, <2>1, <2>2, WakingInv DEF InKernel
<1> QED
  BY <1>1, <1>2

-----------------------------------------------------------------------------
(* Steps that change the family                                            *)

\* A process that does not live is alone in its group, and has no children.
LEMMA DeadAlone ==
  ASSUME ProcessInv, NEW n \in Proc, state[n] \notin Alive
  PROVE  /\ thread_group[n] = {n} /\ n # idleproc
         /\ \A q \in Proc \ {n} : n \notin thread_group[q]
         /\ \A q \in Proc \ {idleproc} : state[q] # "FREE" => parent[q] # n
<1>1. \A q \in Proc \ {n} : n \notin thread_group[q]
  BY DEF ProcessInv, ThreadGroups, Alive
<1>2. thread_group[n] = {n}
  BY <1>1 DEF ProcessInv, ThreadGroups, LifeType
<1> QED
  BY <1>1, <1>2 DEF ProcessInv, ParentAlive, SchedInv, CurrentInv, Alive

\* Whoever takes system calls is not initproc, nor in a group with it.
LEMMA NotInit ==
  ASSUME ProcessInv, NEW p \in Proc \ {initproc}
  PROVE  initproc \notin thread_group[p] /\ initproc \in Proc
  BY ProcAssumption, ProcessAssumption DEF ProcessInv, KThreadsInv, ThreadGroups

LEMMA ForkBeginInv ==
  ASSUME ProcessInv, SchedInv', NEW n \in Proc \ KThread, fork_begin(n)
  PROVE  ProcessInv' /\ Counted
<1> USE DEF ProcessInv
<1>0. /\ current \in Proc /\ state[current] = "RUNNABLE" /\ mode[current] = "kernel"
      /\ pc[current] = "call" /\ current \notin KThread /\ halted = "no"
      /\ state[n] = "FREE" /\ state \in [Proc -> ProcState] /\ n # current
      /\ parent \in [Proc -> Proc] /\ pc \in [Proc -> Places]
  BY DEF fork_begin, Calling, AtCall, AllocProc, InKernel, SchedInv, TypeOK, CurrentInv, LifeType
<1>1. /\ state' = [state EXCEPT ![n] = "UNINIT"] /\ parent' = [parent EXCEPT ![n] = current]
      /\ pc' = [pc EXCEPT ![current] = "fork"] /\ forks' = forks + 1 /\ forks < MaxForks
      /\ UNCHANGED <<wait_state, mode, thread_group, nr_process, target, halted>>
  BY DEF fork_begin, AllocProc, Goto
<1>2. LifeType'
  BY <1>0, <1>1, ProcessAssumption DEF LifeType, Places
<1>3. Linked' = Linked
  BY <1>0, <1>1 DEF Linked
<1>4. Counted
  BY <1>1, <1>3 DEF Counted
<1>5. ModesInv'
  BY <1>0, <1>1 DEF ModesInv, StartMode
<1>6. KThreadsInv'
  BY <1>0, <1>1, ProcAssumption, ProcessAssumption DEF KThreadsInv
<1>7. \A m \in Proc : state[m] = "UNINIT" => parent[m] # current /\ m # n
  BY <1>0 DEF ForksInv
<1>8. ForksInv'
  BY <1>0, <1>1, <1>7 DEF ForksInv
<1>9. /\ thread_group[n] = {n} /\ n # idleproc
      /\ \A q \in Proc \ {n} : n \notin thread_group[q]
      /\ \A q \in Proc \ {idleproc} : state[q] # "FREE" => parent[q] # n
  BY <1>0, DeadAlone DEF Alive
<1>10. ParentAlive'
  BY <1>0, <1>1, <1>9 DEF ParentAlive
<1>11. ThreadGroups'
  BY <1>0, <1>1, <1>9 DEF ThreadGroups, LifeType
<1>12. NoLostChild'
  BY <1>0, <1>1 DEF NoLostChild, LifeType
<1> QED
  BY <1>2, <1>4, <1>5, <1>6, <1>8, <1>10, <1>11, <1>12

LEMMA JoinedGroups ==
  ASSUME ProcessInv, NEW n \in Proc, state[n] = "UNINIT", current \in Proc, current # initproc,
         current \in thread_group[current]
  PROVE  /\ Joined(n) \in [Proc -> SUBSET Proc] /\ Joined(n)[initproc] = thread_group[initproc]
         /\ \A p \in Proc : p \in Joined(n)[p] /\ (p \notin thread_group[current] \cup {n} =>
                                                   Joined(n)[p] = thread_group[p])
         /\ \A p \in Proc, q \in Proc : q \in Joined(n)[p] => Joined(n)[q] = Joined(n)[p]
         /\ \A p \in Proc, q \in Proc : q \in Joined(n)[p] => q = n \/ p = n \/ q \in thread_group[p]
         /\ \A q \in Proc : q \in Joined(n)[n] => q = n \/ q \in thread_group[current]
<1>1. /\ thread_group \in [Proc -> SUBSET Proc] /\ thread_group[n] = {n}
      /\ \A q \in Proc \ {n} : n \notin thread_group[q]
  BY DeadAlone DEF ProcessInv, LifeType, Alive
<1>2. initproc \notin thread_group[current] \cup {n} /\ initproc \in Proc
  BY NotInit DEF ProcessInv, KThreadsInv, Alive
<1>3. \A p \in Proc : p \in thread_group[p] /\ \A q \in thread_group[p] : thread_group[q] = thread_group[p]
  BY DEF ProcessInv, ThreadGroups
<1> DEFINE G == thread_group[current] \cup {n}
<1>4. G \in SUBSET Proc /\ Joined(n) = [p \in Proc |-> IF p \in G THEN G ELSE thread_group[p]]
  BY <1>1 DEF Joined
<1>5. \A p \in Proc \ G : \A q \in thread_group[p] : q \notin G
  BY <1>1, <1>3
<1>6. \A p \in thread_group[current] : thread_group[p] = thread_group[current]
  BY <1>3
<1> HIDE DEF G
<1>7. \A p \in Proc, q \in Proc : q \in Joined(n)[p] => Joined(n)[q] = Joined(n)[p]
  BY <1>3, <1>4, <1>5
<1>8. Joined(n) \in [Proc -> SUBSET Proc] /\ \A p \in Proc : p \in Joined(n)[p]
  BY <1>1, <1>3, <1>4
<1>9. \A p \in Proc, q \in Proc : q \in Joined(n)[p] => q = n \/ p = n \/ q \in thread_group[p]
  BY <1>4, <1>6 DEF G
<1>10. Joined(n)[initproc] = thread_group[initproc]
  BY <1>2, <1>4 DEF G
<1>11. \A q \in Proc : q \in Joined(n)[n] => q = n \/ q \in thread_group[current]
  BY <1>4 DEF G
<1>12. \A p \in Proc : p \notin thread_group[current] \cup {n} => Joined(n)[p] = thread_group[p]
  BY <1>4 DEF G
<1> QED
  BY <1>7, <1>8, <1>9, <1>10, <1>11, <1>12

=============================================================================

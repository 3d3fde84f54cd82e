------------------------ MODULE ProcessFamilyProofs ------------------------
(* fork, wait, exec and exit keep the family together, and with the quiet  *)
(* steps of ProcessProofs every step does: ProcessInv is inductive.        *)
EXTENDS ProcessProofs

LEMMA ForkDoneInv ==
  ASSUME ProcessInv, SchedInv', NEW n \in Proc, NEW thread \in BOOLEAN, fork_done(n, thread)
  PROVE  ProcessInv' /\ Counted
<1> USE DEF ProcessInv
<1>0. /\ current \in Proc /\ state[current] = "RUNNABLE" /\ mode[current] = "kernel"
      /\ pc[current] = "fork" /\ halted = "no" /\ state[n] = "UNINIT" /\ parent[n] = current
      /\ state \in [Proc -> ProcState] /\ n # current
      /\ parent \in [Proc -> Proc] /\ pc \in [Proc -> Places] /\ target \in [Proc -> SUBSET Proc]
  BY DEF fork_done, Wakeup, InKernel, SchedInv, TypeOK, CurrentInv, LifeType
<1>1. current \notin KThread /\ n \notin KThread /\ current # initproc /\ current \in thread_group[current]
  BY <1>0, ProcessAssumption DEF KThreadsInv, KPlaces, Alive, ThreadGroups
<1>2. /\ state' = [p \in Proc |-> IF p = n THEN "RUNNABLE" ELSE state[p]]
      /\ wait_state' = [p \in Proc |-> IF p = n THEN "none" ELSE wait_state[p]]
      /\ pc' = [pc EXCEPT ![current] = "ret"] /\ nr_process' = nr_process + 1
      /\ thread_group' = IF thread THEN Joined(n) ELSE thread_group
      /\ UNCHANGED <<mode, parent, target, halted, forks>>
  BY <1>0 DEF fork_done, Wakeup, wakeup_proc, NotRunnable, Goto
<1>3. /\ thread_group[n] = {n} /\ n # idleproc
      /\ \A q \in Proc \ {n} : n \notin thread_group[q]
      /\ \A q \in Proc \ {idleproc} : state[q] # "FREE" => parent[q] # n
  BY <1>0, DeadAlone DEF Alive
<1>4. /\ thread_group' \in [Proc -> SUBSET Proc] /\ thread_group'[initproc] = thread_group[initproc]
      /\ \A p \in Proc : p \in thread_group'[p]
      /\ \A p \in Proc, q \in Proc : q \in thread_group'[p] => thread_group'[q] = thread_group'[p]
      /\ \A p \in Proc, q \in Proc : q \in thread_group'[p] => q = n \/ p = n \/ q \in thread_group[p]
      /\ \A q \in Proc : q \in thread_group'[n] => q = n \/ q \in thread_group[current]
  <2>1. CASE thread
    <3>1. thread_group' = Joined(n)
      BY <1>2, <2>1
    <3> QED
      BY <1>0, <1>1, <3>1, JoinedGroups
  <2>2. CASE ~ thread
    <3>1. thread_group' = thread_group
      BY <1>2, <2>2
    <3> QED
      BY <1>3, <3>1 DEF LifeType, ThreadGroups
  <2> QED
    BY <2>1, <2>2
<1>5. LifeType'
  BY <1>0, <1>2, <1>4 DEF LifeType, Places
<1>6. Counted
  <2>1. Linked' = Linked \cup {n} /\ n \notin Linked
    BY <1>0, <1>2 DEF Linked
  <2> QED
    BY <1>2, <2>1 DEF Counted
<1>7. ModesInv'
  BY <1>0, <1>2 DEF ModesInv, StartMode
<1>8. KThreadsInv'
  BY <1>0, <1>1, <1>2, <1>4, ProcAssumption, ProcessAssumption DEF KThreadsInv
<1>9. ForksInv'
  <2>1. \A m \in Proc : state[m] = "UNINIT" /\ m # n => parent[m] # current
    BY <1>0 DEF ForksInv
  <2> QED
    BY <1>0, <1>2, <2>1 DEF ForksInv
<1>10. ParentAlive'
  BY <1>0, <1>2 DEF ParentAlive
<1>11. ThreadGroups'
  <2>1. \A p \in Proc, q \in Proc : q \in thread_group[p] /\ q # p => state[q] \in Alive
    BY DEF ThreadGroups, Alive
  <2>2. ASSUME NEW p \in Proc, NEW q \in Proc, q \in thread_group'[p], q # p
        PROVE  state'[q] \in {"SLEEPING", "RUNNABLE"}
    <3>1. q = n \/ (p = n /\ q \in thread_group[current]) \/ q \in thread_group[p]
      BY <1>4, <2>2
    <3> QED
      BY <1>0, <1>2, <2>1, <2>2, <3>1 DEF Alive
  <2> QED
    BY <1>4, <2>2 DEF ThreadGroups
<1>12. NoLostChild'
  <2>1. ASSUME NEW p \in Proc, wait_state'[p] = "WT_CHILD", NEW z \in target'[p], state'[z] = "ZOMBIE",
               parent'[z] \in thread_group'[p]
        PROVE  FALSE
    <3>1. p # n /\ wait_state[p] = "WT_CHILD"
      BY <1>2, <2>1, WaitAssumption, ProcessAssumption
    <3>2. z \in Proc /\ z \in target[p] /\ z # n /\ state[z] = "ZOMBIE" /\ parent[z] \in thread_group'[p]
      BY <1>0, <1>2, <2>1
    <3>3. parent[z] # n /\ parent[z] \in Proc
      BY <1>0, <1>3, <3>2 DEF SchedInv, CurrentInv
    <3>4. parent[z] \in thread_group[p]
      BY <1>4, <3>1, <3>2, <3>3
    <3> QED
      BY <3>1, <3>2, <3>4 DEF NoLostChild
  <2> QED
    BY <2>1 DEF NoLostChild
<1> QED
  BY <1>5, <1>6, <1>7, <1>8, <1>9, <1>10, <1>11, <1>12

\* A proc_struct is freed, by do_wait or by a do_fork that fails.
LEMMA FreeInv ==
  ASSUME ProcessInv, SchedInv', NEW n \in Proc, FreeProc(n), halted = "no",
         parent' = [parent EXCEPT ![n] = idleproc], pc' = [pc EXCEPT ![current] = "ret", ![n] = "user"],
         nr_process' = IF state[n] = "ZOMBIE" THEN nr_process - 1 ELSE nr_process,
         \A m \in Proc \ {n} : state[m] = "UNINIT" => parent[m] # current,
         current \in KThread => current = initproc,
         target' = target \/ target' = [target EXCEPT ![current] = {}],
         UNCHANGED <<thread_group, halted, forks>>
  PROVE  ProcessInv' /\ Counted
<1> USE DEF ProcessInv
<1>0. /\ current \in Proc /\ state[current] = "RUNNABLE" /\ mode[current] = "kernel"
      /\ state \in [Proc -> ProcState] /\ n # current /\ state[n] \in {"UNINIT", "ZOMBIE"}
      /\ parent \in [Proc -> Proc] /\ pc \in [Proc -> Places] /\ target \in [Proc -> SUBSET Proc]
      /\ mode \in [Proc -> {"user", "kernel"}] /\ idleproc \in Proc
  BY ProcAssumption DEF FreeProc, InKernel, SchedInv, TypeOK, CurrentInv, LifeType
<1>1. n \notin KThread
  BY <1>0 DEF KThreadsInv, Alive
<1>2. /\ state' = [state EXCEPT ![n] = "FREE"] /\ mode' = [mode EXCEPT ![n] = "user"]
      /\ wait_state' = wait_state
  BY <1>1 DEF FreeProc, StartMode
<1>3. /\ thread_group[n] = {n} /\ n # idleproc
      /\ \A q \in Proc \ {n} : n \notin thread_group[q]
      /\ \A q \in Proc \ {idleproc} : state[q] # "FREE" => parent[q] # n
  BY <1>0, DeadAlone DEF Alive
<1>4. LifeType'
  BY <1>0 DEF LifeType, Places
<1>5. Counted
  <2>1. Linked' = Linked \ {n} /\ (n \in Linked <=> state[n] = "ZOMBIE")
    BY <1>0, <1>2 DEF Linked
  <2> QED
    BY <2>1 DEF Counted
<1>6. ModesInv'
  BY <1>0, <1>1, <1>2 DEF ModesInv, StartMode
<1>7. KThreadsInv'
  BY <1>0, <1>1, <1>2, ProcAssumption, ProcessAssumption DEF KThreadsInv, KPlaces
<1>8. ForksInv'
  <2>1. \A m \in Proc \ {n} : state[m] = "UNINIT" => m # idleproc /\ parent[m] \notin {n, current}
    BY <1>0, <1>3 DEF SchedInv, CurrentInv
  <2> QED
    BY <1>0, <1>2, <2>1 DEF ForksInv
<1>9. ParentAlive'
  BY <1>0, <1>2, <1>3 DEF ParentAlive
<1>10. ThreadGroups'
  BY <1>0, <1>2, <1>3 DEF ThreadGroups, LifeType
<1>11. NoLostChild'
  <2>1. \A p \in Proc : target'[p] \subseteq target[p] /\ target[p] \subseteq Proc
    BY <1>0
  <2> QED
    BY <1>0, <1>2, <2>1 DEF NoLostChild
<1> QED
  BY <1>4, <1>5, <1>6, <1>7, <1>8, <1>9, <1>10, <1>11

LEMMA ForkFailInv ==
  ASSUME ProcessInv, SchedInv', NEW n \in Proc, fork_fail(n)
  PROVE  ProcessInv' /\ Counted
<1>0. /\ halted = "no" /\ pc[current] = "fork" /\ parent[n] = current /\ state[n] = "UNINIT"
      /\ FreeProc(n) /\ parent' = [parent EXCEPT ![n] = idleproc]
      /\ pc' = [pc EXCEPT ![current] = "ret"]
      /\ UNCHANGED <<thread_group, nr_process, target, halted, forks>>
  BY DEF fork_fail, Goto
<1>1. pc \in [Proc -> Places] /\ current \in Proc /\ n # current
  BY <1>0 DEF ProcessInv, LifeType, SchedInv, TypeOK, CurrentInv
<1>2. n \notin KThread /\ current \notin KThread
  BY <1>0, ProcessAssumption DEF ProcessInv, KThreadsInv, KPlaces, Alive
<1>3. pc[n] = "user"
  BY <1>0, <1>2 DEF ProcessInv, ModesInv, StartMode
<1>4. pc' = [pc EXCEPT ![current] = "ret", ![n] = "user"]
  BY <1>0, <1>1, <1>3
<1>5. \A m \in Proc \ {n} : state[m] = "UNINIT" => parent[m] # current
  BY <1>0 DEF ProcessInv, ForksInv
<1> QED
  BY <1>0, <1>2, <1>4, <1>5, FreeInv

LEMMA WaitRoundInv ==
  ASSUME ProcessInv, SchedInv', NEW T \in SUBSET Proc, halted = "no",
         pc[current] \in {"call", "wait"}, current \in KThread => current = initproc,
         wait_round(T), UNCHANGED <<thread_group, halted, forks>>
  PROVE  ProcessInv' /\ Counted
<1>1. ASSUME NEW z \in Zombies(T), FreeProc(z), parent' = [parent EXCEPT ![z] = idleproc],
             nr_process' = nr_process - 1, target' = [target EXCEPT ![current] = {}],
             pc' = [pc EXCEPT ![current] = "ret", ![z] = "user"]
      PROVE  ProcessInv' /\ Counted
  <2>1. z \in Proc /\ state[z] = "ZOMBIE"
    BY DEF Zombies, Kids, Linked
  <2>2. \A m \in Proc \ {z} : state[m] = "UNINIT" => parent[m] # current
    BY DEF ProcessInv, ForksInv
  <2> QED
    BY <1>1, <2>1, <2>2, FreeInv
<1> QED
  BY <1>1, WaitsInv DEF wait_round

\* The consequences of de_thread.
LEMMA DeThread ==
  ASSUME ProcessInv, NEW c \in Proc \ {initproc}
  PROVE  /\ de_thread(c) \in [Proc -> SUBSET Proc] /\ de_thread(c)[initproc] = {initproc}
         /\ \A p \in Proc : p \in de_thread(c)[p] /\ de_thread(c)[p] \subseteq thread_group[p]
         /\ \A p \in Proc : \A q \in de_thread(c)[p] :
              /\ de_thread(c)[q] = de_thread(c)[p]
              /\ q # p => q # c /\ state[q] \in Alive
<1>1. thread_group \in [Proc -> SUBSET Proc] /\ thread_group[initproc] = {initproc} /\ initproc \in Proc
  BY NotInit DEF ProcessInv, LifeType, KThreadsInv
<1>2. \A p \in Proc : /\ p \in thread_group[p]
                      /\ \A q \in thread_group[p] : /\ thread_group[q] = thread_group[p]
                                                    /\ q # p => state[q] \in Alive
  BY DEF ProcessInv, ThreadGroups, Alive
<1>3. de_thread(c) = [q \in Proc |-> IF q = c THEN {c} ELSE thread_group[q] \ {c}]
  BY DEF de_thread
<1> QED
  BY <1>1, <1>2, <1>3

LEMMA ExecInv == ASSUME ProcessInv, SchedInv', do_execve PROVE ProcessInv' /\ Counted
<1> USE DEF ProcessInv
<1>0. /\ current \in Proc /\ mode[current] = "kernel" /\ pc[current] = "call"
      /\ current \notin KThread /\ halted = "no"
      /\ pc \in [Proc -> Places] /\ thread_group' = de_thread(current)
      /\ pc' = [pc EXCEPT ![current] = "ret"]
      /\ UNCHANGED <<state, wait_state, mode, parent, nr_process, target, halted, forks>>
  BY DEF do_execve, Calling, AtCall, InKernel, SchedInv, TypeOK, LifeType, Goto, schedVars
<1>1. /\ thread_group' \in [Proc -> SUBSET Proc] /\ thread_group'[initproc] = {initproc}
      /\ \A p \in Proc : p \in thread_group'[p] /\ thread_group'[p] \subseteq thread_group[p]
      /\ \A p \in Proc : \A q \in thread_group'[p] :
           thread_group'[q] = thread_group'[p] /\ (q # p => state[q] \in Alive)
  BY <1>0, DeThread, ProcessAssumption
<1>2. LifeType'
  BY <1>0, <1>1 DEF LifeType, Places
<1>3. Counted
  BY <1>0 DEF Counted, Linked
<1>4. ModesInv'
  BY <1>0 DEF ModesInv, StartMode
<1>5. KThreadsInv'
  BY <1>0, <1>1, ProcAssumption DEF KThreadsInv
<1>6. ForksInv' /\ ParentAlive'
  BY <1>0 DEF ForksInv, ParentAlive, LifeType
<1>7. ThreadGroups'
  BY <1>0, <1>1 DEF ThreadGroups, Alive
<1>8. NoLostChild'
  BY <1>0, <1>1 DEF NoLostChild
<1> QED
  BY <1>2, <1>3, <1>4, <1>5, <1>6, <1>7, <1>8

\* Whoever takes over the children of the current process lives on, and shares
\* a group with it or is initproc.
LEMMA Heir ==
  ASSUME ProcessInv, current \in Proc \ {initproc}, NEW a \in NewParent
  PROVE  /\ a \in Proc /\ a # current /\ state[a] \in Alive
         /\ \A p \in Proc : a \in thread_group[p] => p = a \/ current \in thread_group[p]
<1>1. CASE thread_group[current] = {current}
  <2>1. a = initproc /\ initproc \in Proc
    BY <1>1, ProcAssumption, ProcessAssumption DEF NewParent
  <2> QED
    BY <2>1 DEF ProcessInv, KThreadsInv, ThreadGroups
<1>2. CASE thread_group[current] # {current}
  <2>1. a \in thread_group[current] /\ a # current
    BY <1>2 DEF NewParent
  <2> QED
    BY <2>1 DEF ProcessInv, ThreadGroups, LifeType, Alive
<1> QED
  BY <1>1, <1>2

LEMMA ExitFamilyInv ==
  ASSUME ProcessInv, SchedInv', NEW a \in Proc, __do_exit(a)
  PROVE  ProcessInv' /\ Counted
<1> USE DEF ProcessInv
<1> DEFINE S == ExitWakes(a)
<1>0. /\ current \in Proc /\ state[current] = "RUNNABLE" /\ mode[current] = "kernel"
      /\ pc[current] \in {"exit", "groupexit"} /\ halted = "no" /\ a \in NewParent
      /\ state \in [Proc -> ProcState] /\ current \notin S /\ thread_group \in [Proc -> SUBSET Proc]
      /\ parent \in [Proc -> Proc] /\ pc \in [Proc -> Places] /\ target \in [Proc -> SUBSET Proc]
  BY DEF __do_exit, Exit, InKernel, SchedInv, TypeOK, CurrentInv, LifeType
<1>1. current \notin KThread /\ current # initproc /\ current \in Proc \ {initproc}
  BY <1>0, ProcessAssumption DEF KThreadsInv, KPlaces
<1>2. /\ a \in Proc /\ a # current /\ state[a] \in Alive
      /\ \A p \in Proc : a \in thread_group[p] => p = a \/ current \in thread_group[p]
  BY <1>0, <1>1, Heir
<1>3. \A p \in S : p \in Proc /\ wait_state[p] = "WT_CHILD" /\ state[p] = "SLEEPING"
  BY <1>0, WaitAssumption, ProcessAssumption DEF ExitWakes, SchedInv, WaitStateInv
<1>4. /\ parent' = [p \in Proc |-> IF parent[p] = current /\ p \in Linked THEN a ELSE parent[p]]
      /\ pc' = [pc EXCEPT ![current] = "exit"] /\ thread_group' = de_thread(current)
      /\ UNCHANGED <<mode, nr_process, target, halted, forks>>
  BY DEF __do_exit, Exit, Goto, Adopted
<1>5. /\ state' = [p \in Proc |-> IF p = current THEN "ZOMBIE" ELSE IF p \in S THEN "RUNNABLE" ELSE state[p]]
      /\ wait_state' = [p \in Proc |-> IF p \in S THEN "none" ELSE wait_state[p]]
  <2>1. NotRunnable(S) = S
    BY <1>3 DEF NotRunnable
  <2> QED
    BY <2>1 DEF __do_exit, Exit
<1>6. \A p \in Proc : parent[p] = current /\ state[p] # "FREE" => p \in Linked
  <2>1. \A p \in Proc : parent[p] = current => state[p] # "UNINIT"
    BY <1>0 DEF ForksInv
  <2> QED
    BY <1>0, <2>1 DEF Linked, ProcState
<1>7. /\ thread_group' \in [Proc -> SUBSET Proc] /\ thread_group'[initproc] = {initproc}
      /\ \A p \in Proc : p \in thread_group'[p] /\ thread_group'[p] \subseteq thread_group[p]
      /\ \A p \in Proc : \A q \in thread_group'[p] :
           thread_group'[q] = thread_group'[p] /\ (q # p => q # current /\ state[q] \in Alive)
  BY <1>1, <1>4, DeThread
<1> HIDE DEF S
<1>8. LifeType'
  BY <1>0, <1>4, <1>7 DEF LifeType, Places
<1>9. \A p \in Proc \ {current} : \/ state'[p] = state[p]
                                  \/ state[p] = "SLEEPING" /\ state'[p] = "RUNNABLE"
  BY <1>3, <1>5
<1>10. Counted
  <2>1. Linked' = Linked
    BY <1>0, <1>3, <1>5 DEF Linked
  <2> QED
    BY <1>4, <2>1 DEF Counted
<1>11. ModesInv'
  BY <1>0, <1>4, <1>5, <1>9 DEF ModesInv, StartMode
<1>12. KThreadsInv'
  BY <1>0, <1>1, <1>4, <1>7, <1>9, ProcAssumption, ProcessAssumption DEF KThreadsInv, Alive
<1>13. ForksInv'
  <2>1. \A m \in Proc : state'[m] = "UNINIT" =>
          state[m] = "UNINIT" /\ m \notin Linked /\ parent[m] # current
    BY <1>0, <1>5, <1>9 DEF Linked, ForksInv
  <2>2. \A m \in Proc : state'[m] = "UNINIT" => parent'[m] = parent[m]
    BY <1>4, <2>1
  <2> QED
    BY <1>0, <1>4, <2>1, <2>2 DEF ForksInv
<1>14. ParentAlive'
  <2>1. ASSUME NEW p \in Proc \ {idleproc}, state'[p] # "FREE" PROVE state'[parent'[p]] \in Alive
    <3>1. state[p] # "FREE"
      BY <1>0, <1>9, <2>1
    <3>2. state[parent[p]] \in Alive
      BY <3>1 DEF ParentAlive, Alive
    <3>3. parent'[p] \in Proc \ {current} /\ state[parent'[p]] \in Alive
      BY <1>0, <1>2, <1>4, <1>6, <3>1, <3>2
    <3> QED
      BY <1>9, <3>3 DEF Alive
  <2> QED
    BY <2>1 DEF ParentAlive, Alive
<1>15. ThreadGroups'
  <2>1. \A p \in Proc : \A q \in thread_group'[p] : q # p => state'[q] \in {"SLEEPING", "RUNNABLE"}
    BY <1>7, <1>9 DEF Alive
  <2> QED
    BY <1>7, <2>1 DEF ThreadGroups
<1>16. NoLostChild'
  <2>1. ASSUME NEW p \in Proc, wait_state'[p] = "WT_CHILD", NEW z \in target'[p], state'[z] = "ZOMBIE",
               parent'[z] \in thread_group'[p]
        PROVE  FALSE
    <3>1. wait_state[p] = "WT_CHILD" /\ p \notin S
      BY <1>5, <2>1, WaitAssumption, ProcessAssumption
    <3>2. z \in Proc /\ z \in target[p] /\ parent'[z] \in thread_group[p]
      BY <1>0, <1>4, <1>7, <2>1
    <3>3. /\ p \notin thread_group[parent[current]]
          /\ p = a => ~ \E y \in Proc : parent[y] = current /\ (y = current \/ state[y] = "ZOMBIE")
      BY <3>1 DEF S, ExitWakes
    <3>4. \A q \in Proc : q \in thread_group[p] => thread_group[q] = thread_group[p] /\ p \in thread_group[q]
      BY DEF ThreadGroups
    <3>5. CASE z = current
      <4>1. CASE parent[current] = current
        <5>1. parent'[z] = a
          BY <1>0, <1>4, <3>5, <4>1 DEF Linked
        <5>2. p = a \/ current \in thread_group[p]
          BY <1>2, <3>2, <5>1
        <5> QED
          BY <1>0, <3>3, <3>4, <4>1, <5>2
      <4>2. CASE parent[current] # current
        BY <1>0, <1>4, <3>2, <3>3, <3>4, <3>5, <4>2
      <4> QED
        BY <4>1, <4>2
    <3>6. CASE z # current
      <4>1. state[z] = "ZOMBIE"
        BY <1>9, <2>1, <3>2, <3>6
      <4>2. parent[z] \notin thread_group[p]
        BY <3>1, <3>2, <4>1 DEF NoLostChild
      <4>3. parent[z] = current /\ parent'[z] = a
        BY <1>4, <3>2, <4>2
      <4>4. p = a \/ current \in thread_group[p]
        BY <1>2, <3>2, <4>3
      <4> QED
        BY <3>2, <3>3, <4>1, <4>2, <4>3, <4>4
    <3> QED
      BY <3>5, <3>6
  <2> QED
    BY <2>1 DEF NoLostChild
<1> QED
  BY <1>8, <1>10, <1>11, <1>12, <1>13, <1>14, <1>15, <1>16

-----------------------------------------------------------------------------

LEMMA ProcessStep == ProcessInv /\ [ProcessNext]_pvars => ProcessInv' /\ Counted
<1> SUFFICES ASSUME ProcessInv, [ProcessNext]_pvars PROVE ProcessInv' /\ Counted
  OBVIOUS
<1>0. SchedInv' /\ current \in Proc /\ target[current] \in SUBSET Proc
  BY ProcessSchedInv DEF ProcessInv, LifeType, SchedInv, TypeOK
<1>1. ASSUME NEW n \in Proc \ KThread, fork_begin(n) PROVE ProcessInv' /\ Counted
  BY <1>0, <1>1, ForkBeginInv
<1>2. ASSUME NEW n \in Proc, NEW thread \in BOOLEAN, fork_done(n, thread) PROVE ProcessInv' /\ Counted
  BY <1>0, <1>2, ForkDoneInv
<1>3. ASSUME NEW n \in Proc, fork_fail(n) PROVE ProcessInv' /\ Counted
  BY <1>0, <1>3, ForkFailInv
<1>4. ASSUME do_execve PROVE ProcessInv' /\ Counted
  BY <1>0, <1>4, ExecInv
<1>5. ASSUME do_exit \/ do_exit_thread \/ may_killed \/ (\E p \in Proc : do_kill(p)) PROVE ProcessInv' /\ Counted
  BY <1>0, <1>5, CallsInv
<1>6. ASSUME NEW a \in Proc, __do_exit(a) PROVE ProcessInv' /\ Counted
  BY <1>0, <1>6, ExitFamilyInv
<1>7. ASSUME NEW T \in {Proc} \cup {{q} : q \in Proc}, do_wait(T) PROVE ProcessInv' /\ Counted
  <2>1. T \in SUBSET Proc /\ pc[current] = "call" /\ current \notin KThread
    BY <1>7 DEF do_wait, Calling, AtCall
  <2> QED
    BY <1>0, <1>7, <2>1, WaitRoundInv DEF do_wait, Calling
<1>8. ASSUME wait_resume PROVE ProcessInv' /\ Counted
  <2>1. pc[current] = "wait" /\ (current \in KThread => current = initproc)
    BY <1>8 DEF wait_resume, ProcessInv, KThreadsInv, KPlaces
  <2> QED
    BY <1>0, <1>8, <2>1, WaitRoundInv DEF wait_resume
<1>9. ASSUME init_wait PROVE ProcessInv' /\ Counted
  BY <1>0, <1>9, WaitRoundInv DEF init_wait
<1>10. ASSUME init_loop PROVE ProcessInv' /\ Counted
  BY <1>0, <1>10, LoopInv
<1>11. ASSUME AllocWait \/ SliceEnds \/ Dispatch PROVE ProcessInv' /\ Counted
  BY <1>0, <1>11, OthersInv
<1>12. ASSUME UNCHANGED pvars PROVE ProcessInv' /\ Counted
  <2>1. UNCHANGED <<current, state, wait_state, rq, need_resched, exiting, mode, switching>>
    BY <1>12 DEF pvars, schedVars
  <2>2. UNCHANGED <<parent, thread_group, nr_process, pc, target, halted, forks>>
    BY <1>12 DEF pvars, lifeVars
  <2>3. Linked' = Linked
    BY <2>1 DEF Linked
  <2> QED
    BY <1>0, <2>1, <2>2, <2>3
    DEF ProcessInv, LifeType, Counted, ModesInv, KThreadsInv, ForksInv, ParentAlive, ThreadGroups,
        NoLostChild
<1> QED
  BY <1>1, <1>2, <1>3, <1>4, <1>5, <1>6, <1>7, <1>8, <1>9, <1>10, <1>11, <1>12 DEF ProcessNext, Halted

\* init_main quits by what nr_process says, and nothing happens after that.
LEMMA QuitStep ==
  ASSUME [ProcessNext]_pvars, halted' = "quit"
  PROVE  state' = state /\ (halted = "quit" \/ nr_process = nr_process_store)
<1>1. CASE halted = "quit"
  <2>1. UNCHANGED pvars
    BY <1>1 DEF ProcessNext, fork_begin, fork_done, fork_fail, do_execve, do_exit, do_exit_thread,
                may_killed, __do_exit, do_kill, do_wait, wait_resume, init_wait, init_loop, AllocWait,
                SliceEnds, Dispatch, Halted, Calling
  <2> QED
    BY <1>1, <2>1 DEF pvars, schedVars
<1>2. CASE halted # "quit"
  <2>1. init_loop /\ nr_process = nr_process_store
    BY <1>2 DEF ProcessNext, fork_begin, fork_done, fork_fail, do_execve, do_exit, do_exit_thread,
                may_killed, __do_exit, do_kill, do_wait, wait_resume, init_wait, init_loop, AllocWait,
                SliceEnds, Dispatch, Halted, Calling, pvars, lifeVars
  <2> QED
    BY <2>1 DEF init_loop, schedVars
<1> QED
  BY <1>1, <1>2

\* The invariant holds in every behaviour, for any number of processes.
LEMMA ProcessInvariant == ProcessSpec => []ProcessInv
  BY ProcessInitInv, ProcessStep, PTL DEF ProcessSpec

\* do_wait never sleeps on while a child it waits for is a zombie: __do_exit
\* wakes the threads of its parent's group, and the heir of its zombies.
THEOREM ChildrenFound == ProcessSpec => []NoLostChild
<1>1. ProcessInv => NoLostChild
  BY DEF ProcessInv
<1> QED
  BY <1>1, ProcessInvariant, PTL

\* The life of a process uses the scheduler core only in the ways it allows:
\* every step of proc.c that touches a state, a run queue or a wait_state is a
\* step of SchedSpec, so its invariants hold here too.
THEOREM ProcessImplementsSched == ProcessSpec => SchedSpec
<1>1. ProcessInit => SchedInit
  BY DEF ProcessInit
<1>2. ProcessInv /\ [ProcessNext]_pvars => [SchedNext]_schedVars
  BY ProcessSchedStep
<1> QED
  BY <1>1, <1>2, ProcessInvariant, PTL DEF ProcessSpec, SchedSpec

=============================================================================

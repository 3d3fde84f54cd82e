------------------------- MODULE ProcessCountProofs -------------------------
(* nr_process counts the processes on the list that set_links keeps, so    *)
(* that init_main, which trusts it, quits last.                            *)
EXTENDS ProcessFamilyProofs, FiniteSetTheorems

CountInv == nr_process = Cardinality(Linked)

QuitInv == ProcessInv /\ CountInv /\ InitQuitsLast

\* The processes that are always there.
LEMMA TwoProcesses ==
  ASSUME SchedInv, KThreadsInv
  PROVE  /\ IsFiniteSet(Linked) /\ Linked \subseteq Proc /\ idleproc # initproc
         /\ {idleproc, initproc} \subseteq Linked /\ Cardinality({idleproc, initproc}) = 2
<1>1. IsFiniteSet(Proc) /\ idleproc # initproc /\ idleproc \in Proc /\ initproc \in Proc
  BY ProcAssumption, ProcessAssumption
<1>2. Linked \subseteq Proc
  BY DEF Linked
<1>3. IsFiniteSet(Linked)
  BY <1>1, <1>2, FS_Subset
<1>4. {idleproc, initproc} \subseteq Linked
  BY <1>1 DEF SchedInv, CurrentInv, KThreadsInv, Alive, Linked
<1>5. Cardinality({idleproc, initproc}) = 2
  <2>1. {idleproc, initproc} = {idleproc} \cup {initproc}
    OBVIOUS
  <2>2. IsFiniteSet({idleproc}) /\ Cardinality({idleproc}) = 1
    BY FS_Singleton
  <2>3. Cardinality({idleproc} \cup {initproc}) = Cardinality({idleproc}) + 1
    BY <1>1, <2>2, FS_AddElement
  <2> QED
    BY <2>1, <2>2, <2>3
<1> QED
  BY <1>1, <1>2, <1>3, <1>4, <1>5

LEMMA QuitSafe == ASSUME QuitInv PROVE FamilyTree
<1>1. /\ IsFiniteSet(Linked) /\ Linked \subseteq Proc /\ IsFiniteSet(Proc)
      /\ {idleproc, initproc} \subseteq Linked /\ Cardinality({idleproc, initproc}) = 2
  BY TwoProcesses, ProcessAssumption DEF QuitInv, ProcessInv
<1>2. Cardinality(Linked) <= Cardinality(Proc) /\ 2 <= Cardinality(Linked)
  BY <1>1, FS_Subset
<1>3. Cardinality(Linked) \in Nat /\ Cardinality(Proc) \in Nat
  BY <1>1, FS_CardinalityType
<1>4. nr_process \in nr_process_store..Cardinality(Proc)
  BY <1>2, <1>3 DEF nr_process_store, QuitInv, CountInv
<1> QED
  BY <1>4 DEF FamilyTree, ProcessTypeOK, QuitInv, ProcessInv, SchedInv, LifeType, Places

LEMMA QuitInit == ASSUME ProcessInit PROVE QuitInv
<1>1. Linked = Started \cup {idleproc}
  BY ProcAssumption DEF Linked, ProcessInit, SchedInit
<1>2. IsFiniteSet(Started) /\ idleproc \notin Started
  BY ProcAssumption, ProcessAssumption, FS_Subset
<1>3. Cardinality(Started \cup {idleproc}) = Cardinality(Started) + 1
  BY <1>2, FS_AddElement
<1>4. CountInv
  BY <1>1, <1>3 DEF CountInv, ProcessInit
<1> QED
  BY <1>4, ProcessInitInv DEF QuitInv, InitQuitsLast, ProcessInit

LEMMA CountStep == ASSUME QuitInv, Counted PROVE CountInv'
<1>1. IsFiniteSet(Linked)
  BY TwoProcesses DEF QuitInv, ProcessInv
<1>2. ASSUME NEW n \in Proc \ Linked, Linked' = Linked \cup {n}, nr_process' = nr_process + 1
      PROVE  CountInv'
  BY <1>1, <1>2, FS_AddElement DEF QuitInv, CountInv
<1>3. ASSUME NEW n \in Linked, Linked' = Linked \ {n}, nr_process' = nr_process - 1
      PROVE  CountInv'
  BY <1>1, <1>3, FS_RemoveElement DEF QuitInv, CountInv
<1>4. ASSUME Linked' = Linked, nr_process' = nr_process PROVE CountInv'
  BY <1>4 DEF QuitInv, CountInv
<1> QED
  BY <1>2, <1>3, <1>4 DEF Counted

\* When nr_process is 2, idleproc and initproc are left, and nobody is in
\* do_fork.
LEMMA OnlyTwo ==
  ASSUME QuitInv, nr_process = nr_process_store, NEW p \in Proc \ {idleproc, initproc}
  PROVE  state[p] = "FREE"
<1>1. Linked = {idleproc, initproc}
  <2>1. /\ IsFiniteSet(Linked) /\ {idleproc, initproc} \subseteq Linked
        /\ Cardinality({idleproc, initproc}) = Cardinality(Linked)
    BY TwoProcesses DEF QuitInv, ProcessInv, CountInv, nr_process_store
  <2> QED
    BY <2>1, FS_Subset
<1>2. state[p] \in {"FREE", "UNINIT"}
  BY <1>1 DEF Linked, QuitInv, ProcessInv, SchedInv, TypeOK, ProcState
<1>3. ASSUME state[p] = "UNINIT" PROVE FALSE
  <2>1. pc[parent[p]] = "fork" /\ state[parent[p]] \in Alive /\ parent[p] \in Proc
    BY <1>3 DEF QuitInv, ProcessInv, ForksInv, ParentAlive, LifeType, Alive
  <2>2. parent[p] \in {idleproc, initproc}
    BY <1>1, <2>1 DEF Linked, Alive
  <2> QED
    BY <2>1, <2>2, ProcAssumption, ProcessAssumption DEF QuitInv, ProcessInv, KThreadsInv, KPlaces
<1> QED
  BY <1>2, <1>3

LEMMA QuitInvStep == ASSUME QuitInv, [ProcessNext]_pvars PROVE QuitInv'
<1>1. ProcessInv' /\ CountInv'
  BY ProcessStep, CountStep DEF QuitInv
<1>2. InitQuitsLast'
  BY QuitStep, OnlyTwo DEF QuitInv, InitQuitsLast
<1> QED
  BY <1>1, <1>2 DEF QuitInv

\* fork, clone, exec, exit and adoption keep parents and thread groups
\* consistent (set_links, de_thread, __do_exit of proc.c): the parent of every
\* proc_struct lives, also in the middle of a do_fork that sleeps.
THEOREM FamilySafe == ProcessSpec => []FamilyTree
  BY QuitInit, QuitInvStep, QuitSafe, PTL DEF ProcessSpec

\* init_main leaves its loop only when every user process has been reaped,
\* because nr_process counts exactly the processes that are linked.
THEOREM InitLast == ProcessSpec => []InitQuitsLast
<1>1. QuitInv => InitQuitsLast
  BY DEF QuitInv
<1> QED
  BY <1>1, QuitInit, QuitInvStep, PTL DEF ProcessSpec

=============================================================================

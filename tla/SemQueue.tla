------------------------------ MODULE SemQueue ------------------------------
(***************************************************************************)
(* Which processes may use which user semaphores: the sem_queue of         *)
(* kern/sync/sem.c, copied or shared by fork (copy_sem of                  *)
(* kern/process/proc.c) and given up by exec and exit.  A queue lists the  *)
(* semaphores its processes may name; a semaphore is freed with the last   *)
(* list entry.  A process may sleep in kmalloc, in sem_wait and on the     *)
(* queue's own semaphore, where it is a process that has not taken its     *)
(* next step.  Values and the order of the waiters are module USem's: here *)
(* a post wakes any waiter, and a wait may or may not have to sleep.       *)
(***************************************************************************)
EXTENDS Integers, Sequences, FiniteSets, SequencesExt

CONSTANTS
    Procs,      \* process slots
    Sems        \* semaphores that fit in memory

VARIABLES
    queue,      \* per queue: [count, list, lock]
    sem,        \* per semaphore: [count, valid]
    qOf,        \* the queue of a process, 0 for none
    loc         \* what each process is doing

semqVars == <<queue, sem, qOf, loc>>

Queues == 1 .. Cardinality(Procs) + 1
NoQueue == [count |-> 0, list |-> <<>>, lock |-> 0]
NoSem == [count |-> 0, valid |-> FALSE]
User == [pc |-> "user"]
Gone == [pc |-> "gone"]
First(S) == CHOOSE i \in S : \A j \in S : i <= j
Unused == {q \in Queues : \A p \in Procs : qOf[p] # q /\ (loc[p].pc = "dup" => loc[p].to # q)}

SemQueueInit ==
    /\ queue = [q \in Queues |-> IF q = 1 THEN [NoQueue EXCEPT !.count = 1] ELSE NoQueue]
    /\ sem = [s \in Sems |-> NoSem]
    /\ \E init \in Procs :
        /\ qOf = [p \in Procs |-> IF p = init THEN 1 ELSE 0]
        /\ loc = [p \in Procs |-> IF p = init THEN User ELSE Gone]

At(p, pc) == loc[p].pc = pc
Goto(p, l) == loc' = [loc EXCEPT ![p] = l]
Mine(p) == queue[qOf[p]]
Unlocked(p) == Mine(p).lock = 0

----------------------------------------------------------------------------
semu_create(sm, s) == [sm EXCEPT ![s] = [count |-> @.count + 1, valid |-> @.valid \/ @.count = 0]]
semu_destroy(sm, s) == [sm EXCEPT ![s] = IF @.count = 1 THEN NoSem ELSE [@ EXCEPT !.count = @ - 1]]
exit_sem_queue(sm, list) == FoldLeft(semu_destroy, sm, list)

(* ipc_sem_init: the semaphore is made, then entered into the list.        *)
ipc_sem_init(p) ==
    LET free == {s \in Sems : sem[s].count = 0} IN
    /\ At(p, "user") /\ free # {}
    /\ sem' = semu_create(sem, First(free))
    /\ Goto(p, [pc |-> "init", s |-> First(free)])
    /\ UNCHANGED <<queue, qOf>>

InitAdd(p) ==
    /\ At(p, "init") /\ Unlocked(p)
    /\ queue' = [queue EXCEPT ![qOf[p]].list = <<loc[p].s>> \o @]
    /\ Goto(p, User)
    /\ UNCHANGED <<sem, qOf>>

(* semu_list_search, then what the call does with a semaphore it found.    *)
Queued(s) == {r \in Procs : At(r, "wait") /\ loc[r].s = s /\ loc[r].queued}
Dequeue(R) == [r \in Procs |-> IF r \in R THEN [loc[r] EXCEPT !.queued = FALSE] ELSE loc[r]]

usem_up(s) == IF Queued(s) = {} THEN UNCHANGED loc ELSE \E r \in Queued(s) : loc' = Dequeue({r})
usem_down(p, s) == UNCHANGED loc \/ Goto(p, [pc |-> "wait", s |-> s, queued |-> TRUE])

MutSemFree(p, s) == sem' = [sem EXCEPT ![s].valid = FALSE] /\ UNCHANGED loc
ipc_sem_free(p, s) == sem' = [sem EXCEPT ![s].valid = FALSE] /\ loc' = Dequeue(Queued(s))

semu_list_search(p, s, op) ==
    LET list == Mine(p).list
        rest == Remove(list, s)
    IN  /\ At(p, "user") /\ Unlocked(p) /\ Contains(list, s)
        /\ \/ /\ sem[s].valid
              /\ queue' = [queue EXCEPT ![qOf[p]].list = <<s>> \o rest]
              /\ \/ op = "post" /\ usem_up(s) /\ UNCHANGED sem
                 \/ op = "wait" /\ usem_down(p, s) /\ UNCHANGED sem
                 \/ op = "free" /\ ipc_sem_free(p, s)
           \/ /\ ~ sem[s].valid
              /\ queue' = [queue EXCEPT ![qOf[p]].list = rest]
              /\ sem' = semu_destroy(sem, s)
              /\ UNCHANGED loc
        /\ UNCHANGED qOf

(* Handed a unit, woken by a free, a timer or a kill: the waiter leaves.   *)
WaitReturns(p) == At(p, "wait") /\ Goto(p, User) /\ UNCHANGED <<queue, sem, qOf>>

----------------------------------------------------------------------------
(* copy_sem: CLONE_SEM shares the queue, else a new one is filled under    *)
(* the old one's lock.                                                     *)
copy_sem(p, r, CLONE_SEM) ==
    LET new == First(Unused) IN
    /\ At(p, "user") /\ At(r, "gone")
    /\ \/ /\ CLONE_SEM
          /\ queue' = [queue EXCEPT ![qOf[p]].count = @ + 1]
          /\ qOf' = [qOf EXCEPT ![r] = qOf[p]]
          /\ Goto(r, User)
       \/ /\ ~ CLONE_SEM /\ Unlocked(p)
          /\ queue' = [queue EXCEPT ![qOf[p]].lock = p]
          /\ loc' = [loc EXCEPT ![p] = [pc |-> "dup", to |-> new, rest |-> Mine(p).list, child |-> r, take |-> FALSE],
                                ![r] = [pc |-> "new"]]
          /\ UNCHANGED qOf
    /\ UNCHANGED sem

(* dup_sem_queue looks whether the next semaphore is valid, then           *)
(* semu_create allocates, which may sleep or fail; a failure undoes all.   *)
SkipInvalid(p) ==
    LET l == loc[p] IN
    /\ At(p, "dup") /\ l.rest # <<>> /\ ~ l.take
    /\ Goto(p, IF sem[Head(l.rest)].valid THEN [l EXCEPT !.take = TRUE] ELSE [l EXCEPT !.rest = Tail(@)])
    /\ UNCHANGED <<queue, sem, qOf>>

MutDupSemQueue(p) ==
    LET l == loc[p] IN
    /\ At(p, "dup") /\ l.take
    /\ \/ /\ sem' = semu_create(sem, Head(l.rest))
          /\ queue' = [queue EXCEPT ![l.to].list = <<Head(l.rest)>> \o @]
          /\ Goto(p, [l EXCEPT !.rest = Tail(@), !.take = FALSE])
       \/ /\ queue' = [queue EXCEPT ![l.to] = NoQueue, ![qOf[p]].lock = 0]
          /\ loc' = [loc EXCEPT ![p] = User, ![l.child] = Gone]
          /\ UNCHANGED sem
    /\ UNCHANGED qOf

dup_sem_queue(p) ==
    LET l == loc[p] IN
    /\ At(p, "dup") /\ l.take
    /\ \/ /\ sem' = semu_create(sem, Head(l.rest))
          /\ queue' = [queue EXCEPT ![l.to].list = <<Head(l.rest)>> \o @]
          /\ Goto(p, [l EXCEPT !.rest = Tail(@), !.take = FALSE])
       \/ /\ sem' = exit_sem_queue(sem, queue[l.to].list)
          /\ queue' = [queue EXCEPT ![l.to] = NoQueue, ![qOf[p]].lock = 0]
          /\ loc' = [loc EXCEPT ![p] = User, ![l.child] = Gone]
    /\ UNCHANGED qOf

DupDone(p) ==
    LET l == loc[p] IN
    /\ At(p, "dup") /\ l.rest = <<>>
    /\ queue' = [queue EXCEPT ![l.to].count = 1, ![qOf[p]].lock = 0]
    /\ qOf' = [qOf EXCEPT ![l.child] = l.to]
    /\ loc' = [loc EXCEPT ![p] = User, ![l.child] = User]
    /\ UNCHANGED sem

(* put_sem_queue at exit, in exec, which takes a new queue, and for the    *)
(* child of a fork that fails later, which is gone before it runs.  The    *)
(* last one destroys the queue.  One process always stays.                 *)
put_sem_queue(p, exec) ==
    LET q == qOf[p]
        last == queue[q].count = 1
        left == [queue EXCEPT ![q] = IF last THEN NoQueue ELSE [@ EXCEPT !.count = @ - 1]]
        new == First(Unused)
    IN  /\ At(p, "user") /\ (exec \/ Cardinality({r \in Procs : qOf[r] # 0}) > 1)
        /\ sem' = IF last THEN exit_sem_queue(sem, queue[q].list) ELSE sem
        /\ queue' = IF exec THEN [left EXCEPT ![new].count = 1] ELSE left
        /\ qOf' = [qOf EXCEPT ![p] = IF exec THEN new ELSE 0]
        /\ IF exec THEN UNCHANGED loc ELSE Goto(p, Gone)

SemQueueNext == \E p \in Procs :
    \/ ipc_sem_init(p) \/ InitAdd(p) \/ WaitReturns(p)
    \/ \E s \in Sems, op \in {"post", "wait", "free"} : semu_list_search(p, s, op)
    \/ \E r \in Procs, share \in BOOLEAN : copy_sem(p, r, share)
    \/ SkipInvalid(p) \/ dup_sem_queue(p) \/ DupDone(p)
    \/ \E exec \in BOOLEAN : put_sem_queue(p, exec)

SemQueueSpec == SemQueueInit /\ [][SemQueueNext]_semqVars

(* A semaphore lives exactly as long as somebody can name it: its count is *)
(* the number of list entries, and of sem_init calls about to add one; a   *)
(* queue lives as long as the processes that have it; and a waiter is      *)
(* queued only on a valid semaphore that its own list still holds, so that *)
(* none is freed under it, whatever forks that fail half way, frees by     *)
(* other processes, execs and exits come in between.                       *)
SemRefs ==
    /\ \A s \in Sems :
        LET naming == {q \in Queues : Contains(queue[q].list, s)}
            adding == {p \in Procs : At(p, "init") /\ loc[p].s = s}
        IN  /\ sem[s].count = Cardinality(naming) + Cardinality(adding)
            /\ \A r \in Queued(s) : sem[s].valid /\ Contains(Mine(r).list, s)
    /\ \A q \in Queues :
        /\ IsInjective(queue[q].list)
        /\ queue[q].count = Cardinality({p \in Procs : qOf[p] = q})
        /\ queue[q].count = 0 /\ queue[q] # NoQueue => \E p \in Procs : At(p, "dup") /\ loc[p].to = q
=============================================================================

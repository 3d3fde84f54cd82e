------------------------------ MODULE Process ------------------------------
(* The life of a process: do_fork, do_exit, do_exit_thread, do_execve,     *)
(* do_wait, do_kill and the loop of init_main (kern/process/proc.c), with  *)
(* thread groups and the adoption of orphans.                              *)
(*                                                                         *)
(* do_fork and __do_exit allocate and free memory and close files, and may *)
(* sleep meanwhile; other processes then see them half done (pc "fork",    *)
(* "exit", "groupexit").  The lists cptr/optr/yptr and thread_group are    *)
(* sets: nothing but the order of reaping depends on their order.  A pid   *)
(* is the name of its proc_struct, and is reused with it.  kswapd, which   *)
(* never exits, is left out of Proc, of initproc's children and of         *)
(* nr_process: so do_wait(0) of initproc always has a kid.                 *)
EXTENDS Syscall, Integers, FiniteSets

CONSTANTS initproc,
          MAX_PROCESS,
          MaxForks      \* bound on the number of calls of do_fork

ASSUME ProcessAssumption ==
  /\ initproc \in (KThread \cap Started) \ {idleproc}
  /\ IsFiniteSet(Proc) /\ MAX_PROCESS \in Nat /\ MaxForks \in Nat
  /\ "WT_CHILD" \in Interruptible

VARIABLES parent,        \* proc->parent
          thread_group,  \* the threads on the list of proc->thread_group, proc included
          nr_process,
          target,        \* the pids a process in do_wait waits for
          halted,        \* "no", "panic", or "quit": init_main is done
          forks          \* how many calls of do_fork there were

lifeVars == <<parent, thread_group, nr_process, pc, target, halted, forks>>

pvars == <<schedVars, lifeVars>>

\* The processes there are when init_main enters its loop.
nr_process_store == 2

ProcessInit ==
  /\ SchedInit
  /\ parent = [p \in Proc |-> IF p \in Started \ {initproc} THEN initproc ELSE idleproc]
  /\ thread_group = [p \in Proc |-> {p}]
  /\ nr_process = Cardinality(Started) + 1
  /\ PcInit
  /\ target = [p \in Proc |-> {}]
  /\ halted = "no" /\ forks = 0

Calling == halted = "no" /\ AtCall

\* The processes that set_links has linked.
Linked == {p \in Proc : state[p] \in {"SLEEPING", "RUNNABLE", "ZOMBIE"}}

-----------------------------------------------------------------------------
(* do_fork                                                                 *)

\* do_fork up to the first allocation that may sleep.
fork_begin(n) ==
  /\ Calling /\ forks < MaxForks
  /\ nr_process < MAX_PROCESS
  /\ AllocProc(n)
  /\ parent' = [parent EXCEPT ![n] = current]
  /\ Goto("fork")
  /\ forks' = forks + 1
  /\ UNCHANGED <<thread_group, nr_process, target, halted>>

\* list_add_before(&(current->thread_group), &(proc->thread_group))
Joined(n) ==
  LET G == thread_group[current] \cup {n}
  IN  [p \in Proc |-> IF p \in G THEN G ELSE thread_group[p]]

MutForkDone(n, thread) ==
  /\ halted = "no" /\ pc[current] = "fork"
  /\ state[n] = "UNINIT" /\ parent[n] = current
  /\ Wakeup({n})
  /\ thread_group' = IF thread THEN Joined(n) ELSE thread_group
  /\ Goto("ret")
  /\ UNCHANGED <<parent, nr_process, target, halted, forks>>

\* The rest of do_fork: the child gets its pid and its links, joins the
\* thread group if CLONE_THREAD was given, and is woken.
fork_done(n, thread) ==
  /\ halted = "no" /\ pc[current] = "fork"
  /\ state[n] = "UNINIT" /\ parent[n] = current
  /\ Wakeup({n})
  /\ nr_process' = nr_process + 1
  /\ thread_group' = IF thread THEN Joined(n) ELSE thread_group
  /\ Goto("ret")
  /\ UNCHANGED <<parent, target, halted, forks>>

\* bad_fork_cleanup_*: an allocation failed.
fork_fail(n) ==
  /\ halted = "no" /\ pc[current] = "fork"
  /\ parent[n] = current /\ state[n] = "UNINIT"
  /\ FreeProc(n)
  /\ parent' = [parent EXCEPT ![n] = idleproc]
  /\ Goto("ret")
  /\ UNCHANGED <<thread_group, nr_process, target, halted, forks>>

-----------------------------------------------------------------------------
(* do_execve, do_exit, __do_exit, do_kill                                  *)

MutDeThread(p) == thread_group

\* de_thread
de_thread(p) ==
  [q \in Proc |-> IF q = p THEN {p} ELSE thread_group[q] \ {p}]

\* do_execve, as the other processes see it: what it does before de_thread
\* may sleep, but leaves the process where it was.
do_execve ==
  /\ Calling /\ InKernel
  /\ thread_group' = de_thread(current)
  /\ Goto("ret")
  /\ UNCHANGED <<schedVars, parent, nr_process, target, halted, forks>>

\* do_exit, by sys_exit or because do_execve failed: flags the other threads
\* of the group.
do_exit ==
  /\ Calling
  /\ Kill(thread_group[current] \ (exiting \cup {current}))
  /\ Goto("groupexit")
  /\ UNCHANGED <<parent, thread_group, nr_process, target, halted, forks>>

\* do_exit_thread
do_exit_thread ==
  /\ Calling /\ InKernel
  /\ Goto("exit")
  /\ UNCHANGED <<schedVars, parent, thread_group, nr_process, target, halted, forks>>

\* may_killed, at the end of trap() or after schedule() in do_wait; initproc
\* must not exit.
may_killed ==
  /\ halted = "no" /\ InKernel
  /\ pc[current] \in {"ret", "wait"} /\ current \in exiting
  /\ IF current = initproc
     THEN halted' = "panic" /\ UNCHANGED <<pc, target>>
     ELSE Goto("exit") /\ target' = [target EXCEPT ![current] = {}] /\ UNCHANGED halted
  /\ UNCHANGED <<schedVars, parent, thread_group, nr_process, forks>>

MutExitWakes(a) ==
  {p \in thread_group[parent[current]] : wait_state[p] = "WT_CHILD"}

\* The waiters that __do_exit wakes: threads of its parent's group, and the
\* new parent a if it adopts a zombie (current, a zombie by now, can be one of
\* its own children: see ParentIsOther).
ExitWakes(a) ==
  {p \in thread_group[parent[current]] : wait_state[p] = "WT_CHILD"}
  \cup {p \in {a} : /\ wait_state[p] = "WT_CHILD"
                    /\ \E z \in Proc : parent[z] = current /\ (z = current \/ state[z] = "ZOMBIE")}

\* next_thread(current), or initproc when there is none.
NewParent ==
  IF thread_group[current] = {current} THEN {initproc} ELSE thread_group[current] \ {current}

MutAdopted(a) == [p \in Proc |-> IF state[p] = "ZOMBIE" /\ parent[p] = current THEN a ELSE parent[p]]

Adopted(a) == [p \in Proc |-> IF parent[p] = current /\ p \in Linked THEN a ELSE parent[p]]

\* The end of __do_exit, from state = PROC_ZOMBIE on.
__do_exit(a) ==
  /\ halted = "no" /\ pc[current] \in {"exit", "groupexit"} /\ a \in NewParent
  /\ Exit(ExitWakes(a))
  /\ thread_group' = de_thread(current)
  /\ parent' = Adopted(a)
  /\ Goto("exit")
  /\ UNCHANGED <<nr_process, target, halted, forks>>

do_kill(p) ==
  /\ Calling /\ p \in Linked
  /\ Kill({p})
  /\ Goto("ret")
  /\ UNCHANGED <<parent, thread_group, nr_process, target, halted, forks>>

-----------------------------------------------------------------------------
(* do_wait                                                                 *)

Kids(T) == {k \in T \cap Linked : parent[k] \in thread_group[current]}

Zombies(T) == {k \in Kids(T) : state[k] = "ZOMBIE"}

\* One round of do_wait's loop, for the pids T.
wait_round(T) ==
  \/ \E z \in Zombies(T) :
        /\ FreeProc(z)
        /\ parent' = [parent EXCEPT ![z] = idleproc]
        /\ nr_process' = nr_process - 1
        /\ target' = [target EXCEPT ![current] = {}]
        /\ pc' = [pc EXCEPT ![current] = "ret", ![z] = "user"]
  \/ /\ Zombies(T) = {}
     /\ Kids(T) # {} \/ current = initproc
     /\ Sleep("WT_CHILD")
     /\ target' = [target EXCEPT ![current] = T]
     /\ Goto("wait")
     /\ UNCHANGED <<parent, nr_process>>
  \/ /\ Kids(T) = {} /\ current # initproc
     /\ InKernel
     /\ target' = [target EXCEPT ![current] = {}]
     /\ Goto("ret")
     /\ UNCHANGED <<schedVars, parent, nr_process>>

\* sys_wait for one child or (pid = 0) any.
do_wait(T) ==
  /\ Calling
  /\ wait_round(T)
  /\ UNCHANGED <<thread_group, halted, forks>>

\* do_wait after schedule(): may_killed found nothing, so look again.
wait_resume ==
  /\ halted = "no" /\ pc[current] = "wait" /\ current \notin exiting
  /\ wait_round(target[current])
  /\ UNCHANGED <<thread_group, halted, forks>>

\* init_main: do_wait(0), then schedule(), until its children are gone.
init_wait ==
  /\ halted = "no" /\ current = initproc /\ pc[current] = "call"
  /\ wait_round(Proc)
  /\ UNCHANGED <<thread_group, halted, forks>>

init_loop ==
  /\ halted = "no" /\ current = initproc /\ pc[current] = "ret" /\ InKernel
  /\ IF nr_process = nr_process_store
     THEN halted' = "quit" /\ UNCHANGED <<schedVars, pc>>
     ELSE CallSchedule /\ Goto("call") /\ UNCHANGED halted
  /\ UNCHANGED <<parent, thread_group, nr_process, target, forks>>

-----------------------------------------------------------------------------
(* The rest of the kernel                                                  *)

\* An allocation or a lock inside do_fork or __do_exit blocks.
AllocWait ==
  /\ halted = "no"
  /\ \/ \E w \in Uninterruptible : KSleep(w, {"fork", "exit", "groupexit"})
     \/ \E p \in Proc : KWake(p)
  /\ UNCHANGED <<parent, thread_group, nr_process, target, halted, forks>>

\* The tick that uses up a time slice.  need_resched is read on the way out
\* of the kernel and cleared by schedule(), so one that comes while a process
\* is in the kernel is as good as one that comes when it is back.
SliceEnds ==
  /\ halted = "no" /\ ~switching
  /\ mode[current] = "user" \/ current = idleproc
  /\ Tick({}, TRUE)
  /\ UNCHANGED <<parent, thread_group, nr_process, target, halted, forks>>

Dispatch ==
  /\ halted = "no"
  /\ Enter \/ OtherCall \/ Leave \/ Switch
  /\ UNCHANGED <<parent, thread_group, nr_process, target, halted, forks>>

Halted == halted # "no" /\ UNCHANGED pvars

ProcessNext ==
  \/ \E n \in Proc \ KThread : fork_begin(n)
  \/ \E n \in Proc, thread \in BOOLEAN : fork_done(n, thread)
  \/ \E n \in Proc : fork_fail(n)
  \/ do_execve
  \/ do_exit
  \/ do_exit_thread
  \/ may_killed
  \/ \E a \in Proc : __do_exit(a)
  \/ \E p \in Proc : do_kill(p)
  \/ \E T \in {Proc} \cup {{q} : q \in Proc} : do_wait(T)
  \/ wait_resume
  \/ init_wait
  \/ init_loop
  \/ AllocWait
  \/ SliceEnds
  \/ Dispatch
  \/ Halted

ProcessSpec == ProcessInit /\ [][ProcessNext]_pvars

\* Kernel code that can run on does; the timer ticks; initproc is not
\* starved by the scheduling class.
KernelRunsOn ==
  \/ \E n \in Proc : fork_fail(n) \/ fork_done(n, FALSE)
  \/ may_killed \/ wait_resume \/ init_wait \/ init_loop
  \/ \E a \in Proc : __do_exit(a)
  \/ Dispatch /\ mode[current] = "kernel"

ProcessFairness ==
  /\ WF_pvars(KernelRunsOn)
  /\ SF_pvars(SliceEnds)
  /\ SF_pvars(Dispatch /\ schedule /\ current' = initproc)

FairProcessSpec == ProcessSpec /\ ProcessFairness

-----------------------------------------------------------------------------
(* Properties                                                              *)

ProcessTypeOK ==
  /\ TypeOK
  /\ parent \in [Proc -> Proc]
  /\ thread_group \in [Proc -> SUBSET Proc]
  /\ nr_process \in nr_process_store..Cardinality(Proc)
  /\ pc \in [Proc -> {"user", "call", "fork", "wait", "exit", "groupexit", "ret"}]
  /\ target \in [Proc -> SUBSET Proc]
  /\ halted \in {"no", "panic", "quit"} /\ forks \in 0..MaxForks

\* Every proc_struct has a live parent, the one that __do_exit wakes and that
\* do_wait compares with: an exiting process hands over all of its children,
\* zombies and children of a thread that is still being created included.
ParentAlive ==
  \A p \in Proc \ {idleproc} :
    state[p] # "FREE" => state[parent[p]] \in {"SLEEPING", "RUNNABLE"}

\* The circular lists thread_group are consistent, and only a process that is
\* alone on its list is a zombie or freed: next_thread never leads __do_exit
\* or do_wait to a dead proc_struct.
ThreadGroups ==
  \A p \in Proc :
    /\ p \in thread_group[p]
    /\ \A q \in thread_group[p] :
         /\ thread_group[q] = thread_group[p]
         /\ q # p => state[q] \in {"SLEEPING", "RUNNABLE"}

\* do_wait loses no wakeup: nobody sleeps in WT_CHILD while a child it waits
\* for, its own or one of another thread of its group, is a zombie, whichever
\* of exit, adoption, exec and reuse of the pid came in between.
NoLostChild ==
  \A p \in Proc : wait_state[p] = "WT_CHILD" =>
    ~ \E z \in target[p] : state[z] = "ZOMBIE" /\ parent[z] \in thread_group[p]

\* "parent: proc->parent (proc is children)" (proc.c:50): nobody is its own
\* child, for which do_wait(0) would wait.
ParentIsOther == \A p \in Proc \ {idleproc} : state[p] # "FREE" => parent[p] # p

\* When init_main leaves its loop the user processes have all been reaped
\* (its assertions on initproc->cptr, and what the message before them says).
InitQuitsLast ==
  halted = "quit" => \A p \in Proc \ {idleproc, initproc} : state[p] = "FREE"

\* initproc reaps the zombies it has, its own children and adopted ones.
InitReaps ==
  \A p \in Proc :
    (state[p] = "ZOMBIE" /\ parent[p] = initproc) ~> (state[p] = "FREE" \/ halted # "no")

\* Parents and thread groups stay consistent through fork, clone, exec, exit
\* and adoption by a thread or by initproc (set_links, de_thread, __do_exit).
FamilyTree == ProcessTypeOK /\ ParentAlive /\ ThreadGroups
=============================================================================

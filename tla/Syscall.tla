------------------------------ MODULE Syscall ------------------------------
(* The way of a user process into a system call and out of it again, for   *)
(* the components whose operations are system calls: trap() and            *)
(* trap_dispatch of kern/trap/trap.c around the handlers of                *)
(* kern/syscall/syscall.c.  pc is "user" outside the kernel, "call" where  *)
(* a handler starts, "ret" where trap() looks at the kill flag; the        *)
(* components add the places where their handlers sleep.                   *)
EXTENDS Sched

VARIABLE pc

PcInit == pc = [p \in Proc |-> IF p \in KThread THEN "call" ELSE "user"]

Goto(l) == pc' = [pc EXCEPT ![current] = l]

AtCall == pc[current] = "call" /\ current \notin KThread

Enter == TrapEnter /\ Goto("call")

\* A system call of another part of the kernel.
OtherCall == AtCall /\ InKernel /\ Goto("ret") /\ UNCHANGED schedVars

Leave == pc[current] = "ret" /\ TrapExit /\ Goto("user")

Switch == (schedule \/ (current = idleproc /\ CallSchedule)) /\ UNCHANGED pc

\* sys_kill
KillCall(p) == AtCall /\ Kill({p}) /\ Goto("ret")

\* sys_exit, or may_killed at the end of trap(); the members of S wait for
\* this process and are woken.
DieWaking(S) ==
  /\ AtCall \/ (pc[current] = "ret" /\ current \in exiting)
  /\ Exit(S)
  /\ Goto("ret")

Die == DieWaking({})

\* The steps of processes that have nothing to do with the component.
LiveStep ==
  \/ Enter
  \/ OtherCall
  \/ Leave
  \/ Switch
  \/ \E p \in Proc \ KThread : KillCall(p)

OtherStep == LiveStep \/ Die

\* A handler at one of the places L waits for memory or for a kernel
\* semaphore, and is woken again: by a system call of another process, or by
\* kswapd, which runs at the latest when the CPU is idle.
KSleep(w, L) == pc[current] \in L /\ Sleep(w) /\ UNCHANGED pc

KWake(p) ==
  /\ AtCall \/ current = idleproc
  /\ wait_state[p] \in Uninterruptible
  /\ Wakeup({p})
  /\ UNCHANGED pc

\* The timer interrupt; a process that it finds in user mode leaves by the
\* end of trap().
Tick(S, expired) ==
  /\ TimerIrq(S, expired)
  /\ IF mode[current] = "user" /\ ~switching THEN Goto("ret") ELSE UNCHANGED pc

=============================================================================

----------------------------------- MODULE MCIpc -----------------------------------
(***************************************************************************)
(* What processes use to name and to reach each other.  The first state    *)
(* picks one of five instances: process numbers, a user semaphore, who may *)
(* use which semaphores, a mailbox, and events.                            *)
(***************************************************************************)
EXTENDS Integers, TLC

CONSTANTS idle, p1, p2, p3

VARIABLES part, current, state, wait_state, rq, need_resched, exiting, mode, switching, pc,
          list, last_pid, next_safe, forking, value, wait_queue, wakeup_flags, valid, armed,
          posted, taken, panicked, queue, sem, qOf, loc, mstate, inuse, msgs, senders,
          receivers, mflags, timer, small, held, sent, done, excused, mpanicked, box,
          etarget, eflags, earmed, etaken

Users == {p1, p2, p3}

Symmetry == Permutations(Users)

N == INSTANCE Pid WITH MAX_PROCESS <- 5, MAX_PID <- 10
U == INSTANCE USem WITH Proc <- Users \cup {idle}, idleproc <- idle, KThread <- {idle},
        Started <- Users, Interruptible <- {"WT_USEM"}, Uninterruptible <- {}, InitValue <- 0,
        MaxPost <- 2
Q == INSTANCE SemQueue WITH Procs <- Users, Sems <- 1 .. 2
M == INSTANCE Mbox WITH Proc <- Users \cup {idle}, idleproc <- idle, KThread <- {idle},
        Started <- Users, Interruptible <- {"WT_MBOX_SEND", "WT_MBOX_RECV"},
        Uninterruptible <- {"WT_KSEM"}, MaxSlots <- 1, MaxMsg <- 2, Big <- {1},
        wakeup_flags <- mflags, panicked <- mpanicked
E == INSTANCE Event WITH Proc <- Users \cup {idle}, idleproc <- idle, KThread <- {idle},
        Started <- Users, Interruptible <- {"WT_EVENT_SEND", "WT_EVENT_RECV"},
        Uninterruptible <- {"WT_KSEM"}, target <- etarget, wakeup_flags <- eflags,
        armed <- earmed, taken <- etaken

\* The variables of an instance, and their value while another one runs.
schedVars == <<current, state, wait_state, rq, need_resched, exiting, mode, switching, pc>>
schedOff == current = 0 /\ state = 0 /\ wait_state = 0 /\ rq = 0 /\ need_resched = 0 /\
        exiting = 0 /\ mode = 0 /\ switching = 0 /\ pc = 0
pidVars == <<list, last_pid, next_safe, forking>>
pidOff == list = 0 /\ last_pid = 0 /\ next_safe = 0 /\ forking = 0
usemVars == <<value, wait_queue, wakeup_flags, valid, armed, posted, taken, panicked>>
usemOff == value = 0 /\ wait_queue = 0 /\ wakeup_flags = 0 /\ valid = 0 /\ armed = 0 /\
        posted = 0 /\ taken = 0 /\ panicked = 0
semqVars == <<queue, sem, qOf, loc>>
semqOff == queue = 0 /\ sem = 0 /\ qOf = 0 /\ loc = 0
mboxVars == <<mstate, inuse, msgs, senders, receivers, mflags, timer, small, held, sent, done,
        excused, mpanicked>>
mboxOff == mstate = 0 /\ inuse = 0 /\ msgs = 0 /\ senders = 0 /\ receivers = 0 /\ mflags = 0 /\
        timer = 0 /\ small = 0 /\ held = 0 /\ sent = 0 /\ done = 0 /\ excused = 0 /\
        mpanicked = 0
eventVars == <<box, etarget, eflags, earmed, etaken>>
eventOff == box = 0 /\ etarget = 0 /\ eflags = 0 /\ earmed = 0 /\ etaken = 0

Init ==
    \/ /\ part = "pid" /\ N!PidInit
       /\ schedOff /\ usemOff /\ semqOff /\ mboxOff /\ eventOff
    \/ /\ part = "usem" /\ U!USemInit
       /\ pidOff /\ semqOff /\ mboxOff /\ eventOff
    \/ /\ part = "semq" /\ Q!SemQueueInit
       /\ schedOff /\ pidOff /\ usemOff /\ mboxOff /\ eventOff
    \/ /\ part = "mbox" /\ M!MboxInit
       /\ pidOff /\ usemOff /\ semqOff /\ eventOff
    \/ /\ part = "event" /\ E!EventInit
       /\ pidOff /\ usemOff /\ semqOff /\ mboxOff

Next ==
    /\ UNCHANGED part
    /\ \/ /\ part = "pid" /\ N!PidNext
          /\ UNCHANGED <<schedVars, usemVars, semqVars, mboxVars, eventVars>>
       \/ /\ part = "usem" /\ U!USemNext
          /\ UNCHANGED <<pidVars, semqVars, mboxVars, eventVars>>
       \/ /\ part = "semq" /\ Q!SemQueueNext
          /\ UNCHANGED <<schedVars, pidVars, usemVars, mboxVars, eventVars>>
       \/ /\ part = "mbox" /\ M!MboxNext
          /\ UNCHANGED <<pidVars, usemVars, semqVars, eventVars>>
       \/ /\ part = "event" /\ E!EventNext
          /\ UNCHANGED <<pidVars, usemVars, semqVars, mboxVars>>

Spec == Init /\ [][Next]_<<part, schedVars, pidVars, usemVars, semqVars, mboxVars, eventVars>>

-----------------------------------------------------------------------------
\* get_pid never gives a number that is in use and always finds one, though
\* the check of nr_process is stale by then.
PidsUnique == part = "pid" => N!PidsUnique

\* Nobody sleeps for what is there, or for what can no longer come: a unit of
\* a semaphore, a freed semaphore, a slot or a message of a mailbox, an event,
\* the receiver of an event.
NoStuckSleeper ==
    /\ part = "usem" => U!NoSleepOnUnit /\ U!FreedWakesAll
    /\ part = "mbox" => M!NoStuckSender /\ M!NoStuckReceiver
    /\ part = "event" => E!NoStuckEvent

\* What is sent arrives once or is still there: each post is worth one wait, a
\* message is in one place and is lost only when its sender gives up or its
\* mailbox is freed, and send_event succeeds exactly when its event was
\* received.
DeliveredOnce ==
    /\ part = "usem" => U!TokensConserved
    /\ part = "mbox" => M!MessageOnce
    /\ part = "event" => E!EventOnce

\* A timer on the kernel's list belongs to a process that is still inside the
\* call that set it, as run_timer_list asserts: timers lie on kernel stacks.
TimerOwners ==
    /\ part = "usem" => U!TimerOwners
    /\ part = "mbox" => M!TimerOwners

\* A semaphore lives as long as a process can name it, a queue of semaphores
\* as long as a process has it, and a mailbox as long as somebody is inside.
IpcLifetimes ==
    /\ part = "semq" => Q!SemRefs
    /\ part = "mbox" => M!FreedWhenEmpty
=============================================================================

------------------------------- MODULE Timer -------------------------------
(* The timer list of kern/schedule/sched.c and its simplest client,        *)
(* do_sleep, running on the scheduler core.  The list holds differences:   *)
(* a timer goes off the sum of the expires up to its own from now.  A      *)
(* timer lives on its owner's kernel stack, so it is named by its owner.   *)
EXTENDS Sched, Integers, Sequences

CONSTANT MaxTime  \* the longest sleep asked for

ASSUME MaxTimeAssumption == MaxTime \in Nat \ {0}

ASSUME TimerWaitAssumption == "WT_TIMER" \in Interruptible

VARIABLES timer_list,  \* the owners of the linked timers, in list order
          expires,     \* timer->expires, which outlives the link
          asleep       \* the processes between add_timer and del_timer of do_sleep

timerVars == <<timer_list, expires, asleep>>

vars == <<schedVars, timerVars>>

TimerInit ==
  /\ SchedInit
  /\ timer_list = <<>>
  /\ expires = [p \in Proc |-> 0]
  /\ asleep = {}

-----------------------------------------------------------------------------

\* The processes whose timer is linked.
Linked == {timer_list[i] : i \in 1..Len(timer_list)}

\* Where p's timer is in the list.
Place(p) == CHOOSE i \in 1..Len(timer_list) : timer_list[i] = p

\* The ticks until each timer of the list goes off.
Due(list, exp) ==
  LET due[i \in 0..Len(list)] == IF i = 0 THEN 0 ELSE due[i - 1] + exp[list[i]]
  IN  due

InsertAt(s, i, x) == SubSeq(s, 1, i - 1) \o <<x>> \o SubSeq(s, i, Len(s))

RemoveAt(s, i) == SubSeq(s, 1, i - 1) \o SubSeq(s, i + 1, Len(s))

MutAddTimer(p, n) ==
  LET due == Due(timer_list, expires)
      later == {i \in 1..Len(timer_list) : n < due[i]}
      at == IF later = {} THEN Len(timer_list) + 1 ELSE CHOOSE i \in later : \A j \in later : i <= j
  IN  /\ timer_list' = InsertAt(timer_list, at, p)
      /\ expires' = [expires EXCEPT ![p] = n - due[at - 1]]

\* add_timer: p's timer goes before the first timer that is due later than n
\* ticks from now; its own difference is what is left of n there, and that
\* timer's difference shrinks by as much.
add_timer(p, n) ==
  LET due == Due(timer_list, expires)
      later == {i \in 1..Len(timer_list) : n < due[i]}
      at == IF later = {} THEN Len(timer_list) + 1 ELSE CHOOSE i \in later : \A j \in later : i <= j
      left == n - due[at - 1]
  IN  /\ timer_list' = InsertAt(timer_list, at, p)
      /\ expires' = [q \in Proc |-> IF q = p THEN left
                                    ELSE IF later # {} /\ q = timer_list[at]
                                         THEN expires[q] - left ELSE expires[q]]

MutDelTimer(p) ==
  /\ timer_list' = SelectSeq(timer_list, LAMBDA q : q # p)
  /\ expires' = expires

\* del_timer: the next timer inherits the difference; nothing happens to a
\* timer that is not linked any more.
del_timer(p) ==
  LET i == Place(p)
  IN  IF p \in Linked
      THEN /\ timer_list' = RemoveAt(timer_list, i)
           /\ expires' = [q \in Proc |-> IF i < Len(timer_list) /\ q = timer_list[i + 1]
                                         THEN expires[q] + expires[p] ELSE expires[q]]
      ELSE UNCHANGED <<timer_list, expires>>

\* The list once run_timer_list has counted the tick off its first timer.
Counted == [p \in Proc |-> IF timer_list # <<>> /\ p = Head(timer_list)
                           THEN expires[p] - 1 ELSE expires[p]]

MutExpiredLen ==
  IF timer_list # <<>> /\ Counted[Head(timer_list)] = 0 THEN 1 ELSE 0

\* How many timers go off: the first ones whose difference is now 0.
ExpiredLen ==
  LET n == {i \in 1..Len(timer_list) : \A j \in 1..i : Counted[timer_list[j]] = 0}
  IN  IF n = {} THEN 0 ELSE CHOOSE i \in n : \A j \in n : j <= i

MutExpired == IF ExpiredLen = 0 THEN {} ELSE {timer_list[1]}

Expired == {timer_list[i] : i \in 1..ExpiredLen}

-----------------------------------------------------------------------------
(* The actions                                                             *)

\* The timer interrupt: run_timer_list and the tick of the current process.
TimerTick(expired) ==
  /\ TimerIrq(Expired, expired)
  /\ timer_list' = SubSeq(timer_list, ExpiredLen + 1, Len(timer_list))
  /\ expires' = Counted
  /\ UNCHANGED asleep

\* do_sleep up to schedule().
do_sleep(time) ==
  /\ current \notin KThread /\ current \notin asleep
  /\ Sleep("WT_TIMER")
  /\ add_timer(current, time)
  /\ asleep' = asleep \cup {current}

MutSleepDone ==
  /\ InKernel /\ current \in asleep
  /\ asleep' = asleep \ {current}
  /\ UNCHANGED <<schedVars, timer_list, expires>>

\* do_sleep after schedule(): del_timer, and out of the system call.
SleepDone ==
  /\ InKernel /\ current \in asleep
  /\ asleep' = asleep \ {current}
  /\ del_timer(current)
  /\ UNCHANGED schedVars

\* Everything else the processes do; a process in do_sleep is not at the end
\* of its trap.
Rest ==
  /\ \/ schedule
     \/ TrapEnter
     \/ TrapExit /\ current \notin asleep
     \/ CallSchedule
     \/ \E p \in Proc \ KThread : Kill({p}) /\ current \notin asleep
     \/ Exit({}) /\ current \notin KThread /\ current \notin asleep
  /\ UNCHANGED timerVars

TimerNext ==
  \/ \E expired \in BOOLEAN : TimerTick(expired)
  \/ \E time \in 1..MaxTime : do_sleep(time)
  \/ SleepDone
  \/ Rest

TimerSpec == TimerInit /\ [][TimerNext]_vars

\* The hardware timer ticks.
FairTimerSpec == TimerSpec /\ WF_vars(\E expired \in BOOLEAN : TimerTick(expired))

-----------------------------------------------------------------------------
(* Properties                                                              *)

TimerTypeOK ==
  /\ TypeOK
  /\ timer_list \in Seq(Proc)
  /\ expires \in [Proc -> 0..MaxTime]
  /\ asleep \subseteq Proc

\* A linked timer's owner is inside do_sleep: the timer_t is on its kernel
\* stack, and the list holds no pointer to a frame that was left.
NoDanglingTimer ==
  /\ Linked \subseteq asleep
  /\ \A i, j \in 1..Len(timer_list) : i # j => timer_list[i] # timer_list[j]

RemainingOf(p) ==
  IF p \in Linked
  THEN Due(timer_list, expires)[Place(p)] ELSE 0

Abs == INSTANCE TimerAbs WITH remaining <- [p \in Proc |-> RemainingOf(p)]

\* The list of differences (add_timer, del_timer, run_timer_list) implements
\* independent countdowns: each owner is woken at exactly its own tick.
ImplementsCountdowns == Abs!AbsSpec

\* Whenever a tick may come, the assertions of run_timer_list and of
\* wakeup_proc hold: the first timer is not due yet (one due with the timer
\* before it has difference 0 and is never first), the owners to wake sleep
\* interruptibly or were woken by a kill already, and none is a zombie.
TickAsserts ==
  /\ timer_list # <<>> => expires[Head(timer_list)] > 0
  /\ IrqWakes(Expired)

\* Every sleep ends: the timer that do_sleep arms wakes its caller.
SleepEnds == \A p \in Proc : state[p] = "SLEEPING" ~> state[p] # "SLEEPING"

\* The timers of do_sleep: the list points to live stack frames only, each
\* once, and a tick that comes now passes the assertions of run_timer_list.
TimersOk == TimerTypeOK /\ NoDanglingTimer /\ TickAsserts
=============================================================================

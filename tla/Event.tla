------------------------------- MODULE Event -------------------------------
(* Events sent from one process to another: ipc_event_send and             *)
(* ipc_event_recv of kern/sync/event.c, with timeouts and kills.  A sender *)
(* waits in the event box of the process it sends to; __do_exit of that    *)
(* process sends the waiters away.  Event values are not told apart: a     *)
(* sender has one event at a time, which stays in its own box.             *)
EXTENDS Syscall, Sequences, SequencesExt

VARIABLES box,           \* the senders linked into proc->event_box.wait_queue
          target,        \* the process a sender waits for
          wakeup_flags,  \* wait->wakeup_flags of the sender's wait_t
          armed,         \* the processes whose timer is linked
          taken          \* the senders inside send_event whose event was received

evars == <<schedVars, pc, box, target, wakeup_flags, armed, taken>>

\* event_box_init
EventInit ==
  /\ SchedInit /\ PcInit
  /\ box = [p \in Proc |-> <<>>]
  /\ target = [p \in Proc |-> idleproc]
  /\ wakeup_flags = [p \in Proc |-> "WT_INTERRUPTED"]
  /\ armed = {} /\ taken = {}

Arm(timed) == armed' = IF timed THEN armed \cup {current} ELSE armed

\* ipc_event_send up to schedule(): a receiver that sleeps is woken, and the
\* sender linked.
ipc_event_send(q, timed) ==
  /\ AtCall /\ q \notin KThread \cup {current} /\ state[q] \notin {"FREE", "ZOMBIE"}
  /\ SleepAndWake("WT_EVENT_SEND", {p \in {q} : wait_state[p] = "WT_EVENT_RECV"})
  /\ box' = [box EXCEPT ![q] = Append(@, current)]
  /\ target' = [target EXCEPT ![current] = q]
  /\ wakeup_flags' = [wakeup_flags EXCEPT ![current] = "WT_INTERRUPTED"]
  /\ Arm(timed)
  /\ Goto("send")
  /\ UNCHANGED taken

\* send_event after schedule(): wait_current_del unlinks the wait_t if nobody
\* did.
send_event_resume ==
  /\ InKernel /\ pc[current] = "send"
  /\ box' = [box EXCEPT ![target[current]] = Remove(@, current)]
  /\ target' = [target EXCEPT ![current] = idleproc]
  /\ wakeup_flags' = [wakeup_flags EXCEPT ![current] = "WT_INTERRUPTED"]
  /\ armed' = armed \ {current} /\ taken' = taken \ {current}
  /\ Goto("ret")
  /\ UNCHANGED schedVars

\* recv_event with an empty box, up to schedule().
recv_event_sleep(timed) ==
  /\ AtCall /\ box[current] = <<>>
  /\ Sleep("WT_EVENT_RECV")
  /\ Arm(timed)
  /\ Goto("recv")
  /\ UNCHANGED <<box, target, wakeup_flags, taken>>

\* recv_event takes the event of the first sender, woken or not, if there is
\* one: the one that woke it may have left in between.
recv_event ==
  LET S == IF box[current] = <<>> THEN {} ELSE {Head(box[current])} IN
  /\ \/ AtCall /\ box[current] # <<>>
     \/ pc[current] = "recv"
  /\ Wakeup(S)
  /\ box' = [box EXCEPT ![current] = IF @ = <<>> THEN @ ELSE Tail(@)]
  /\ wakeup_flags' = [p \in Proc |-> IF p \in S THEN "WT_EVENT_SEND" ELSE wakeup_flags[p]]
  /\ taken' = taken \cup S
  /\ armed' = armed \ {current}
  /\ Goto("ret")
  /\ UNCHANGED target

\* The end of __do_exit: a zombie's box is empty, and nobody finds it again.
exit_event ==
  /\ DieWaking(ToSet(box[current]))
  /\ box' = [box EXCEPT ![current] = <<>>]
  /\ UNCHANGED <<target, wakeup_flags, armed, taken>>

\* The timer interrupt; it takes the timers that go off from the list.
EventTick(S, expired) ==
  /\ Tick(S, expired)
  /\ armed' = armed \ S
  /\ UNCHANGED <<box, target, wakeup_flags, taken>>

EventRest == LiveStep /\ UNCHANGED <<box, target, wakeup_flags, armed, taken>>

EventNext ==
  \/ \E q \in Proc, timed \in BOOLEAN : ipc_event_send(q, timed)
  \/ send_event_resume
  \/ \E timed \in BOOLEAN : recv_event_sleep(timed)
  \/ recv_event
  \/ exit_event
  \/ \E S \in SUBSET armed, expired \in BOOLEAN : EventTick(S, expired)
  \/ EventRest

EventSpec == EventInit /\ [][EventNext]_evars

-----------------------------------------------------------------------------
(* Properties                                                              *)

\* No lost wakeup: nobody sleeps in ipc_event_recv with a sender in its box,
\* and a sender that sleeps is linked into the box of a process that can
\* still receive (__do_exit empties the box of a process that cannot).
NoStuckEvent ==
  \A p \in Proc :
    /\ wait_state[p] = "WT_EVENT_RECV" => box[p] = <<>>
    /\ wait_state[p] = "WT_EVENT_SEND" =>
         /\ Contains(box[target[p]], p)
         /\ state[target[p]] \notin {"FREE", "ZOMBIE"}

\* ipc_event_send reports success exactly when the event was received, also
\* when a kill or a timeout comes before the sender runs; an event that was
\* received is not there to be received again.
EventOnce ==
  \A p \in Proc :
    /\ pc[p] = "send" => (wakeup_flags[p] = "WT_EVENT_SEND" <=> p \in taken)
    /\ p \in taken => \A q \in Proc : ~Contains(box[q], p)

=============================================================================

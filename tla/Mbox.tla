-------------------------------- MODULE Mbox --------------------------------
(* A mailbox: ipc_mbox_init, send, recv and free of kern/sync/mbox.c, with *)
(* timeouts and kills.  One slot of mbox_map is modelled: ipc_mbox_free    *)
(* makes its id available again, when the last process inside it leaves.   *)
(*                                                                         *)
(* A message is a number; those in Big do not fit into a small buffer.     *)
(* slots is Len(msgs): it differs only in a mailbox that is CLOSING, where *)
(* nobody reads it.  What comes before send_msg and recv_msg (locking the  *)
(* mm, copying, load_msg) may sleep, but the mailbox is looked up again    *)
(* afterwards.                                                             *)
EXTENDS Syscall, Integers, Sequences, SequencesExt, FiniteSets

CONSTANTS MaxSlots,  \* max_slots of the mailbox
          MaxMsg,    \* bound on the number of messages sent
          Big        \* the messages longer than a small buffer

VARIABLES mstate,        \* mbox->state
          inuse,         \* mbox->inuse
          msgs,          \* the messages, in the order of mbox->msg_link
          senders,       \* the wait queues
          receivers,
          wakeup_flags,  \* wait->wakeup_flags of the process's wait_t
          timer,         \* the process's timer: "none", "set" (not linked),
                         \* "linked", "zero" (not linked, expires is 0)
          small,         \* the receivers with a small buffer
          held,          \* the message a sender wants to send, or a receiver
                         \* has taken and not yet copied; 0 is none
          sent,          \* how many messages there were
          done,          \* the messages copied to a receiver
          excused,       \* (history) the messages that may be lost: the sender
                         \* gave up, or the mailbox was freed while they were
                         \* in it or with a receiver
          panicked

queueVars == <<msgs, senders, receivers, wakeup_flags>>

mvars == <<schedVars, pc, queueVars, mstate, inuse, timer, small, held, sent, done, excused, panicked>>

MboxInit ==
  /\ SchedInit /\ PcInit
  /\ mstate = "CLOSED" /\ inuse = 0 /\ msgs = <<>>
  /\ senders = <<>> /\ receivers = <<>>
  /\ wakeup_flags = [p \in Proc |-> "WT_INTERRUPTED"]
  /\ timer = [p \in Proc |-> "none"]
  /\ small = {} /\ held = [p \in Proc |-> 0]
  /\ sent = 0 /\ done = {} /\ excused = {} /\ panicked = FALSE

\* The processes inside send_msg and recv_msg.
Inside == {p \in Proc : pc[p] \in {"send", "recv"}}

-----------------------------------------------------------------------------
(* wait queues and timers                                                  *)

\* Whom wakeup_first(queue, ..., 1) wakes, and what it leaves.
First(q) == IF q = <<>> THEN {} ELSE {Head(q)}

Rest(q) == IF q = <<>> THEN <<>> ELSE Tail(q)

\* The current process has no wait_t in use.
Flagged(S, w) ==
  [p \in Proc |-> IF p \in S THEN w ELSE IF p = current THEN "WT_INTERRUPTED" ELSE wakeup_flags[p]]

\* wait_current_set, and ipc_add_timer with a timer in state t: add_timer
\* asserts that expires is not 0.
Block(w, t) ==
  IF t = "zero"
  THEN InKernel /\ panicked' = TRUE /\ UNCHANGED <<schedVars, timer, wakeup_flags>>
  ELSE /\ Sleep(w)
       /\ timer' = [timer EXCEPT ![current] = IF t = "set" THEN "linked" ELSE t]
       /\ wakeup_flags' = Flagged({current}, "WT_INTERRUPTED")
       /\ UNCHANGED panicked

Linked == {p \in Proc : timer[p] = "linked"}

\* ipc_timer_init
NewTimer == {"none", "set"}

\* ipc_del_timer leaves in expires what was left relative to the timer before
\* it in the list: 0 when the two go off together.
DelTimer ==
  IF timer[current] # "linked" THEN {timer[current]}
  ELSE {"set"} \cup {"zero" : p \in Linked \ {current}}

-----------------------------------------------------------------------------
(* ipc_mbox_send                                                           *)

\* add_msg: the list becomes s, and a receiver is woken.
AddMsg(s) ==
  /\ msgs' = s
  /\ Wakeup(First(receivers))
  /\ wakeup_flags' = Flagged(First(receivers), "WT_MBOX_RECV")
  /\ receivers' = Rest(receivers)

\* One round of send_msg's loop for message m: the process is counted in n
\* and off the queue q, its timer is t.
SendRound(m, q, t, n) ==
  \/ /\ Len(msgs) < MaxSlots
     /\ AddMsg(Append(msgs, m))
     /\ senders' = q
     /\ inuse' = n - 1
     /\ timer' = [timer EXCEPT ![current] = "none"]
     /\ held' = [held EXCEPT ![current] = 0]
     /\ Goto("ret")
     /\ UNCHANGED panicked
  \/ /\ MaxSlots <= Len(msgs)
     /\ Block("WT_MBOX_SEND", t)
     /\ senders' = Append(q, current)
     /\ inuse' = n
     /\ held' = [held EXCEPT ![current] = m]
     /\ Goto("send")
     /\ UNCHANGED <<msgs, receivers>>

\* ipc_mbox_send up to the first sleep.
mbox_send ==
  /\ ~panicked /\ AtCall /\ mstate = "OPENED" /\ sent < MaxMsg
  /\ sent' = sent + 1
  /\ \E t \in NewTimer : SendRound(sent', senders, t, inuse + 1)
  /\ UNCHANGED <<mstate, small, done, excused>>

\* send_msg after schedule(), woken because there was a free slot.
send_again ==
  /\ ~panicked /\ pc[current] = "send"
  /\ mstate = "OPENED" /\ wakeup_flags[current] = "WT_MBOX_SEND"
  /\ \E t \in DelTimer : SendRound(held[current], Remove(senders, current), t, inuse)
  /\ UNCHANGED <<mstate, small, sent, done, excused>>

-----------------------------------------------------------------------------
(* ipc_mbox_recv                                                           *)

MutTooBig(q) ==
  /\ InKernel /\ receivers' = q
  /\ UNCHANGED <<schedVars, wakeup_flags>>

\* The first message does not fit: leave it to the next receiver.
TooBig(q) ==
  /\ Wakeup(First(q))
  /\ wakeup_flags' = Flagged(First(q), "WT_MBOX_RECV")
  /\ receivers' = Rest(q)

MutPickMsg ==
  /\ msgs' = Tail(msgs)
  /\ InKernel /\ UNCHANGED <<schedVars, wakeup_flags, senders>>

\* pick_msg wakes a sender.
PickMsg ==
  /\ msgs' = Tail(msgs)
  /\ Wakeup(First(senders))
  /\ wakeup_flags' = Flagged(First(senders), "WT_MBOX_SEND")
  /\ senders' = Rest(senders)

\* One round of recv_msg's loop, for a buffer that is small or not.
RecvRound(s, q, t, n) ==
  \/ /\ msgs = <<>>
     /\ Block("WT_MBOX_RECV", t)
     /\ receivers' = Append(q, current)
     /\ inuse' = n
     /\ small' = IF s THEN small \cup {current} ELSE small
     /\ Goto("recv")
     /\ UNCHANGED <<msgs, senders, held>>
  \/ /\ msgs # <<>>
     /\ inuse' = n - 1
     /\ timer' = [timer EXCEPT ![current] = "none"]
     /\ small' = small \ {current}
     /\ IF s /\ Head(msgs) \in Big
        THEN TooBig(q) /\ Goto("ret") /\ UNCHANGED <<msgs, senders, held>>
        ELSE /\ PickMsg
             /\ receivers' = q
             /\ held' = [held EXCEPT ![current] = Head(msgs)]
             /\ Goto("copy")
     /\ UNCHANGED panicked

mbox_recv(s) ==
  /\ ~panicked /\ AtCall /\ mstate = "OPENED"
  /\ \E t \in NewTimer : RecvRound(s, receivers, t, inuse + 1)
  /\ UNCHANGED <<mstate, sent, done, excused>>

recv_again ==
  /\ ~panicked /\ pc[current] = "recv"
  /\ mstate = "OPENED" /\ wakeup_flags[current] = "WT_MBOX_RECV"
  /\ \E t \in DelTimer : RecvRound(current \in small, Remove(receivers, current), t, inuse)
  /\ UNCHANGED <<mstate, sent, done, excused>>

MutGiveUpTimer ==
  /\ ~panicked /\ current \in Inside /\ InKernel
  /\ mstate # "OPENED" \/ wakeup_flags[current] = "WT_INTERRUPTED"
  /\ senders' = Remove(senders, current)
  /\ receivers' = Remove(receivers, current)
  /\ inuse' = inuse - 1
  /\ mstate' = IF mstate = "CLOSING" /\ inuse' = 0 THEN "CLOSED" ELSE mstate
  /\ excused' = excused \cup ({held[current]} \ {0})
  /\ held' = [held EXCEPT ![current] = 0]
  /\ small' = small \ {current}
  /\ Goto("ret")
  /\ UNCHANGED <<schedVars, msgs, timer, wakeup_flags, sent, done, panicked>>

\* send_msg and recv_msg after schedule(), when a timer or a kill ended the
\* wait or the mailbox is being closed; the last one out frees it.
GiveUp ==
  /\ ~panicked /\ current \in Inside /\ InKernel
  /\ mstate # "OPENED" \/ wakeup_flags[current] = "WT_INTERRUPTED"
  /\ senders' = Remove(senders, current)
  /\ receivers' = Remove(receivers, current)
  /\ inuse' = inuse - 1
  /\ mstate' = IF mstate = "CLOSING" /\ inuse' = 0 THEN "CLOSED" ELSE mstate
  /\ excused' = excused \cup ({held[current]} \ {0})
  /\ timer' = [timer EXCEPT ![current] = "none"]
  /\ held' = [held EXCEPT ![current] = 0]
  /\ small' = small \ {current}
  /\ Goto("ret")
  /\ wakeup_flags' = Flagged({}, "")
  /\ UNCHANGED <<schedVars, msgs, sent, done, panicked>>

\* The end of ipc_mbox_recv: the message is copied to the receiver.
recv_copied ==
  /\ ~panicked /\ pc[current] = "copy" /\ InKernel
  /\ done' = done \cup {held[current]}
  /\ held' = [held EXCEPT ![current] = 0]
  /\ Goto("ret")
  /\ UNCHANGED <<schedVars, queueVars, mstate, inuse, timer, small, sent, excused, panicked>>

MutPutBack ==
  /\ ~panicked /\ pc[current] = "copy" /\ InKernel
  /\ held' = [held EXCEPT ![current] = 0]
  /\ Goto("ret")
  /\ UNCHANGED <<schedVars, queueVars, mstate, inuse, timer, small, sent, done, excused, panicked>>

\* It cannot be copied, and goes back to the front if a mailbox with that id
\* is still there.
put_back ==
  /\ ~panicked /\ pc[current] = "copy"
  /\ IF mstate = "OPENED"
     THEN AddMsg(<<held[current]>> \o msgs) /\ UNCHANGED senders
     ELSE InKernel /\ UNCHANGED <<schedVars, queueVars>>
  /\ held' = [held EXCEPT ![current] = 0]
  /\ Goto("ret")
  /\ UNCHANGED <<mstate, inuse, timer, small, sent, done, excused, panicked>>

-----------------------------------------------------------------------------
(* ipc_mbox_init and ipc_mbox_free                                         *)

MutMboxInit ==
  /\ ~panicked /\ AtCall /\ InKernel /\ mstate # "OPENED"
  /\ mstate' = "OPENED" /\ inuse' = 0
  /\ Goto("ret")
  /\ UNCHANGED <<schedVars, queueVars, timer, small, held, sent, done, excused, panicked>>

mbox_init ==
  /\ ~panicked /\ AtCall /\ InKernel /\ mstate = "CLOSED"
  /\ mstate' = "OPENED"
  /\ Goto("ret")
  /\ UNCHANGED <<schedVars, queueVars, inuse, timer, small, held, sent, done, excused, panicked>>

MutMboxFree ==
  /\ ~panicked /\ AtCall /\ mstate = "OPENED"
  /\ msgs' = <<>>
  /\ excused' = excused \cup ToSet(msgs) \cup {held[p] : p \in {q \in Proc : pc[q] = "copy"}}
  /\ Wakeup(ToSet(senders) \cup ToSet(receivers))
  /\ wakeup_flags' = Flagged(ToSet(senders) \cup ToSet(receivers), "WT_INTERRUPTED")
  /\ senders' = <<>> /\ receivers' = <<>>
  /\ mstate' = "CLOSED"
  /\ Goto("ret")
  /\ UNCHANGED <<inuse, timer, small, held, sent, done, panicked>>

mbox_free ==
  /\ ~panicked /\ AtCall /\ mstate = "OPENED"
  /\ msgs' = <<>>
  /\ excused' = excused \cup ToSet(msgs) \cup {held[p] : p \in {q \in Proc : pc[q] = "copy"}}
  /\ Wakeup(ToSet(senders) \cup ToSet(receivers))
  /\ wakeup_flags' = Flagged(ToSet(senders) \cup ToSet(receivers), "WT_INTERRUPTED")
  /\ senders' = <<>> /\ receivers' = <<>>
  /\ mstate' = IF inuse = 0 THEN "CLOSED" ELSE "CLOSING"
  /\ Goto("ret")
  /\ UNCHANGED <<inuse, timer, small, held, sent, done, panicked>>

-----------------------------------------------------------------------------

\* The timer interrupt, with the timers of S going off.
TimerTick(S) ==
  /\ ~panicked
  /\ Tick(S, mode[current] = "user" \/ current = idleproc)
  /\ timer' = [p \in Proc |-> IF p \in S THEN "zero" ELSE timer[p]]
  /\ UNCHANGED <<queueVars, mstate, inuse, small, held, sent, done, excused, panicked>>

\* Other steps; copying a message to user space may wait for the mm's lock.
Others ==
  /\ ~panicked
  /\ \/ OtherStep
     \/ \E w \in Uninterruptible : KSleep(w, {"copy"})
     \/ \E p \in Proc : KWake(p)
  /\ UNCHANGED <<queueVars, mstate, inuse, timer, small, held, sent, done, excused, panicked>>

\* panic() ends in the kernel monitor.
Halted == panicked /\ UNCHANGED mvars

MboxNext ==
  \/ mbox_send
  \/ send_again
  \/ \E s \in BOOLEAN : mbox_recv(s)
  \/ recv_again
  \/ GiveUp
  \/ recv_copied
  \/ put_back
  \/ mbox_init
  \/ mbox_free
  \/ \E S \in SUBSET Linked : TimerTick(S)
  \/ Others
  \/ Halted

MboxSpec == MboxInit /\ [][MboxNext]_mvars

-----------------------------------------------------------------------------
(* Properties                                                              *)

Flags == {"WT_INTERRUPTED", "WT_MBOX_SEND", "WT_MBOX_RECV"}

MboxTypeOK ==
  /\ TypeOK
  /\ pc \in [Proc -> {"user", "call", "send", "recv", "copy", "ret"}]
  /\ mstate \in {"CLOSED", "OPENED", "CLOSING"} /\ inuse \in Nat
  /\ msgs \in Seq(1..MaxMsg) /\ senders \in Seq(Proc) /\ receivers \in Seq(Proc)
  /\ wakeup_flags \in [Proc -> Flags]
  /\ timer \in [Proc -> {"none", "set", "linked", "zero"}]
  /\ small \in SUBSET Proc /\ held \in [Proc -> 0..MaxMsg]
  /\ sent \in 0..MaxMsg /\ done \in SUBSET (1..MaxMsg) /\ excused \in SUBSET (1..MaxMsg)
  /\ panicked \in BOOLEAN

\* inuse counts the processes inside, so a mailbox is freed, and its id given
\* to a new one, only when nobody will come back to it: the assertions of
\* mbox_free hold.
FreedWhenEmpty ==
  /\ inuse = Cardinality(Inside)
  /\ mstate = "CLOSED" => Inside = {} /\ msgs = <<>>
  /\ mstate # "OPENED" => senders = <<>> /\ receivers = <<>>

\* The processes that wakeup_first woke and that have not run since.
Woken(w) == {p \in Inside : wakeup_flags[p] = w}

\* No sender sleeps unless every free slot is spoken for by a sender that was
\* woken for it; a slot taken by a newcomer puts it back to sleep.
NoStuckSender ==
  (\E p \in Proc : wait_state[p] = "WT_MBOX_SEND") =>
    Cardinality(Woken("WT_MBOX_SEND")) >= MaxSlots - Len(msgs)

\* No receiver sleeps unless every message is spoken for by a receiver that
\* was woken for it, also when one of them turns it down as too big or puts
\* it back.
NoStuckReceiver ==
  (\E p \in Proc : wait_state[p] = "WT_MBOX_RECV") =>
    Cardinality(Woken("WT_MBOX_RECV")) >= Len(msgs)

\* A message is in one place (the mailbox, a sender, a receiver, or copied) and
\* is not lost on the way, also when a receiver cannot copy it and puts it
\* back, unless its sender gave up or the mailbox was freed under it.
MessageOnce ==
  /\ \A i, j \in 1..Len(msgs) : msgs[i] = msgs[j] => i = j
  /\ \A p \in Proc : held[p] # 0 =>
       /\ held[p] \notin ToSet(msgs) \cup done
       /\ \A q \in Proc \ {p} : held[q] # held[p]
  /\ ToSet(msgs) \cap done = {}
  /\ 1 .. sent \subseteq ToSet(msgs) \cup {held[p] : p \in Proc} \cup done \cup excused

\* A linked timer belongs to a process inside that sleeps interruptibly or
\* was woken, as run_timer_list asserts when it goes off.
TimerOwners == Linked \subseteq Inside /\ IrqWakes(Linked)

\* "assert(timer->expires > 0 && timer->proc != NULL)" (sched.c:113) holds
\* whenever send_msg or recv_msg sets its timer.
AddTimerAssert == ~panicked

=============================================================================

------------------------------- MODULE Spipe -------------------------------
(***************************************************************************)
(* The user library's pipe, user/libs/spipe.c: a ring in shared memory     *)
(* under one user semaphore.  A forked process has a handle of its own,    *)
(* threads share one.  The semaphore is the sequence of those that want    *)
(* it, the first one inside.  The k-th byte written is k.                  *)
(***************************************************************************)
EXTENDS Integers, Sequences, FiniteSets, SequencesExt

CONSTANTS
    Procs, Handle,      \* Handle[p]: the handle the process or thread uses
    SPIPE_BUFSIZE,
    Lengths,            \* sizes of reads and writes
    MaxBytes,           \* bytes ever written, below where size_t wraps
    MaxKills

VARIABLES
    state,      \* the shared page: [rpos, wpos, closed, buf]
    isclosed,   \* per handle: closed, and its page unmapped
    spipe_sem, loc,
    bad         \* what went wrong: a read of the wrong byte, a page not there, an early end

spipeVars == <<state, isclosed, spipe_sem, loc, bad>>

Handles == {Handle[p] : p \in Procs}
User == [op |-> "none", n |-> 0, again |-> FALSE]

SpipeInit ==
    /\ state = [rpos |-> 0, wpos |-> 0, closed |-> FALSE, buf |-> [i \in 0 .. SPIPE_BUFSIZE - 1 |-> 0]]
    /\ isclosed = [h \in Handles |-> FALSE]
    /\ spipe_sem = <<>> /\ bad = {}
    /\ loc = [p \in Procs |-> User]

Closed(p) == isclosed[Handle[p]]
Busy(p) == Contains(spipe_sem, p)
Killed(p) == loc[p].op = "killed"
Goto(p, l) == loc' = [loc EXCEPT ![p] = l]

(* A call: nothing on a closed handle, else sem_wait.                      *)
Call(p, op, n) ==
    /\ loc[p] = User /\ ~ Closed(p)
    /\ spipe_sem' = Append(spipe_sem, p)
    /\ Goto(p, [op |-> op, n |-> n, again |-> FALSE])
    /\ UNCHANGED <<state, isclosed, bad>>

(* try_again, after the yield.                                             *)
TryAgain(p) ==
    /\ loc[p].again /\ ~ Busy(p)
    /\ IF Closed(p) THEN Goto(p, User) /\ UNCHANGED spipe_sem
       ELSE Goto(p, [loc[p] EXCEPT !.again = FALSE]) /\ spipe_sem' = Append(spipe_sem, p)
    /\ UNCHANGED <<state, isclosed, bad>>

Inside(p) == spipe_sem # <<>> /\ Head(spipe_sem) = p /\ ~ Killed(p)
Post == spipe_sem' = Tail(spipe_sem)
__spipeclose_nolock(p) == isclosed' = [isclosed EXCEPT ![Handle[p]] = TRUE]

MutIsclosed(p, read) == Closed(p) \/ state.closed

(* __spipeisclosed_nolock: a reader goes on until the ring is drained.     *)
__spipeisclosed_nolock(p, read) == Closed(p) \/ (state.closed /\ (~ read \/ state.rpos >= state.wpos))

(* When it finds the pipe closed and drained it closes the handle too.     *)
FoundClosed(p, read) ==
    /\ __spipeisclosed_nolock(p, read)
    /\ IF Closed(p) \/ state.rpos < state.wpos THEN UNCHANGED isclosed ELSE __spipeclose_nolock(p)
    /\ bad' = IF read /\ ~ Closed(p) /\ state.rpos < state.wpos THEN bad \cup {"early end"} ELSE bad
    /\ Post /\ Goto(p, User) /\ UNCHANGED state

(* The ring is used: the handle's page had better be there.                *)
Touch(p, wrong) ==
    bad' = bad \cup (IF Closed(p) THEN {"unmapped"} ELSE {}) \cup (IF wrong THEN {"byte"} ELSE {})

spiperead(p) ==
    LET n == IF loc[p].n < state.wpos - state.rpos THEN loc[p].n ELSE state.wpos - state.rpos
        out == [i \in 1 .. n |-> state.buf[(state.rpos + i - 1) % SPIPE_BUFSIZE]]
    IN  /\ Inside(p) /\ loc[p].op = "read"
        /\ \/ FoundClosed(p, TRUE)
           \/ /\ ~ __spipeisclosed_nolock(p, TRUE)
              /\ Touch(p, \E i \in 1 .. n : out[i] # state.rpos + i)
              /\ state' = [state EXCEPT !.rpos = @ + n]
              /\ Goto(p, IF n = 0 THEN [loc[p] EXCEPT !.again = TRUE] ELSE User)
              /\ Post /\ UNCHANGED isclosed

Room == SPIPE_BUFSIZE - (state.wpos - state.rpos)

(* As many bytes as fit, then the lock is dropped for the rest.            *)
spipewrite(p) ==
    LET n == IF loc[p].n < Room THEN loc[p].n ELSE Room
        at(i) == state.wpos + i
    IN  /\ Inside(p) /\ loc[p].op = "write"
        /\ \/ FoundClosed(p, FALSE)
           \/ /\ ~ __spipeisclosed_nolock(p, FALSE)
              /\ Touch(p, FALSE)
              /\ state' = [state EXCEPT !.wpos = @ + n, !.buf = [i \in DOMAIN @ |->
                              LET k == {j \in 0 .. n - 1 : at(j) % SPIPE_BUFSIZE = i}
                              IN  IF k = {} THEN @[i] ELSE at(CHOOSE j \in k : \A m \in k : m <= j) + 1]]
              /\ Goto(p, IF n = loc[p].n THEN User ELSE [loc[p] EXCEPT !.n = @ - n, !.again = TRUE])
              /\ Post /\ UNCHANGED isclosed

spipeclose(p) ==
    /\ Inside(p) /\ loc[p].op = "close"
    /\ IF Closed(p) THEN UNCHANGED <<state, isclosed>>
       ELSE state' = [state EXCEPT !.closed = TRUE] /\ __spipeclose_nolock(p)
    /\ Post /\ Goto(p, User) /\ UNCHANGED bad

spipeisclosed(p) ==
    /\ Inside(p) /\ loc[p].op = "isclosed"
    /\ \/ FoundClosed(p, FALSE)
       \/ ~ __spipeisclosed_nolock(p, FALSE) /\ Post /\ Goto(p, User) /\ UNCHANGED <<state, isclosed, bad>>

(* A kill: a waiter leaves the queue, one inside keeps the unit.           *)
Kill(p) ==
    /\ ~ Killed(p) /\ Cardinality({r \in Procs : Killed(r)}) < MaxKills
    /\ spipe_sem' = IF Inside(p) THEN spipe_sem ELSE SelectSeq(spipe_sem, LAMBDA r : r # p)
    /\ Goto(p, [User EXCEPT !.op = "killed"])
    /\ UNCHANGED <<state, isclosed, bad>>

(* The bytes that calls in progress will still write.                      *)
Pending == MapThenSumSet(LAMBDA p : IF loc[p].op = "write" THEN loc[p].n ELSE 0, Procs)

SpipeNext == \E p \in Procs :
    \/ \E n \in Lengths : Call(p, "read", n) \/ (state.wpos + Pending + n <= MaxBytes /\ Call(p, "write", n))
    \/ Call(p, "close", 0) \/ Call(p, "isclosed", 0)
    \/ TryAgain(p) \/ spiperead(p) \/ spipewrite(p) \/ spipeclose(p) \/ spipeisclosed(p) \/ Kill(p)

SpipeSpec == SpipeInit /\ [][SpipeNext]_spipeVars

(* Readers get the bytes in the order written and none is overwritten      *)
(* before it is read; a reader is told the pipe is closed only when it is  *)
(* drained; and no thread touches the page after another one closed their  *)
(* handle, though isclosed is looked at before the semaphore is taken.     *)
SpipeOk ==
    /\ bad = {}
    /\ state.rpos <= state.wpos /\ state.wpos - state.rpos <= SPIPE_BUFSIZE
    /\ \A i \in state.rpos .. state.wpos - 1 : state.buf[i % SPIPE_BUFSIZE] = i + 1

(* kern/sync/sem.h says of sem_undo_t that a crash after a semaphore was   *)
(* modified is undone, "thus preventing deadlocks": whoever waits for the  *)
(* semaphore waits for one that is still there to post it.                 *)
HolderAlive == Len(spipe_sem) > 1 => ~ Killed(Head(spipe_sem))
=============================================================================

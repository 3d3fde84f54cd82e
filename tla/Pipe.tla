-------------------------------- MODULE Pipe --------------------------------
(***************************************************************************)
(* Pipes and named pipes, kern/fs/pipe: the buffer and its two wait queues *)
(* (pipe_state.c), the inodes of its two ends (pipe_inode.c) and the list  *)
(* of named ends (pipe_root.c).  A process sleeps in a wait queue, on      *)
(* pipe_sem, or in kmalloc; between two sleeps it runs alone, so the       *)
(* semaphore of a pipe_state is never contended.  A byte is its number.    *)
(***************************************************************************)
EXTENDS Integers, Sequences, FiniteSets, FiniteSetsExt

CONSTANTS
    Procs,
    States,      \* pipe_states that can exist
    Ends,        \* inodes that can exist
    Names,       \* names of pipes; NoName for file_pipe
    NoName,
    BUFSIZE,     \* PIPE_BUFSIZE
    Counts,      \* bytes asked for by a read or write
    Flags,       \* O_EXCL, O_APPEND or neither
    MaxBytes,    \* bound on the bytes written to a pipe
    MaxHeld,     \* bound on the descriptors of a process
    MaxKilled    \* bound on the processes killed

VARIABLES state, end, held, sem, loc, killed, ok

pipeVars == <<state, end, held, sem, loc, killed, ok>>

NoState == [buf |-> [i \in 0 .. BUFSIZE - 1 |-> -1], rpos |-> 0, wpos |-> 0, closed |-> FALSE,
            ref |-> 0, rq |-> {}, wq |-> {}]
NoEnd == [rd |-> FALSE, state |-> 0, name |-> NoName, ref |-> 0, open |-> 0, reclaim |-> 0]
User == [pc |-> "user", end |-> 0, other |-> 0, n |-> 0, flag |-> "", name |-> NoName, rd |-> FALSE]
Unused == {e \in Ends : end[e] = NoEnd}
Fresh == {x \in States : state[x].ref = 0}
Bytes(x) == x.wpos - x.rpos

PipeInit ==
    /\ state = [x \in States |-> NoState] /\ end = [e \in Ends |-> NoEnd]
    /\ held = [p \in Procs |-> [e \in Ends |-> 0]]
    /\ sem = <<>> /\ loc = [p \in Procs |-> User] /\ killed = {} /\ ok = TRUE

----------------------------------------------------------------------------
Now == [state |-> state, end |-> end, held |-> held, sem |-> sem, loc |-> loc, ok |-> ok]
Becomes(s) ==
    /\ state' = s.state /\ end' = s.end /\ held' = s.held /\ sem' = s.sem /\ loc' = s.loc /\ ok' = s.ok
    /\ UNCHANGED killed
At(p, pc) == ok /\ loc[p].pc = pc
Require(s, cond) == [s EXCEPT !.ok = @ /\ cond]

(* pipe_state_wakeup: all of the queue, taken off it.                      *)
Wake(s, ps) == [s EXCEPT !.loc = [p \in Procs |-> IF p \in ps THEN [@[p] EXCEPT !.flag = "PIPE"] ELSE @[p]]]
wakeup_reader(s, x) == [Wake(s, s.state[x].rq) EXCEPT !.state[x].rq = {}]
wakeup_writer(s, x) == [Wake(s, s.state[x].wq) EXCEPT !.state[x].wq = {}]

\* Mutant of pipe_state_close: only the readers are woken.
MutStateClose(s, x) == wakeup_reader([Require(s, s.state[x].ref > 0) EXCEPT !.state[x].closed = TRUE], x)

pipe_state_close(s, x) ==
    wakeup_writer(wakeup_reader([Require(s, s.state[x].ref > 0) EXCEPT !.state[x].closed = TRUE], x), x)

pipe_state_release(s, x) ==
    LET r == Require(s, s.state[x].ref > 0) IN
    IF s.state[x].ref = 1
    THEN [Require(r, s.state[x].rq = {} /\ s.state[x].wq = {}) EXCEPT !.state[x] = NoState]
    ELSE [r EXCEPT !.state[x].ref = @ - 1]

(* lock_pipe leaves p at pc; it goes on when it is first in the queue.     *)
lock_pipe(s, p, pc) == [s EXCEPT !.sem = Append(@, p), !.loc[p].pc = pc]
unlock_pipe(s) == [s EXCEPT !.sem = Tail(@)]
Holds(p) == sem # <<>> /\ Head(sem) = p

----------------------------------------------------------------------------
(* pipe_inode_reclaim, without lock_pipe for an end without a name.        *)
Kill(s, e) == pipe_state_release([Require(s, s.end[e].ref = 0 /\ s.end[e].open = 0) EXCEPT !.end[e] = NoEnd], s.end[e].state)

(* inode_ref_dec of an end; p waits for pipe_sem if it has to reclaim it.  *)
inode_ref_dec(s, p, e) ==
    LET r == [Require(s, s.end[e].ref > 0) EXCEPT !.end[e].ref = @ - 1, !.loc[p].pc = "user"] IN
    IF r.end[e].ref # 0 THEN r
    ELSE IF r.end[e].name = NoName THEN Kill(r, e)
    ELSE lock_pipe([r EXCEPT !.loc[p].other = e], p, "reclaim")

(* A call returns unless p has to wait for pipe_sem first.                 *)
Returned(s, p) == IF s.loc[p].pc = "reclaim" THEN s ELSE [s EXCEPT !.loc[p] = User]

(* vfs_open's last step: pipe_inode_open refuses O_APPEND and O_TRUNC and  *)
(* the end is let go again, or the inode is opened, and the call returns.  *)
Opened(s, p) ==
    LET e == s.loc[p].end IN
    IF e = 0 THEN [s EXCEPT !.loc[p] = User]
    ELSE IF s.loc[p].flag = "O_APPEND"
    THEN Returned(inode_ref_dec([s EXCEPT !.loc[p].end = 0], p, e), p)
    ELSE [s EXCEPT !.end[e].open = @ + 1, !.held[p][e] = @ + 1, !.loc[p] = User]

vop_ref_dec(s, p, e) ==
    LET r == inode_ref_dec(s, p, e) IN IF r.loc[p].pc = "reclaim" THEN r ELSE Opened(r, p)

pipe_inode_reclaim(p) ==
    LET e == loc[p].other
        s == [Require(Now, end[e].reclaim > 0) EXCEPT !.end[e].reclaim = @ - 1]
        busy == s.end[e].reclaim # 0 \/ end[e].ref # 0
    IN  /\ At(p, "reclaim") /\ Holds(p)
        /\ Becomes(Opened(unlock_pipe(IF busy THEN s ELSE Kill(s, e)), p))

vop_close(p, e) ==
    LET s == [Require(Now, end[e].open > 0) EXCEPT !.end[e].open = @ - 1, !.held[p][e] = @ - 1]
        closed == IF s.end[e].open = 0 THEN pipe_state_close(s, end[e].state) ELSE s
    IN  /\ At(p, "user") /\ held[p][e] > 0
        /\ Becomes(vop_ref_dec(closed, p, e))

----------------------------------------------------------------------------
NewEnd(x, rd, name) == [rd |-> rd, state |-> x, name |-> name, ref |-> 1, open |-> 0, reclaim |-> 1]
Room(p) == p \notin killed /\ MapThenSumSet(LAMBDA e : held[p][e], Ends) < MaxHeld

(* pipe_open: both ends of a new pipe.  Each of its three allocations may  *)
(* fail; what was made before is then released.                            *)
pipe_open(p) ==
    LET x == Min(Fresh)
        r == Min(Unused)
        w == Min(Unused \ {r})
        one == [Now EXCEPT !.state[x] = [NoState EXCEPT !.ref = 1]]
        two == [Now EXCEPT !.state[x] = [NoState EXCEPT !.ref = 2], !.end[r] = NewEnd(x, TRUE, NoName)]
    IN  /\ At(p, "user") /\ Room(p)
        /\ \/ Becomes(Now)
           \/ Fresh # {} /\ Becomes(pipe_state_release(one, x))
           \/ Fresh # {} /\ Unused # {} /\ Becomes(pipe_state_release(inode_ref_dec(two, p, r), x))
           \/ /\ Fresh # {} /\ Cardinality(Unused) > 1
              /\ Becomes([two EXCEPT !.end[r].open = 1,
                                     !.end[w] = [NewEnd(x, FALSE, NoName) EXCEPT !.open = 1],
                                     !.held[p][r] = 1, !.held[p][w] = 1])

(* file_mkfifo with O_CREAT, or without it.                                *)
OpenNamed(p, name, rd, create, flag) ==
    /\ At(p, "user") /\ Room(p)
    /\ Becomes(lock_pipe([Now EXCEPT !.loc[p] = [User EXCEPT !.name = name, !.rd = rd, !.flag = flag]],
                         p, IF create THEN "create" ELSE "lookup"))

(* lookup_pipe_nolock: the end with the name and direction, 0 for none.    *)
Find(name, rd) ==
    LET ends == {e \in Ends : end[e] # NoEnd /\ end[e].name = name /\ end[e].rd = rd}
    IN  IF ends = {} THEN 0 ELSE Min(ends)
Ref(s, e) ==
    IF e = 0 THEN s
    ELSE [s EXCEPT !.end[e].ref = @ + 1, !.end[e].reclaim = IF s.end[e].ref = 0 THEN @ + 1 ELSE @]

(* After unlock_pipe the other end is let go and the call returns.         *)
LetGo(s, p, e1) == IF e1 = 0 THEN Opened(s, p) ELSE vop_ref_dec(s, p, e1)

pipe_root_lookup(p) ==
    LET e0 == Find(loc[p].name, loc[p].rd)
        e1 == Find(loc[p].name, ~ loc[p].rd)
    IN  /\ At(p, "lookup") /\ Holds(p)
        /\ Becomes(LetGo([unlock_pipe(Ref(Ref(Now, e0), e1)) EXCEPT !.loc[p].end = e0], p, e1))

(* O_EXCL on an existing end drops it while p holds pipe_sem: when that    *)
(* was the last reference p waits for itself, "stuck".                     *)
pipe_root_create(p) ==
    LET e0 == Find(loc[p].name, loc[p].rd)
        e1 == Find(loc[p].name, ~ loc[p].rd)
        s == Ref(Ref(Now, e0), e1)
        drop == [s EXCEPT !.end[e0].ref = @ - 1]
    IN  /\ At(p, "create") /\ Holds(p)
        /\ \/ /\ e0 # 0 /\ loc[p].flag # "O_EXCL"
              /\ Becomes(LetGo([unlock_pipe(s) EXCEPT !.loc[p].end = e0], p, e1))
           \/ /\ e0 # 0 /\ loc[p].flag = "O_EXCL"
              /\ IF drop.end[e0].ref = 0 THEN Becomes(lock_pipe([drop EXCEPT !.loc[p].other = e0, !.loc[p].end = e1], p, "stuck"))
                 ELSE Becomes(LetGo(unlock_pipe(drop), p, e1))
           \/ /\ e0 = 0
              /\ Becomes([s EXCEPT !.loc[p].other = e1, !.loc[p].pc = "kmalloc"])

(* p holds pipe_sem since before it slept in kmalloc.  The state, when it  *)
(* is a new one, or the inode may not be had.                              *)
pipe_create_inode(p) ==
    LET e1 == loc[p].other
        x == IF e1 = 0 THEN Min(Fresh) ELSE end[e1].state
        e == Min(Unused)
        s == Require([Now EXCEPT !.state[x].ref = @ + 1], e1 # 0 => state[x].ref > 0)
        made == [s EXCEPT !.end[e] = NewEnd(x, loc[p].rd, loc[p].name), !.loc[p].end = e]
    IN  /\ At(p, "kmalloc")
        /\ \/ e1 = 0 /\ Becomes(LetGo(unlock_pipe(Now), p, e1))
           \/ (e1 = 0 => Fresh # {}) /\ Becomes(LetGo(unlock_pipe(pipe_state_release(s, x)), p, e1))
           \/ Unused # {} /\ (e1 = 0 => Fresh # {}) /\ Becomes(LetGo(unlock_pipe(made), p, e1))

----------------------------------------------------------------------------
(* From try_again to the return or to the next sleep.                      *)
pipe_state_read(s, p, e, n) ==
    LET x == s.end[e].state
        y == s.state[x]
        k == IF n < Bytes(y) THEN n ELSE Bytes(y)
        inOrder == \A i \in y.rpos .. y.rpos + k - 1 : y.buf[i % BUFSIZE] = i
    IN  IF Bytes(y) > 0
        THEN wakeup_writer([Require(s, inOrder) EXCEPT !.state[x].rpos = @ + k, !.loc[p] = User], x)
        ELSE IF y.closed THEN [s EXCEPT !.loc[p] = User]
        ELSE [s EXCEPT !.state[x].rq = @ \cup {p}, !.loc[p] = [User EXCEPT !.pc = "reading", !.end = e, !.n = n]]

pipe_state_write(s, p, e, n) ==
    LET x == s.end[e].state
        y == s.state[x]
        k == IF n < BUFSIZE - Bytes(y) THEN n ELSE BUFSIZE - Bytes(y)
        put == [s EXCEPT !.state[x].wpos = @ + k,
                         !.state[x].buf = [i \in DOMAIN @ |-> LET q == {j \in y.wpos .. y.wpos + k - 1 : j % BUFSIZE = i}
                                                              IN  IF q = {} THEN @[i] ELSE Min(q)]]
    IN  IF y.closed THEN [s EXCEPT !.loc[p] = User]
        ELSE IF k = n THEN [wakeup_reader(put, x) EXCEPT !.loc[p] = User]
        ELSE [wakeup_reader(put, x) EXCEPT !.state[x].wq = @ \cup {p},
                                           !.loc[p] = [User EXCEPT !.pc = "writing", !.end = e, !.n = n - k]]

Read(p, e, n) ==
    At(p, "user") /\ held[p][e] > 0 /\ end[e].rd /\ p \notin killed /\ Becomes(pipe_state_read(Now, p, e, n))
Write(p, e, n) ==
    /\ At(p, "user") /\ held[p][e] > 0 /\ ~ end[e].rd /\ p \notin killed
    /\ state[end[e].state].wpos + n <= MaxBytes
    /\ Becomes(pipe_state_write(Now, p, e, n))

(* schedule() returned to pipe_state_wait: wait_current_del, then again,   *)
(* or out when something else than the pipe woke the process.              *)
Woken(p) ==
    LET x == end[loc[p].end].state
        s == [Now EXCEPT !.state[x].rq = @ \ {p}, !.state[x].wq = @ \ {p}]
    IN  /\ ok /\ loc[p].pc \in {"reading", "writing"} /\ loc[p].flag # ""
        /\ Becomes(IF loc[p].flag # "PIPE" THEN [s EXCEPT !.loc[p] = User]
                   ELSE IF loc[p].pc = "reading" THEN pipe_state_read(s, p, loc[p].end, loc[p].n)
                   ELSE pipe_state_write(s, p, loc[p].end, loc[p].n))

----------------------------------------------------------------------------
(* fork copies the descriptors; do_kill interrupts a wait, and the process *)
(* then only closes what it has.                                           *)
Fork(p, q) ==
    /\ At(p, "user") /\ At(q, "user") /\ p \notin killed /\ q \notin killed
    /\ held[p] # held[q] /\ \A e \in Ends : held[q][e] = 0
    /\ held' = [held EXCEPT ![q] = held[p]]
    /\ end' = [e \in Ends |-> [end[e] EXCEPT !.ref = @ + held[p][e], !.open = @ + held[p][e]]]
    /\ UNCHANGED <<state, sem, loc, killed, ok>>

do_kill(p) ==
    /\ p \notin killed /\ ok /\ Cardinality(killed) < MaxKilled
    /\ killed' = killed \cup {p}
    /\ loc' = IF loc[p].pc \in {"reading", "writing"} /\ loc[p].flag = "" THEN [loc EXCEPT ![p].flag = "INT"] ELSE loc
    /\ UNCHANGED <<state, end, held, sem, ok>>

PipeNext ==
    \E p \in Procs :
        \/ pipe_open(p) \/ pipe_root_lookup(p) \/ pipe_root_create(p) \/ pipe_create_inode(p) \/ pipe_inode_reclaim(p)
        \/ \E name \in Names, rd, c \in BOOLEAN, f \in Flags : (f = "O_EXCL" => c) /\ OpenNamed(p, name, rd, c, f)
        \/ \E e \in Ends : vop_close(p, e) \/ \E n \in Counts : Read(p, e, n) \/ Write(p, e, n)
        \/ Woken(p) \/ do_kill(p) \/ \E q \in Procs : Fork(p, q)

PipeSpec == PipeInit /\ [][PipeNext]_pipeVars

(* A process that sleeps in a pipe, not woken, has reason to: a reader     *)
(* found the pipe empty, a writer found it full, and it is not closed.     *)
NoStuckPipe ==
    \A p \in Procs : loc[p].pc \in {"reading", "writing"} /\ loc[p].flag = "" =>
        LET x == state[end[loc[p].end].state] IN
        /\ ~ x.closed
        /\ IF loc[p].pc = "reading" THEN p \in x.rq /\ Bytes(x) = 0 ELSE p \in x.wq /\ Bytes(x) >= BUFSIZE

(* False, see README "Known to fail": pipe_root_create drops an end it must *)
(* not create with pipe_sem held; when its last user is just closing it,   *)
(* p is the one to reclaim it and waits in lock_pipe for itself.           *)
NoSelfWait == \A p \in Procs : loc[p].pc # "stuck"

(* Bytes come out once and in order, no assertion fails, an end has one    *)
(* reference per descriptor and call that uses it, is reclaimed when it    *)
(* has none, and a pipe lives as long as its ends.                         *)
PipeLifetime ==
    LET Using(e) == {p \in Procs : \/ loc[p].pc = "kmalloc" /\ loc[p].other = e
                                   \/ loc[p].pc \in {"reclaim", "stuck"} /\ loc[p].end = e}
        Held(e) == MapThenSumSet(LAMBDA p : held[p][e], Procs)
    IN  /\ ok
        /\ \A e \in Ends : end[e] # NoEnd =>
            /\ end[e].open = Held(e) /\ end[e].ref = Held(e) + Cardinality(Using(e))
            /\ end[e].ref = 0 => \E p \in Procs : loc[p].pc = "reclaim" /\ loc[p].other = e
        /\ \A e \in Ends : end[e] = NoEnd => Held(e) = 0
        /\ \A x \in States : state[x].ref = Cardinality({e \in Ends : end[e] # NoEnd /\ end[e].state = x})
=============================================================================

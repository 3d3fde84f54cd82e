------------------------------- MODULE SfsDir -------------------------------
(***************************************************************************)
(* The name space and the inode cache of an SFS volume, used by several    *)
(* processes (kern/fs/sfs/sfs_inode.c and the callers in kern/fs/vfs).     *)
(*                                                                         *)
(* The kernel is not preempted: a process loses the CPU only in down() and *)
(* in kmalloc(), so a step runs from one such point to the next.  A        *)
(* semaphore is the queue of the processes that have called down(); its    *)
(* head holds it, because up() hands the unit to the first waiter.  A      *)
(* process sleeping in kmalloc() with a lock is one that has the lock and  *)
(* has not taken its next step.                                            *)
(***************************************************************************)
EXTENDS Integers, Sequences, FiniteSets, SequencesExt

CONSTANTS
    Procs,
    Inos,        \* the blocks that can hold an inode, the root's included
    Calls,       \* Calls[p]: the calls p may make, records [op, path, to]
    Getcwd,      \* Getcwd[p]: whether p calls getcwd
    IoErrors     \* whether writing to the disk may fail

VARIABLES
    disk,        \* the inodes on disk
    ents,        \* the slots of each directory, on disk
    free,        \* the free blocks
    sin,         \* the inodes in memory
    sem,         \* who has called down() on fs_sem, mutex_sem, an inode's sem
    cwd, fd,     \* the inodes each process keeps between calls
    loc,         \* the call each process is executing
    lost,        \* history: inodes a rename could neither move nor put back
    broken       \* the assertion that has failed, if any

dirVars == <<disk, ents, free, sin, sem, cwd, fd, loc, lost, broken>>

ROOT == 1
FS == 0        \* fs_sem, among the inode numbers that name the other locks
MUTEX == -1    \* mutex_sem
NoSin == [ref |-> -1]
Empty == [ino |-> 0, name |-> ""]
Cached(i) == sin[i] # NoSin
NewInode(t) == [type |-> t, nlinks |-> 0, parent |-> 0, slots |-> 0, blocks |-> 0]
InMemory(d) == [din |-> d, ref |-> 1, reclaim |-> 1, removed |-> FALSE, dirty |-> FALSE]
Idle == [pc |-> "idle"]

SfsDirInit ==
    /\ disk = [i \in Inos |-> IF i = ROOT THEN [NewInode("dir") EXCEPT !.nlinks = 2, !.parent = ROOT]
                              ELSE NewInode("free")]
    /\ ents = [i \in Inos |-> <<>>]
    /\ free = Inos \ {ROOT}
    /\ sin = [i \in Inos |-> IF i = ROOT THEN [InMemory(disk[ROOT]) EXCEPT !.ref = Cardinality(Procs)]
                             ELSE NoSin]
    /\ sem = [l \in Inos \cup {FS, MUTEX} |-> <<>>]
    /\ cwd = [p \in Procs |-> ROOT]
    /\ fd = [p \in Procs |-> 0]
    /\ loc = [p \in Procs |-> Idle]
    /\ lost = {}
    /\ broken = ""

----------------------------------------------------------------------------
At(p, pc) == loc[p].pc = pc /\ broken = ""
Holds(p, l) == sem[l] # <<>> /\ Head(sem[l]) = p

(* Where a process goes on when there is nothing to drop or to release.    *)
Drops(l) == IF l.pc = "put" /\ l.puts = <<>> THEN [l EXCEPT !.pc = l.then] ELSE l
Frees(l) == IF l.pc = "unlock" /\ l.held = <<>>
            THEN [l EXCEPT !.pc = "put", !.then = "idle", !.puts = l.last, !.last = <<>>] ELSE l

(* On its way out a call has no more use for its other variables.          *)
Leaving(l) == l.pc \in {"put", "unlock"} /\ l.then \in {"unlock", "idle"}
Forget(l) == IF l.pc = "idle" THEN Idle
             ELSE IF Leaving(l) THEN Restrict(l, {"pc", "then", "puts", "last", "held", "opening"} \cap DOMAIN l) ELSE l
Settle(l) == Forget(Drops(Frees(Drops(l))))

Goto(p, r) == loc' = [loc EXCEPT ![p] = Settle(r @@ @)]
Down(q, p, l) == [q EXCEPT ![l] = Append(@, p)]

\* Mutant of Up: the unit goes to the last waiter.
MutUp(q, l) == [q EXCEPT ![l] = IF Len(@) > 2 THEN <<Last(@)>> \o Front(Tail(@)) ELSE Tail(@)]

Up(q, l) == [q EXCEPT ![l] = Tail(@)]

(* The call is over: drop the references in puts, then release the locks   *)
(* in held, then drop those in last.                                       *)
Leave(puts, last) == [pc |-> "put", then |-> "unlock", puts |-> puts, last |-> last]

(* sfs_dirent_search_nolock: the slot of a name, or 0; the last empty slot.*)
SlotOf(d, name) ==
    LET s == {i \in 1 .. sin[d].din.blocks : ents[d][i].ino # 0 /\ ents[d][i].name = name}
    IN  IF s = {} THEN 0 ELSE CHOOSE i \in s : \A j \in s : i <= j

EmptySlot(d) ==
    LET s == {i \in 1 .. sin[d].din.blocks : ents[d][i].ino = 0}
    IN  IF s = {} THEN sin[d].din.blocks + 1 ELSE CHOOSE i \in s : \A j \in s : i >= j

(* sfs_dirent_write_nolock: slot is blocks + 1 when the directory grows.   *)
SetSlot(e, d, slot, entry) ==
    [e EXCEPT ![d] = IF slot > Len(@) THEN Append(@, entry) ELSE [@ EXCEPT ![slot] = entry]]

(* What a failed sfs_dirent_write_nolock leaves: nothing, or an empty slot  *)
(* more when the new block could not be written.                           *)
WriteFails(d, slot) ==
    {[ents |-> ents, sin |-> sin]} \cup
    {[ents |-> SetSlot(ents, d, slot, Empty), sin |-> [sin EXCEPT ![d].din.blocks = slot, ![d].dirty = TRUE]] :
        s \in {s \in {slot} \ DOMAIN ents[d] : IoErrors}}

Grown(n, slot) == IF slot > n THEN slot ELSE n
Dirty(s, i) == [s EXCEPT ![i].dirty = TRUE]

\* Mutant of AddLinks: the inode is not marked dirty.
MutAddLinks(s, i, k) == [s EXCEPT ![i].din.nlinks = @ + k]

AddLinks(s, i, k) == Dirty([s EXCEPT ![i].din.nlinks = @ + k], i)

LinkSin(s, d, slot, i) ==
    AddLinks(Dirty([s EXCEPT ![d].din.slots = @ + 1, ![d].din.blocks = Grown(@, slot)], d), i, 1)

UnlinkSin(s, d, i) == AddLinks(Dirty([s EXCEPT ![d].din.slots = @ - 1], d), i, -1)

----------------------------------------------------------------------------
(* References and the inode cache.                                         *)

\* Mutant of sfs_load_inode: a lookup of an inode that is about to be
\* reclaimed does not count the reclaim it will cause.
MutLoadInode(p, i, why) ==
    /\ Holds(p, FS)
    /\ sem' = Up(sem, FS)
    /\ broken' = IF Cached(i) \/ (i \notin free /\ disk[i].nlinks # 0) THEN "" ELSE why
    /\ sin' = [sin EXCEPT ![i] = IF ~ Cached(i) THEN InMemory(disk[i]) ELSE [@ EXCEPT !.ref = @ + 1]]
    /\ UNCHANGED <<disk, ents, free, cwd, fd, lost>>

(* sfs_load_inode, by the holder of fs_sem; why tells the callers apart.   *)
sfs_load_inode(p, i, why) ==
    /\ Holds(p, FS)
    /\ sem' = Up(sem, FS)
    /\ broken' = IF Cached(i) \/ (i \notin free /\ disk[i].nlinks # 0) THEN "" ELSE why
    /\ sin' = [sin EXCEPT ![i] =
           IF ~ Cached(i) THEN InMemory(disk[i])
           ELSE [@ EXCEPT !.ref = @ + 1, !.reclaim = IF sin[i].ref = 0 THEN @ + 1 ELSE @]]
    /\ UNCHANGED <<disk, ents, free, cwd, fd, lost>>

(* Its other outcome: no memory, or the inode cannot be read.              *)
LoadFails(p, i) ==
    /\ Holds(p, FS) /\ ~ Cached(i)
    /\ sem' = Up(sem, FS)
    /\ UNCHANGED <<disk, ents, free, sin, cwd, fd, broken, lost>>

(* vop_ref_dec, one reference at a time; the last one reclaims the inode.  *)
vop_ref_dec(p) ==
    LET i == Head(loc[p].puts) IN
    /\ At(p, "put") /\ loc[p].puts # <<>>
    /\ sin' = [sin EXCEPT ![i].ref = @ - 1]
    /\ IF sin[i].ref = 1
       THEN sem' = Down(sem, p, FS) /\ Goto(p, [pc |-> "reclaim"])
       ELSE UNCHANGED sem /\ Goto(p, [puts |-> Tail(loc[p].puts)])
    /\ UNCHANGED <<disk, ents, free, cwd, fd, broken, lost>>

(* The inode stays in the cache, for the next lookup to find, when others  *)
(* will reclaim it or when it cannot be written.                           *)
sfs_reclaim(p) ==
    LET i == Head(loc[p].puts)
        last == sin[i].reclaim = 1
        unlinked == sin[i].din.nlinks = 0
    IN  /\ At(p, "reclaim") /\ Holds(p, FS)
        /\ sem' = Up(sem, FS)
        /\ broken' = IF last /\ sin[i].ref # 0 THEN "reclaim" ELSE ""
        /\ \/ /\ last /\ sin' = [sin EXCEPT ![i] = NoSin]
              /\ free' = IF unlinked THEN free \cup {i} ELSE free
              /\ disk' = IF sin[i].dirty /\ ~ unlinked THEN [disk EXCEPT ![i] = sin[i].din] ELSE disk
              /\ ents' = IF unlinked THEN [ents EXCEPT ![i] = <<>>] ELSE ents
           \/ /\ ~ last \/ (IoErrors /\ sin[i].dirty /\ ~ unlinked)
              /\ sin' = [sin EXCEPT ![i].reclaim = @ - 1]
              /\ UNCHANGED <<free, disk, ents>>
        /\ Goto(p, [pc |-> "put", puts |-> Tail(loc[p].puts)])
        /\ UNCHANGED <<cwd, fd, lost>>

(* The locks the call still holds are released together.                   *)
Unlock(p) ==
    /\ At(p, "unlock")
    /\ sem' = [l \in DOMAIN sem |-> IF Contains(loc[p].held, l) THEN Tail(sem[l]) ELSE sem[l]]
    /\ Goto(p, [held |-> <<>>])
    /\ UNCHANGED <<disk, ents, free, sin, cwd, fd, broken, lost>>

----------------------------------------------------------------------------
(* A call starts with its path, resolved from the current directory.       *)
(* wants: how many components stay unresolved, 1 for lookup_parent.        *)
Wants(op) == IF op \in {"chdir", "open", "link"} THEN 0 ELSE 1

Start(p) == \E c \in Calls[p] :
    /\ At(p, "idle")
    /\ (c.op \in {"open", "create"}) => fd[p] = 0
    /\ sin' = [sin EXCEPT ![cwd[p]].ref = @ + 1]
    /\ loc' = [loc EXCEPT ![p] = [pc |-> "walk", call |-> c, node |-> cwd[p], path |-> c.path,
                                  first |-> 0, name |-> "", ino |-> 0, lnk |-> 0, then |-> "",
                                  held |-> <<>>, puts |-> <<>>, last |-> <<>>]]
    /\ UNCHANGED <<disk, ents, free, sem, cwd, fd, broken, lost>>

(* One turn of the loops of sfs_lookup and sfs_lookup_parent.  A second    *)
(* path is resolved when first is set.                                     *)
Second(p) == loc[p].first # 0
Unresolved(p) == IF Second(p) THEN 1 ELSE Wants(loc[p].call.op)

Fail(p, node) == Goto(p, Leave(<<node>>, IF Second(p) THEN <<loc[p].first>> ELSE <<>>))

Walk(p) ==
    LET l == loc[p]
        i == l.node
        comp == Head(l.path)
    IN  /\ At(p, "walk")
        /\ IF sin[i].din.type # "dir" /\ (Unresolved(p) = 1 \/ l.path # <<>>)
           THEN Fail(p, i) /\ UNCHANGED <<sem, sin>>
           ELSE IF Len(l.path) = Unresolved(p)
           THEN IF l.call.op \in {"link", "rename"} /\ ~ Second(p)
                THEN /\ sin' = [sin EXCEPT ![cwd[p]].ref = @ + 1]
                     /\ Goto(p, [first |-> i, name |-> IF l.path = <<>> THEN "" ELSE comp,
                                 node |-> cwd[p], path |-> l.call.to])
                     /\ UNCHANGED sem
                ELSE Goto(p, [pc |-> l.call.op]) /\ UNCHANGED <<sem, sin>>
           ELSE IF comp = ".."
           THEN /\ sem' = Down(sem, p, FS)
                /\ Goto(p, [pc |-> "load", ino |-> sin[i].din.parent]) /\ UNCHANGED sin
           ELSE IF sin[i].removed
           THEN Fail(p, i) /\ UNCHANGED <<sem, sin>>
           ELSE sem' = Down(sem, p, i) /\ Goto(p, [pc |-> "search"]) /\ UNCHANGED sin
        /\ UNCHANGED <<disk, ents, free, cwd, fd, broken, lost>>

(* sfs_lookup_once: the entry is read under the directory's lock, the      *)
(* inode is loaded after that lock has been released.                      *)
sfs_lookup_once(p) ==
    LET i == loc[p].node
        s == SlotOf(i, Head(loc[p].path))
    IN  /\ At(p, "search") /\ Holds(p, i)
        /\ \/ sem' = Up(sem, i) /\ Fail(p, i)
           \/ /\ ~ sin[i].removed /\ s # 0
              /\ sem' = Down(Up(sem, i), p, FS)
              /\ Goto(p, [pc |-> "load", ino |-> ents[i][s].ino])
        /\ UNCHANGED <<disk, ents, free, sin, cwd, fd, broken, lost>>

Loaded(p) ==
    LET i == loc[p].ino IN
    /\ At(p, "load")
    /\ \/ /\ sfs_load_inode(p, i, IF Head(loc[p].path) = ".." THEN "parent" ELSE "lookup")
          /\ Goto(p, [pc |-> "put", then |-> "walk", puts |-> <<loc[p].node>>,
                      node |-> i, ino |-> 0, path |-> Tail(loc[p].path)])
       \/ LoadFails(p, i) /\ Fail(p, loc[p].node)

----------------------------------------------------------------------------
(* chdir (vfs_set_curdir), open and close.                                 *)

vfs_set_curdir(p) ==
    LET i == loc[p].node IN
    /\ At(p, "chdir")
    /\ IF sin[i].din.type # "dir" \/ cwd[p] = i
       THEN Fail(p, i) /\ UNCHANGED cwd
       ELSE cwd' = [cwd EXCEPT ![p] = i] /\ Goto(p, Leave(<<cwd[p]>>, <<>>))
    /\ UNCHANGED <<disk, ents, free, sin, sem, fd, broken, lost>>

vfs_open(p) ==
    /\ At(p, "open")
    /\ fd' = [fd EXCEPT ![p] = loc[p].node]
    /\ Goto(p, Leave(<<>>, <<>>))
    /\ UNCHANGED <<disk, ents, free, sin, sem, cwd, broken, lost>>

(* open_count: a process that has created the file counts once it has      *)
(* dropped the directory.                                                  *)
Opens(i) == {p \in Procs : fd[p] = i /\ "opening" \notin DOMAIN loc[p]}

(* vfs_close: with the last vop_open_dec sfs_close writes the inode back,  *)
(* under its lock.                                                         *)
vfs_close(p) ==
    LET i == fd[p]
        sync == Opens(i) = {p} /\ sin[i].din.nlinks # 0 /\ sin[i].dirty /\ ~ sin[i].removed
    IN  /\ At(p, "idle") /\ i # 0
        /\ fd' = [fd EXCEPT ![p] = 0]
        /\ sem' = IF sync THEN Down(sem, p, i) ELSE sem
        /\ Goto(p, [held |-> <<>>, node |-> i]
                   @@ (IF sync THEN [pc |-> "fsync"] ELSE Leave(<<i>>, <<>>)))
        /\ UNCHANGED <<disk, ents, free, sin, cwd, broken, lost>>

(* The inode stays dirty when it cannot be written.                        *)
sfs_fsync(p) ==
    LET i == loc[p].node
        sync == ~ sin[i].removed /\ sin[i].dirty
    IN  /\ At(p, "fsync") /\ Holds(p, i)
        /\ \/ (~ sync \/ IoErrors) /\ UNCHANGED <<disk, sin>>
           \/ sync /\ disk' = [disk EXCEPT ![i] = sin[i].din] /\ sin' = [sin EXCEPT ![i].dirty = FALSE]
        /\ sem' = Up(sem, i)
        /\ Goto(p, Leave(<<i>>, <<>>))
        /\ UNCHANGED <<ents, free, cwd, fd, broken, lost>>

----------------------------------------------------------------------------
(* create and mkdir: one entry for both, told apart by the call.           *)
NewType(p) == IF loc[p].call.op = "mkdir" THEN "dir" ELSE "file"

(* trylock_sin, first half: a removed directory is refused at once.        *)
TryLock(p, i, pc) ==
    IF sin[i].removed THEN Fail(p, i) /\ UNCHANGED sem
    ELSE sem' = Down(sem, p, i) /\ Goto(p, [pc |-> pc])

Create(p) ==
    /\ \E op \in {"create", "mkdir"} : At(p, op)
    /\ TryLock(p, loc[p].node, "new")
    /\ UNCHANGED <<disk, ents, free, sin, cwd, fd, broken, lost>>

(* Under the directory's lock: the name is searched; a new inode takes its *)
(* block before it waits for fs_sem.  Searching and making the inode need  *)
(* memory, so both can fail.                                               *)
sfs_create_nolock(p) ==
    LET i == loc[p].node
        s == SlotOf(i, Head(loc[p].path))
        b == CHOOSE x \in free : \A y \in free : x <= y
    IN  /\ At(p, "new") /\ Holds(p, i)
        /\ \/ /\ Goto(p, Leave(<<>>, <<i>>) @@ [held |-> <<i>>])
              /\ UNCHANGED <<sem, free, disk>>
           \/ /\ ~ sin[i].removed /\ s # 0 /\ NewType(p) = "file"
              /\ sem' = Down(sem, p, FS)
              /\ Goto(p, [pc |-> "exists", lnk |-> ents[i][s].ino, held |-> <<i>>])
              /\ UNCHANGED <<free, disk>>
           \/ /\ ~ sin[i].removed /\ s = 0 /\ free # {}
              /\ sem' = Down(sem, p, FS)
              /\ free' = free \ {b}
              /\ disk' = [disk EXCEPT ![b] = NewInode("free")]
              /\ Goto(p, [pc |-> "set_links", lnk |-> b, held |-> <<i>>])
        /\ UNCHANGED <<ents, sin, cwd, fd, broken, lost>>

CreateExists(p) ==
    LET i == loc[p].lnk IN
    /\ At(p, "exists")
    /\ \/ sfs_load_inode(p, i, "lookup") /\ Goto(p, [pc |-> "exists2"])
       \/ LoadFails(p, i) /\ Goto(p, Leave(<<>>, <<loc[p].node>>))

(* The file is opened when its directory has been dropped.                 *)
Opening(r) == r @@ [opening |-> TRUE]

CreateOpens(p) ==
    LET i == loc[p].lnk
        d == loc[p].node
        file == sin[i].din.type = "file"
    IN  /\ At(p, "exists2")
        /\ fd' = IF file THEN [fd EXCEPT ![p] = i] ELSE fd
        /\ Goto(p, IF file THEN Opening(Leave(<<>>, <<d>>)) ELSE Leave(<<i>>, <<d>>))
        /\ UNCHANGED <<disk, ents, free, sin, sem, cwd, broken, lost>>

sfs_dirent_create_inode(p) ==
    LET i == loc[p].lnk IN
    /\ At(p, "set_links") /\ Holds(p, FS)
    /\ sin' = [sin EXCEPT ![i] = InMemory(NewInode(NewType(p)))]
    /\ sem' = Up(sem, FS)
    /\ Goto(p, [pc |-> "link_new"])
    /\ UNCHANGED <<disk, ents, free, cwd, fd, broken, lost>>

(* sfs_dirent_link_nolock, which may fail; a directory then gets its       *)
(* parent, its '.' and the '..' that its parent counts.                    *)
LinkNew(p) ==
    LET d == loc[p].node
        i == loc[p].lnk
        slot == EmptySlot(d)
        linked == LinkSin(sin, d, slot, i)
        isdir == NewType(p) = "dir"
    IN  /\ At(p, "link_new")
        /\ \/ /\ ents' = SetSlot(ents, d, slot, [ino |-> i, name |-> Head(loc[p].path)])
              /\ sin' = IF isdir
                        THEN AddLinks(AddLinks([linked EXCEPT ![i].din.parent = d], i, 1), d, 1)
                        ELSE linked
              /\ fd' = IF isdir THEN fd ELSE [fd EXCEPT ![p] = i]
              /\ Goto(p, IF isdir THEN Leave(<<i>>, <<d>>) ELSE Opening(Leave(<<>>, <<d>>)))
           \/ /\ \E f \in WriteFails(d, slot) : ents' = f.ents /\ sin' = f.sin
              /\ UNCHANGED fd /\ Goto(p, Leave(<<i>>, <<d>>))
        /\ UNCHANGED <<disk, free, sem, cwd, broken, lost>>

----------------------------------------------------------------------------
(* unlink: mutex_sem, the directory, the child if it is a directory.       *)

sfs_unlink(p) ==
    /\ At(p, "unlink")
    /\ sem' = Down(sem, p, MUTEX)
    /\ Goto(p, [pc |-> "u_dir", held |-> <<MUTEX>>])
    /\ UNCHANGED <<disk, ents, free, sin, cwd, fd, broken, lost>>

UnlinkLock(p) ==
    LET d == loc[p].node IN
    /\ At(p, "u_dir") /\ Holds(p, MUTEX)
    /\ IF sin[d].removed
       THEN Goto(p, Leave(<<>>, <<d>>)) /\ UNCHANGED sem
       ELSE sem' = Down(sem, p, d) /\ Goto(p, [pc |-> "u_search", held |-> <<d, MUTEX>>])
    /\ UNCHANGED <<disk, ents, free, sin, cwd, fd, broken, lost>>

UnlinkSearch(p) ==
    LET d == loc[p].node
        s == SlotOf(d, Head(loc[p].path))
    IN  /\ At(p, "u_search") /\ Holds(p, d)
        /\ \/ Goto(p, Leave(<<>>, <<d>>)) /\ UNCHANGED sem
           \/ /\ ~ sin[d].removed /\ s # 0
              /\ sem' = Down(sem, p, FS)
              /\ Goto(p, [pc |-> "u_load", lnk |-> ents[d][s].ino])
        /\ UNCHANGED <<disk, ents, free, sin, cwd, fd, broken, lost>>

UnlinkLoad(p) ==
    /\ At(p, "u_load")
    /\ \/ sfs_load_inode(p, loc[p].lnk, "lookup") /\ Goto(p, [pc |-> "u_type"])
       \/ LoadFails(p, loc[p].lnk) /\ Goto(p, Leave(<<>>, <<loc[p].node>>))

UnlinkType(p) ==
    LET i == loc[p].lnk IN
    /\ At(p, "u_type")
    /\ IF sin[i].din.type # "dir" THEN Goto(p, [pc |-> "u_entry"]) /\ UNCHANGED sem
       ELSE sem' = Down(sem, p, i) /\ Goto(p, [pc |-> "u_entry", held |-> <<i>> \o loc[p].held])
    /\ UNCHANGED <<disk, ents, free, sin, cwd, fd, broken, lost>>

(* sfs_dirent_unlink_nolock, which may fail.                               *)
UnlinkEntry(p) ==
    LET d == loc[p].node
        i == loc[p].lnk
        isdir == sin[i].din.type = "dir"
        less == UnlinkSin(sin, d, i)
    IN  /\ At(p, "u_entry") /\ (isdir => Holds(p, i))
        /\ \/ /\ ~ (isdir /\ sin[i].din.slots # 0)
              /\ ents' = SetSlot(ents, d, SlotOf(d, Head(loc[p].path)), Empty)
              /\ sin' = IF isdir
                        THEN [AddLinks(AddLinks(less, i, -1), d, -1) EXCEPT ![i].removed = TRUE]
                        ELSE less
           \/ UNCHANGED <<ents, sin>>
        /\ Goto(p, Leave(<<i>>, <<d>>)
                   @@ [held |-> IF isdir THEN Tail(loc[p].held) ELSE loc[p].held])
        /\ sem' = IF isdir THEN Up(sem, i) ELSE sem
        /\ UNCHANGED <<disk, free, cwd, fd, broken, lost>>

----------------------------------------------------------------------------
(* link: the linked inode is held by reference only.                       *)

sfs_link(p) ==
    LET d == loc[p].node
        i == loc[p].first
    IN  /\ At(p, "link")
        /\ IF sin[i].din.type = "dir" \/ sin[d].removed
           THEN Goto(p, Leave(<<>>, <<i, d>>)) /\ UNCHANGED sem
           ELSE sem' = Down(sem, p, d) /\ Goto(p, [pc |-> "l_link", held |-> <<d>>])
        /\ UNCHANGED <<disk, ents, free, sin, cwd, fd, broken, lost>>

sfs_link_nolock(p) ==
    LET d == loc[p].node
        i == loc[p].first
        slot == EmptySlot(d)
    IN  /\ At(p, "l_link") /\ Holds(p, d)
        /\ \/ UNCHANGED <<ents, sin>>
           \/ /\ ~ sin[d].removed /\ SlotOf(d, Head(loc[p].path)) = 0
              /\ \/ /\ ents' = SetSlot(ents, d, slot, [ino |-> i, name |-> Head(loc[p].path)])
                    /\ sin' = LinkSin(sin, d, slot, i)
                 \/ \E f \in WriteFails(d, slot) : ents' = f.ents /\ sin' = f.sin
        /\ Goto(p, Leave(<<>>, <<i, d>>))
        /\ UNCHANGED <<disk, free, sem, cwd, fd, broken, lost>>

----------------------------------------------------------------------------
(* rename: mutex_sem, the old directory, the new one if it is another.     *)

\* Mutant of sfs_rename: without mutex_sem.
MutRename(p) ==
    LET d == loc[p].first IN
    /\ At(p, "rename")
    /\ sem' = Down(sem, p, d)
    /\ Goto(p, [pc |-> "r_new", held |-> <<d>>])
    /\ UNCHANGED <<disk, ents, free, sin, cwd, fd, broken, lost>>

sfs_rename(p) ==
    /\ At(p, "rename")
    /\ sem' = Down(sem, p, MUTEX)
    /\ Goto(p, [pc |-> "r_old", held |-> <<MUTEX>>])
    /\ UNCHANGED <<disk, ents, free, sin, cwd, fd, broken, lost>>

RenameOut(p) == Leave(<<>>, <<loc[p].first, loc[p].node>>)

RenameLockOld(p) ==
    LET d == loc[p].first IN
    /\ At(p, "r_old") /\ Holds(p, MUTEX)
    /\ IF sin[d].removed THEN Goto(p, RenameOut(p)) /\ UNCHANGED sem
       ELSE sem' = Down(sem, p, d) /\ Goto(p, [pc |-> "r_new", held |-> <<d, MUTEX>>])
    /\ UNCHANGED <<disk, ents, free, sin, cwd, fd, broken, lost>>

(* sfs_rename1_nolock when both directories are the same.                  *)
RenameLockNew(p) ==
    LET d == loc[p].first
        n == loc[p].node
        s == SlotOf(d, loc[p].name)
        to == Head(loc[p].path)
    IN  /\ At(p, "r_new") /\ Holds(p, d)
        /\ IF sin[d].removed \/ sin[n].removed
           THEN Goto(p, RenameOut(p)) /\ UNCHANGED <<sem, ents>>
           ELSE IF d # n
           THEN /\ sem' = Down(sem, p, n)
                /\ Goto(p, [pc |-> "r_search", held |-> <<n>> \o loc[p].held]) /\ UNCHANGED ents
           ELSE /\ \/ UNCHANGED ents
                   \/ /\ s # 0 /\ SlotOf(d, to) = 0
                      /\ ents' = SetSlot(ents, d, s, [ino |-> ents[d][s].ino, name |-> to])
                /\ Goto(p, RenameOut(p)) /\ UNCHANGED sem
        /\ UNCHANGED <<disk, free, sin, cwd, fd, broken, lost>>

RenameSearch(p) ==
    LET d == loc[p].first
        n == loc[p].node
        s == SlotOf(d, loc[p].name)
    IN  /\ At(p, "r_search") /\ Holds(p, n)
        /\ \/ Goto(p, RenameOut(p)) /\ UNCHANGED sem
           \/ /\ ~ sin[n].removed /\ s # 0 /\ SlotOf(n, Head(loc[p].path)) = 0
              /\ sem' = Down(sem, p, FS)
              /\ Goto(p, [pc |-> "r_load", lnk |-> ents[d][s].ino])
        /\ UNCHANGED <<disk, ents, free, sin, cwd, fd, broken, lost>>

RenameLoad(p) ==
    /\ At(p, "r_load")
    /\ \/ sfs_load_inode(p, loc[p].lnk, "lookup") /\ Goto(p, [pc |-> "r_unlink"])
       \/ LoadFails(p, loc[p].lnk) /\ Goto(p, RenameOut(p))

(* The old entry goes first, if that does not fail; the process may sleep  *)
(* before the new entry is written, and that write may fail, after which   *)
(* the old one is restored, or the file is lost when that fails as well.   *)
RenameUnlink(p) ==
    LET d == loc[p].first
        i == loc[p].lnk
        less == UnlinkSin(sin, d, i)
    IN  /\ At(p, "r_unlink")
        /\ \/ /\ ents' = SetSlot(ents, d, SlotOf(d, loc[p].name), Empty)
              /\ sin' = IF sin[i].din.type = "dir" THEN AddLinks(less, d, -1) ELSE less
              /\ Goto(p, [pc |-> "r_link"])
           \/ UNCHANGED <<ents, sin>> /\ Goto(p, Leave(<<i>>, <<d, loc[p].node>>))
        /\ UNCHANGED <<disk, free, sem, cwd, fd, broken, lost>>

Relink(s, d, i, name, setparent) ==
    LET slot == EmptySlot(d)
        more == LinkSin(s.sin, d, slot, i)
        linked == IF sin[i].din.type = "dir" THEN AddLinks(more, d, 1) ELSE more
    IN  /\ ents' = SetSlot(s.ents, d, slot, [ino |-> i, name |-> name])
        /\ sin' = IF setparent /\ sin[i].din.type = "dir"
                  THEN [linked EXCEPT ![i].din.parent = d] ELSE linked

RenameLink(p) ==
    LET d == loc[p].first
        n == loc[p].node
        i == loc[p].lnk
    IN  /\ At(p, "r_link")
        /\ \/ Relink([ents |-> ents, sin |-> sin], n, i, Head(loc[p].path), TRUE) /\ UNCHANGED lost
           \/ \E f \in WriteFails(n, EmptySlot(n)) :
                 \/ Relink(f, d, i, loc[p].name, FALSE) /\ UNCHANGED lost
                 \/ lost' = lost \cup {i} /\ ents' = f.ents /\ sin' = f.sin
        /\ Goto(p, Leave(<<i>>, <<d, n>>))
        /\ UNCHANGED <<disk, free, sem, cwd, fd, broken>>

----------------------------------------------------------------------------
(* getcwd: sfs_namefile climbs to the root, loading each parent in turn.   *)

sfs_namefile(p) ==
    LET i == cwd[p] IN
    /\ At(p, "idle") /\ Getcwd[p]
    /\ IF i = ROOT THEN UNCHANGED <<sin, sem, loc>>
       ELSE /\ sin' = [sin EXCEPT ![i].ref = @ + 1]
            /\ sem' = Down(sem, p, FS)
            /\ loc' = [loc EXCEPT ![p] = [pc |-> "n_load", node |-> i, ino |-> sin[i].din.parent,
                                          held |-> <<>>]]
    /\ UNCHANGED <<disk, ents, free, cwd, fd, broken, lost>>

(* From here on node is the parent and ino the number of the child.        *)
NameLoad(p) ==
    /\ At(p, "n_load")
    /\ \/ /\ sfs_load_inode(p, loc[p].ino, "parent")
          /\ Goto(p, [pc |-> "put", then |-> "n_lock", puts |-> <<loc[p].node>>,
                      node |-> loc[p].ino, ino |-> loc[p].node])
       \/ LoadFails(p, loc[p].ino) /\ Goto(p, Leave(<<loc[p].node>>, <<>>))

NameLock(p) ==
    LET i == loc[p].node IN
    /\ At(p, "n_lock")
    /\ broken' = IF i = loc[p].ino \/ sin[i].din.type # "dir" THEN "namefile" ELSE ""
    /\ IF sin[i].removed THEN Goto(p, Leave(<<i>>, <<>>)) /\ UNCHANGED sem
       ELSE sem' = Down(sem, p, i) /\ Goto(p, [pc |-> "n_find"])
    /\ UNCHANGED <<disk, ents, free, sin, cwd, fd, lost>>

NameFind(p) ==
    LET i == loc[p].node
        found == \E s \in 1 .. sin[i].din.blocks : ents[i][s].ino = loc[p].ino
    IN  /\ At(p, "n_find") /\ Holds(p, i)
        /\ IF sin[i].removed \/ ~ found \/ i = ROOT
           THEN sem' = Up(sem, i) /\ Goto(p, Leave(<<i>>, <<>>))
           ELSE /\ sem' = Down(Up(sem, i), p, FS)
                /\ Goto(p, [pc |-> "n_load", ino |-> sin[i].din.parent])
        /\ UNCHANGED <<disk, ents, free, sin, cwd, fd, broken, lost>>

----------------------------------------------------------------------------
SfsDirNext == \E p \in Procs :
    \/ Start(p) \/ Walk(p) \/ sfs_lookup_once(p) \/ Loaded(p)
    \/ vop_ref_dec(p) \/ sfs_reclaim(p) \/ Unlock(p)
    \/ vfs_set_curdir(p) \/ vfs_open(p) \/ vfs_close(p) \/ sfs_fsync(p)
    \/ Create(p) \/ sfs_create_nolock(p) \/ CreateExists(p) \/ CreateOpens(p)
    \/ sfs_dirent_create_inode(p) \/ LinkNew(p)
    \/ sfs_unlink(p) \/ UnlinkLock(p) \/ UnlinkSearch(p) \/ UnlinkLoad(p) \/ UnlinkType(p)
    \/ UnlinkEntry(p) \/ sfs_link(p) \/ sfs_link_nolock(p)
    \/ sfs_rename(p) \/ RenameLockOld(p) \/ RenameLockNew(p) \/ RenameSearch(p)
    \/ RenameLoad(p) \/ RenameUnlink(p) \/ RenameLink(p)
    \/ sfs_namefile(p) \/ NameLoad(p) \/ NameLock(p) \/ NameFind(p)
SfsDirSpec == SfsDirInit /\ [][SfsDirNext]_dirVars

----------------------------------------------------------------------------
(* The inode as it is now, and the entries that name an inode.             *)
Din(i) == IF Cached(i) THEN sin[i].din ELSE disk[i]
Live == Inos \ free
Used(d) == {s \in DOMAIN ents[d] : ents[d][s].ino # 0}
Dirs == {d \in Live : Din(d).type = "dir"}
Subdirs(d) == {s \in Used(d) : Din(ents[d][s].ino).type = "dir"}
Entries(i) == UNION {{d} \X {s \in Used(d) : ents[d][s].ino = i} : d \in Dirs}

(* The inodes a process has a pointer to and has not dropped.              *)
Pointers(p) ==
    LET l == loc[p]
        Dropping == {"put", "reclaim", "unlock"}
        Seqs == {f \in {"puts", "last"} : f \in DOMAIN l /\ l.pc \in Dropping}
    IN  {cwd[p], fd[p]} \cup UNION {Range(l[f]) : f \in Seqs}
        \cup (IF l.pc \in {"idle"} \cup Dropping THEN {} ELSE {l.node})

(* An inode some process still points to is never freed, whatever lookups, *)
(* unlinks and reclaims of it overlap: ref_count and reclaim_count agree   *)
(* (lookup_sfs_nolock, sfs_reclaim and its assertion).                     *)
NoFreedInode ==
    /\ broken # "reclaim"
    /\ broken = "" => \A p \in Procs : \A i \in Pointers(p) \ {0} : Cached(i)

(* The link count of every inode is the number of its directory entries,   *)
(* a directory also counting itself and each of its subdirectories, in     *)
(* memory or, once it has left the cache, on disk; the slot count of a     *)
(* directory is the number of its entries (sfs_unlink, sfs_rename2_nolock, *)
(* sfs_mkdir_nolock, sfs_reclaim writing back dirty inodes).               *)
LinkCounts ==
    broken = "" => \A i \in Live : (Cached(i) \/ disk[i].type # "free") =>
        LET d == Din(i)
            self == IF i = ROOT THEN 2 ELSE 1
        IN  IF d.type = "file" \/ d.nlinks = 0 THEN d.nlinks = Cardinality(Entries(i))
            ELSE /\ d.nlinks = Cardinality(Entries(i)) + self + Cardinality(Subdirs(i))
                 /\ d.slots = Cardinality(Used(i)) /\ d.blocks = Len(ents[i])

(* An inode without a name is given back: what is neither free nor linked  *)
(* is in the cache, in use or about to be reclaimed (sfs_reclaim).  Only a *)
(* directory that a rename could neither move nor put back is lost.        *)
NoOrphan ==
    broken = "" => \A i \in Live \ ({ROOT} \cup lost) : Entries(i) # {} \/ Cached(i)
                       \/ \E p \in Procs : loc[p].pc = "set_links" /\ loc[p].lnk = i

(* The inode found by a name is still there when it is loaded, although    *)
(* the directory is no longer locked: the assertions of sfs_load_inode     *)
(* hold for names, thanks to the order in which fs_sem is granted.         *)
LookupAssert == broken # "lookup"

(* The tree: no directory is its own ancestor.                             *)
RECURSIVE Above(_, _)
Above(i, k) == IF i = ROOT \/ k = 0 THEN {i} ELSE {i} \cup Above(Din(i).parent, k - 1)
IsTree == \A i \in Live : Din(i).type = "dir" /\ Din(i).nlinks # 0 => ROOT \in Above(i, Cardinality(Inos))

(* No two calls wait for each other, nor one for itself, as long as no     *)
(* directory has been moved below itself: mutex_sem, then directories,     *)
(* then fs_sem (sfs_rename, sfs_unlink, sfs_create).                       *)
NoLockCycle ==
    LET Waits(p, q) == \E l \in DOMAIN sem : Len(sem[l]) > 1 /\ Head(sem[l]) = q /\ Contains(Tail(sem[l]), p)
        Cycle == \E p, q \in Procs : Waits(p, q) /\ Waits(q, p)
    IN  Cycle => ~ (broken = "" /\ IsTree)

(* sfs_load_parent trusts the parent number of any directory: the          *)
(* assertions of sfs_load_inode hold for "..".                             *)
ParentAssert == broken # "parent"

(* No directory is its own parent (assertion in sfs_namefile).             *)
NamefileAssert == broken # "namefile"
=============================================================================

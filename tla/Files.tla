-------------------------------- MODULE Files --------------------------------
(***************************************************************************)
(* Open files: the descriptor tables of kern/fs/file.c and fs.c, shared by *)
(* threads, over inodes with the two counts of kern/fs/vfs/inode.c.  A     *)
(* thread may sleep in every inode operation, where it waits for the disk, *)
(* a pipe or memory; between two sleeps it runs alone.  Positions and data *)
(* are left out.                                                           *)
(***************************************************************************)
EXTENDS Integers, FiniteSets

CONSTANTS
    Threads,
    Tables,      \* fs_structs, positive integers
    NENTRY,      \* FS_STRUCT_NENTRY
    KEPT,        \* descriptors below it survive fs_closeall
    Nodes,       \* inodes, positive integers
    MaxChunks    \* file_read or file_write calls of one sysfile_read or sysfile_write

VARIABLES fs, node, fsOf, loc, ok

filesVars == <<fs, node, fsOf, loc, ok>>

Fds == 0 .. NENTRY - 1
FreeFile == [status |-> "NONE", open |-> 0, node |-> 0]
NoTable == [count |-> 0, map |-> [f \in Fds |-> FreeFile]]
User == [pc |-> "user", fd |-> 0, fd2 |-> 0, node |-> 0, next |-> -1, chunks |-> 0]
Gone == [User EXCEPT !.pc = "gone"]
Smallest(S) == CHOOSE x \in S : \A y \in S : x <= y

FilesInit ==
    /\ fs = [t \in Tables |-> IF t = Smallest(Tables) THEN [NoTable EXCEPT !.count = 1] ELSE NoTable]
    /\ node = [n \in Nodes |-> [ref |-> 0, open |-> 0, live |-> FALSE]]
    /\ fsOf = [t \in Threads |-> IF t = Smallest(Threads) THEN Smallest(Tables) ELSE 0]
    /\ loc = [t \in Threads |-> IF t = Smallest(Threads) THEN User ELSE Gone]
    /\ ok = TRUE

----------------------------------------------------------------------------
(* The kernel's data as one record, and the functions that change it; a    *)
(* failed assertion sets ok to FALSE.                                      *)
Now == [fs |-> fs, node |-> node, loc |-> loc, ok |-> ok]
Becomes(s) == fs' = s.fs /\ node' = s.node /\ loc' = s.loc /\ ok' = s.ok
At(t, pc) == ok /\ loc[t].pc = pc
Go(s, t, pc) == [s EXCEPT !.loc[t].pc = pc]
Require(s, cond) == [s EXCEPT !.ok = @ /\ cond]
Slot(s, t, fd) == s.fs[fsOf[t]].map[fd]
SetSlot(s, t, fd, f) == [s EXCEPT !.fs[fsOf[t]].map[fd] = f]

(* Back to the user, to the next chunk, or to the loop of fs_closeall.     *)
Finish(s, t) ==
    IF s.loc[t].next >= 0 THEN Go(s, t, "closing")
    ELSE IF s.loc[t].chunks > 0 THEN Go(s, t, "chunk")
    ELSE [s EXCEPT !.loc[t] = User]

(* The end of filemap_free.                                                *)
SlotFree(s, t) == Finish(SetSlot(s, t, s.loc[t].fd, FreeFile), t)

inode_ref_inc(s, n) == [s EXCEPT !.node[n].ref = @ + 1, !.node[n].live = TRUE]
inode_open_inc(s, n) == [s EXCEPT !.node[n].open = @ + 1]

inode_ref_dec(s, t) ==
    LET n == s.loc[t].node
        r == [Require(s, s.node[n].ref > 0) EXCEPT !.node[n].ref = @ - 1]
    IN  IF r.node[n].ref = 0 THEN Go(r, t, "vop_reclaim") ELSE SlotFree(r, t)

(* vfs_close: inode_open_dec, then inode_ref_dec.                          *)
vfs_close(s, t) ==
    LET n == s.loc[t].node
        r == [Require(s, s.node[n].open > 0) EXCEPT !.node[n].open = @ - 1]
    IN  IF r.node[n].open = 0 THEN Go(r, t, "vop_close") ELSE inode_ref_dec(r, t)

filemap_free(s, t, fd) ==
    LET f == Slot(s, t, fd)
        r == [Require(s, f.status \in {"INIT", "CLOSED"} /\ f.open = 0) EXCEPT !.loc[t].fd = fd]
    IN  IF f.status = "CLOSED" THEN vfs_close([r EXCEPT !.loc[t].node = f.node], t) ELSE SlotFree(r, t)

Release(s, t, fd) ==
    LET f == Slot(s, t, fd)
        r == SetSlot(Require(s, f.open > 0), t, fd, [f EXCEPT !.open = @ - 1])
    IN  IF f.open = 1 THEN filemap_free(r, t, fd) ELSE Finish(r, t)

filemap_release(s, t, fd) == Release(Require(s, Slot(s, t, fd).status \in {"OPENED", "CLOSED"}), t, fd)

filemap_close(s, t, fd) ==
    Release(SetSlot(Require(s, Slot(s, t, fd).status = "OPENED"), t, fd, [Slot(s, t, fd) EXCEPT !.status = "CLOSED"]), t, fd)

filemap_open(s, t, fd, n) ==
    SetSlot(Require(s, Slot(s, t, fd).status = "INIT"), t, fd,
            [status |-> "OPENED", open |-> Slot(s, t, fd).open + 1, node |-> n])

(* The descriptors filemap_alloc may return, want a given one or NO_FD.    *)
NO_FD == -1
Allocs(t, want) ==
    LET free == {f \in Fds : fs[fsOf[t]].map[f].status = "NONE"}
    IN  IF want # NO_FD THEN free \cap {want} ELSE IF free = {} THEN {} ELSE {Smallest(free)}
filemap_alloc(s, t, fd) ==
    SetSlot(Require(s, Slot(s, t, fd).open = 0), t, fd, [Slot(s, t, fd) EXCEPT !.status = "INIT", !.node = 0])

fd2file(t, fd) == fs[fsOf[t]].map[fd].status = "OPENED"

----------------------------------------------------------------------------
(* file_open and file_mkfifo: the descriptor is taken before vfs_open.     *)
file_open(t) ==
    /\ At(t, "user")
    /\ \E fd \in Allocs(t, NO_FD) :
        Becomes([filemap_alloc(Now, t, fd) EXCEPT !.loc[t].pc = "vfs_open", !.loc[t].fd = fd])
    /\ UNCHANGED fsOf

(* vfs_open finds no inode; or vop_open fails; or O_TRUNC or O_APPEND's    *)
(* fstat fails on the open inode; or it succeeds.                          *)
vfs_open(t) ==
    /\ At(t, "vfs_open") /\ UNCHANGED fsOf
    /\ \/ Becomes(filemap_free(Now, t, loc[t].fd))
       \/ \E n \in Nodes :
            LET found == [inode_ref_inc(Now, n) EXCEPT !.loc[t].node = n]
                opened == inode_open_inc(found, n)
            IN  \/ Becomes(inode_ref_dec(found, t))
                \/ Becomes(vfs_close(opened, t))
                \/ Becomes(Finish(filemap_open(opened, t, loc[t].fd, n), t))

file_close(t, fd) ==
    /\ At(t, "user") /\ fd2file(t, fd)
    /\ Becomes(filemap_close(Now, t, fd))
    /\ UNCHANGED fsOf

(* sysfile_read or sysfile_write: every chunk looks the descriptor up      *)
(* again.  fstat, fsync, seek and getdirentry are calls of one chunk.      *)
\* Mutant of Acquire: the transfer does not count as a use of the file.
MutAcquire(s, t, fd) == [s EXCEPT !.loc[t].pc = "io", !.loc[t].fd = fd, !.loc[t].node = Slot(s, t, fd).node]

Acquire(s, t, fd) ==
    [SetSlot(s, t, fd, [Slot(s, t, fd) EXCEPT !.open = @ + 1])
     EXCEPT !.loc[t].pc = "io", !.loc[t].fd = fd, !.loc[t].node = Slot(s, t, fd).node]

file_io(t, fd) ==
    /\ At(t, "user") /\ fd2file(t, fd)
    /\ \E c \in 0 .. MaxChunks - 1 : Becomes(Acquire([Now EXCEPT !.loc[t].chunks = c], t, fd))
    /\ UNCHANGED fsOf

IoDone(t) ==
    /\ At(t, "io") /\ Becomes(filemap_release(Now, t, loc[t].fd)) /\ UNCHANGED fsOf

NextChunk(t) ==
    /\ At(t, "chunk") /\ UNCHANGED fsOf
    /\ LET fd == loc[t].fd
           s == [Now EXCEPT !.loc[t].chunks = @ - 1]
       IN  IF fd2file(t, fd) THEN Becomes(Acquire(s, t, fd))
           ELSE Becomes([s EXCEPT !.loc[t] = User])

(* filemap_dup.                                                            *)
Dup(s, n) == inode_open_inc(inode_ref_inc(s, n), n)

file_dup(t, fd1, fd2) ==
    /\ At(t, "user") /\ fd2file(t, fd1)
    /\ \E fd \in Allocs(t, fd2) :
        LET n == Slot(Now, t, fd1).node
        IN  Becomes(filemap_open(Dup(filemap_alloc(Now, t, fd), n), t, fd, n))
    /\ UNCHANGED fsOf

(* Both descriptors are taken before pipe_open; when there is no second    *)
(* one the first is given back.                                            *)
file_pipe(t) ==
    /\ At(t, "user") /\ UNCHANGED fsOf
    /\ \E fd \in Allocs(t, NO_FD) :
        LET s == filemap_alloc(Now, t, fd)
            rest == {f \in Fds : Slot(s, t, f).status = "NONE"}
        IN  IF rest = {} THEN Becomes(filemap_free(s, t, fd))
            ELSE Becomes([filemap_alloc(s, t, Smallest(rest)) EXCEPT
                          !.loc[t] = [User EXCEPT !.pc = "pipe_open", !.fd = fd, !.fd2 = Smallest(rest)]])

pipe_open(t) ==
    /\ At(t, "pipe_open") /\ UNCHANGED fsOf
    /\ LET fd == loc[t].fd
           fd2 == loc[t].fd2
           new == {n \in Nodes : ~ node[n].live}
       IN  \/ Becomes(filemap_free(SetSlot(Now, t, fd, FreeFile), t, fd2))
           \/ /\ Cardinality(new) > 1
              /\ LET r == Smallest(new)
                     w == Smallest(new \ {r})
                 IN  Becomes(Finish(filemap_open(filemap_open(Dup(Dup(Now, r), w), t, fd, r), t, fd2, w), t))

----------------------------------------------------------------------------
(* vop_close and vop_reclaim return.  The inode is freed by the last       *)
(* reclaim in progress, if nobody looked it up meanwhile.                  *)
VopClosed(t) == At(t, "vop_close") /\ Becomes(inode_ref_dec(Now, t)) /\ UNCHANGED fsOf

VopReclaimed(t) ==
    LET n == loc[t].node
        last == node[n].ref = 0 /\ \A u \in Threads \ {t} : ~ (loc[u].pc = "vop_reclaim" /\ loc[u].node = n)
        s == IF last THEN [Require(Now, node[n].open = 0) EXCEPT !.node[n].live = FALSE] ELSE Now
    IN  At(t, "vop_reclaim") /\ Becomes(SlotFree(s, t)) /\ UNCHANGED fsOf

----------------------------------------------------------------------------
(* copy_fs: CLONE_FS shares the table, else dup_fs copies what is open.    *)
RECURSIVE DupAll(_, _)
DupAll(s, fds) ==
    IF fds = {} THEN s ELSE LET f == CHOOSE x \in fds : TRUE IN DupAll(Dup(s, f[2]), fds \ {f})

copy_fs(t, u, CLONE_FS) ==
    LET from == fs[fsOf[t]].map
        open == {f \in Fds : from[f].status = "OPENED"}
        free == {x \in Tables : fs[x].count = 0 /\ \A v \in Threads : fsOf[v] # x}
        new == Smallest(free)
        copy == [f \in Fds |-> IF f \in open THEN [from[f] EXCEPT !.open = 1] ELSE FreeFile]
        s == [DupAll(Now, {<<f, from[f].node>> : f \in open}) EXCEPT !.loc[u] = User]
    IN  /\ At(t, "user") /\ At(u, "gone")
        /\ \/ /\ CLONE_FS
              /\ fsOf' = [fsOf EXCEPT ![u] = fsOf[t]]
              /\ Becomes([Now EXCEPT !.fs[fsOf[t]].count = @ + 1, !.loc[u] = User])
           \/ /\ ~ CLONE_FS /\ free # {}
              /\ fsOf' = [fsOf EXCEPT ![u] = new]
              /\ Becomes([s EXCEPT !.fs[new] = [count |-> 1, map |-> copy]])

(* do_execve's fs_closeall, and put_fs with fs_destroy at exit.            *)
fs_closeall(t) ==
    At(t, "user") /\ Becomes([Now EXCEPT !.loc[t] = [User EXCEPT !.pc = "closing", !.next = KEPT]]) /\ UNCHANGED fsOf

put_fs(t) ==
    LET last == fs[fsOf[t]].count = 1
        s == [Now EXCEPT !.fs[fsOf[t]].count = @ - 1]
    IN  /\ At(t, "user")
        /\ IF last THEN Becomes([s EXCEPT !.loc[t] = [User EXCEPT !.pc = "closing", !.next = 0]]) /\ UNCHANGED fsOf
           ELSE Becomes([s EXCEPT !.loc[t] = Gone]) /\ fsOf' = [fsOf EXCEPT ![t] = 0]

(* The next open file is closed; fs_destroy asserts that it is then free.  *)
CloseNext(t) ==
    LET map == fs[fsOf[t]].map
        open == {f \in Fds : f >= loc[t].next /\ map[f].status = "OPENED"}
        f == Smallest(open)
        destroy == fs[fsOf[t]].count = 0
        freed == Require(Now, destroy => \A g \in Fds : g < (IF open = {} THEN NENTRY ELSE f) => map[g] = FreeFile)
    IN  /\ At(t, "closing")
        /\ IF open # {} THEN Becomes(filemap_close([freed EXCEPT !.loc[t].next = f + 1], t, f)) /\ UNCHANGED fsOf
           ELSE IF destroy THEN Becomes([freed EXCEPT !.loc[t] = Gone]) /\ fsOf' = [fsOf EXCEPT ![t] = 0]
           ELSE Becomes([Now EXCEPT !.loc[t] = User]) /\ UNCHANGED fsOf

FilesNext ==
    \E t \in Threads :
        \/ file_open(t) \/ vfs_open(t) \/ file_pipe(t) \/ pipe_open(t)
        \/ \E fd \in Fds : file_close(t, fd) \/ file_io(t, fd) \/ \E fd2 \in Fds \cup {NO_FD} : file_dup(t, fd, fd2)
        \/ IoDone(t) \/ NextChunk(t) \/ VopClosed(t) \/ VopReclaimed(t)
        \/ \E u \in Threads, share \in BOOLEAN : copy_fs(t, u, share)
        \/ fs_closeall(t) \/ put_fs(t) \/ CloseNext(t)

FilesSpec == FilesInit /\ [][FilesNext]_filesVars

(* No assertion of file.c, fs.c and inode.c fails, whatever the threads    *)
(* that share a table do to each other's descriptors.                      *)
FilesAsserts == ok

(* The counts of an inode are the open files, and the calls in progress,   *)
(* that use it; so an inode in use is never reclaimed, and a file in use   *)
(* by a read or write keeps its inode although another thread closed it.   *)
InodeCounts ==
    \A n \in Nodes :
        LET files == {<<x, f>> \in Tables \X Fds : fs[x].map[f].node = n /\ fs[x].map[f].status \in {"OPENED", "CLOSED"}}
            closing == {t \in Threads : loc[t].node = n /\ loc[t].pc \in {"vop_close", "vop_reclaim"}
                                         /\ fs[fsOf[t]].map[loc[t].fd].status = "CLOSED"}
            refs == {t \in Threads : loc[t].node = n /\ loc[t].pc = "vop_close"}
        IN  /\ node[n].open = Cardinality(files) - Cardinality(closing)
            /\ node[n].ref = node[n].open + Cardinality(refs)
            /\ \A t \in Threads : loc[t].pc \in {"io", "vop_close", "vop_reclaim"} /\ loc[t].node = n => node[n].live
            /\ node[n].ref = 0 /\ node[n].live => \E t \in Threads : loc[t].pc = "vop_reclaim" /\ loc[t].node = n
=============================================================================

------------------------------ MODULE MCSfsDir ------------------------------
(* Two or three processes on a volume of two or three inodes.  The first   *)
(* state picks the calls they make: in a the names change under the walks, *)
(* in b entries move between directories, in c a file with several names   *)
(* is unlinked while two others look it up, in d a directory is removed    *)
(* while a rename out of it climbs to its parent, and writes to the disk   *)
(* fail.                                                                   *)
EXTENDS Integers, Sequences, TLC

VARIABLES part, disk, ents, free, sin, sem, cwd, fd, loc, lost, broken

Call(op, path) == [op |-> op, path |-> path, to |-> <<>>]
Move(op, path, to) == [op |-> op, path |-> path, to |-> to]

A == INSTANCE SfsDir WITH Procs <- 1 .. 2, Inos <- 1 .. 3, Getcwd <- <<FALSE, TRUE>>, IoErrors <- FALSE,
        Calls <- <<{Call("mkdir", <<"a">>), Call("unlink", <<"a">>), Call("chdir", <<"a">>)},
                   {Call("unlink", <<"a">>), Call("create", <<"a">>), Move("rename", <<"a">>, <<"b">>), Call("open", <<"b">>)}>>
B == INSTANCE SfsDir WITH Procs <- 1 .. 2, Inos <- 1 .. 3, Getcwd <- <<TRUE, FALSE>>, IoErrors <- FALSE,
        Calls <- <<{Call("mkdir", <<"a">>), Call("chdir", <<"a">>), Call("chdir", <<"..">>),
                    Move("rename", <<"f">>, <<"a", "f">>), Move("rename", <<"f">>, <<"..", "f">>)},
                   {Call("create", <<"f">>)}>>
D == INSTANCE SfsDir WITH Procs <- 1 .. 2, Inos <- 1 .. 3, Getcwd <- <<FALSE, FALSE>>, IoErrors <- TRUE,
        Calls <- <<{Call("mkdir", <<"a">>), Call("chdir", <<"a">>), Call("create", <<"f">>),
                    Move("rename", <<"f">>, <<"..", "f">>)},
                   {Call("unlink", <<"a">>)}>>
C == INSTANCE SfsDir WITH Procs <- 1 .. 3, Inos <- 1 .. 2, Getcwd <- <<FALSE, FALSE, FALSE>>, IoErrors <- FALSE,
        Calls <- <<{Call("create", <<"f">>), Move("link", <<"f">>, <<"g">>)}, {Call("unlink", <<"f">>), Call("unlink", <<"g">>)},
                   {Call("open", <<"f">>)}>>

Init == (part = "a" /\ A!SfsDirInit) \/ (part = "b" /\ B!SfsDirInit) \/ (part = "c" /\ C!SfsDirInit)
        \/ (part = "d" /\ D!SfsDirInit)
Next == /\ UNCHANGED part
        /\ (part = "a" /\ A!SfsDirNext) \/ (part = "b" /\ B!SfsDirNext) \/ (part = "c" /\ C!SfsDirNext)
           \/ (part = "d" /\ D!SfsDirNext)
Spec == Init /\ [][Next]_<<part, A!dirVars>>

(* An inode some process still points to is never freed, whatever lookups, *)
(* unlinks and reclaims of it overlap (lookup_sfs_nolock, sfs_reclaim).    *)
NoFreedInode == IF part = "c" THEN C!NoFreedInode ELSE A!NoFreedInode

(* Link and slot counts are those of the directory tree, in memory or, out *)
(* of the cache, on disk, and an inode without a name is given back        *)
(* (sfs_dirent_link_nolock, sfs_dirent_unlink_nolock, sfs_rename2_nolock,  *)
(* sfs_reclaim).                                                           *)
LinkCounts == IF part = "c" THEN C!LinkCounts /\ C!NoOrphan ELSE A!LinkCounts /\ A!NoOrphan

(* An inode found by name is still there when it is loaded, although its   *)
(* directory is no longer locked (sfs_lookup_once, sfs_load_inode).        *)
LookupAssert == A!LookupAssert

(* No two calls wait for each other's locks (sfs_unlink, sfs_rename,       *)
(* sfs_create).                                                            *)
NoLockCycle == IF part = "c" THEN C!NoLockCycle ELSE A!NoLockCycle
=============================================================================

------------------------------ MODULE VfsMount ------------------------------
(* From power on to power off as the VFS layer sees it: the table of       *)
(* devices (kern/fs/vfs/vfsdev.c), mounting the disk and writing its       *)
(* inodes, superblock and free map back (kern/fs/sfs/sfs_fs.c), the boot   *)
(* file system, current directories, and where a path starts (vfs.c,       *)
(* vfspath.c, vfslookup.c).  The power may fail at any time, and a write   *)
(* of a block may fail.                                                    *)
(*                                                                         *)
(* Of the file system there is the inode of the root directory with the    *)
(* number of its blocks, the number of unused blocks in the superblock and *)
(* the number of free bits in the free map.  At shutdown the root is the   *)
(* one inode in use, and so in inode_list.                                 *)
(* vfs_sync and vfs_unmount have no caller.  The holder of the lock of the *)
(* table does not wait for anybody who wants it: a lookup is one step.     *)
EXTENDS Integers, Sequences, FiniteSets, SequencesExt, FiniteSetsExt

CONSTANTS Procs,    \* processes with an fs_struct of their own
          init,     \* initproc
          NUnused,  \* unused blocks of the disk when it is new
          NTRIES,   \* how often sfs_cleanup tries (32 in the code)
          MaxHeld   \* bound on the processes inside a lookup

VARIABLES phase,   \* "off", "boot", "run", "sync_inodes", "sync", "sync_super",
                   \* "sync_freemap", "done", "panic"
          vdev,    \* vdev_list
          disk,    \* super, map and din, the root's, as on the disk
          sfs,     \* the same in memory; dirty: super_dirty; idirty: dirty of the
                   \* root's sfs_inode; tries: those sfs_cleanup made
          bootfs,  \* bootfs_node
          cwd,     \* pwd of each process; "none" is NULL
          live,    \* the processes that have an fs_struct
          at,      \* the inode a process holds inside a call
          ref      \* ref_count of the inodes

vars == <<phase, vdev, disk, sfs, bootfs, cwd, live, at, ref>>

Nodes == {"root", "pipe_root", "stdin", "disk0"}

Mounted(d) == [super |-> d.super, map |-> d.map, din |-> d.din, dirty |-> FALSE, idirty |-> FALSE, tries |-> 0]

NoFs == Mounted([super |-> 0, map |-> 0, din |-> 0])

Off ==
  /\ vdev = <<>> /\ sfs = NoFs /\ bootfs = "none"
  /\ cwd = [p \in Procs |-> "none"] /\ live = {} /\ at = [p \in Procs |-> "none"]
  /\ ref = [n \in Nodes |-> 0]

VfsInit == phase = "off" /\ disk = [super |-> NUnused, map |-> NUnused, din |-> 0] /\ Off

-----------------------------------------------------------------------------
(* The table of devices                                                    *)

\* vfs_do_add: a new device goes first, a name is used once.
vfs_do_add(list, name, node, fs, mountable) ==
  IF \E i \in 1 .. Len(list) : list[i].name = name THEN list
  ELSE <<[name |-> name, node |-> node, fs |-> fs, mountable |-> mountable]>> \o list

\* The devices of dev_init and pipe_init that differ in what they are.
Devices ==
  vfs_do_add(vfs_do_add(vfs_do_add(<<>>, "stdin", "stdin", "none", FALSE),
                        "disk0", "disk0", "none", TRUE),
             "pipe", "none", "pipe_root", FALSE)

\* find_mount, and vfs_mount, which sets vdev->fs.
vfs_mount(list, name, fs) ==
  [i \in 1 .. Len(list) |->
     IF list[i].name = name /\ list[i].mountable /\ list[i].fs = "none"
     THEN [list[i] EXCEPT !.fs = fs] ELSE list[i]]

\* vfs_get_root: the root of the file system, else a device that is not
\* mountable; else E_NA_DEV or E_NO_DEV.
vfs_get_root(name) ==
  LET found == SelectSeq(vdev, LAMBDA v : v.name = name) IN
  IF found = <<>> THEN "none"
  ELSE IF found[1].fs # "none" THEN found[1].fs
  ELSE IF ~found[1].mountable THEN found[1].node ELSE "none"

\* vfs_get_devname of the file system whose root is r.
vfs_get_devname(r) ==
  LET found == SelectSeq(vdev, LAMBDA v : v.fs = r) IN IF found = <<>> THEN "none" ELSE found[1].name

\* fs_init: the disk is mounted if the superblock agrees with the free map;
\* sfs_do_mount asserts that it does.
fs_init ==
  /\ phase = "off"
  /\ phase' = IF disk.super = disk.map THEN "boot" ELSE "panic"
  /\ vdev' = vfs_mount(Devices, "disk0", "root")
  /\ sfs' = Mounted(disk)
  /\ ref' = [n \in Nodes |-> IF n = "root" THEN 0 ELSE 1]
  /\ live' = {init}
  /\ UNCHANGED <<disk, bootfs, cwd, at>>

-----------------------------------------------------------------------------
(* Inodes in hand                                                          *)

RefInc(r, n) == IF n = "none" THEN r ELSE [r EXCEPT ![n] = @ + 1]

RefDec(r, n) == IF n = "none" THEN r ELSE [r EXCEPT ![n] = @ - 1]

\* Where get_device starts: "dev:", "/" and ":" paths, and relative ones.  A
\* path that starts with a colon leads to the root of cwd's file system.
get_device(p, path) ==
  CASE path = "/" -> bootfs
    [] path = ":" -> IF cwd[p] = "none" THEN "none" ELSE "root"
    [] path = "." -> cwd[p]
    [] OTHER -> vfs_get_root(path)

Free == phase = "run"

\* vfs_lookup of such a path: the caller has a reference.
vfs_lookup(p, path) ==
  /\ Free /\ p \in live /\ at[p] = "none" /\ get_device(p, path) # "none"
  /\ Cardinality({q \in Procs : at[q] # "none"}) < MaxHeld
  /\ at' = [at EXCEPT ![p] = get_device(p, path)]
  /\ ref' = RefInc(ref, get_device(p, path))
  /\ UNCHANGED <<phase, vdev, disk, sfs, bootfs, cwd, live>>

\* The call ends without keeping the inode.
vop_ref_dec(p) ==
  /\ at[p] # "none"
  /\ at' = [at EXCEPT ![p] = "none"]
  /\ ref' = RefDec(ref, at[p])
  /\ UNCHANGED <<phase, vdev, disk, sfs, bootfs, cwd, live>>

\* gettype of a device says no directory; pipe_root has no gettype.
IsDir(n) == n = "root"

MutSetCurdir(r, p, dir) ==
  IF cwd[p] # dir /\ IsDir(dir) THEN RefDec(r, cwd[p]) ELSE r

\* vfs_set_curdir: what becomes of the reference counts.
SetCurdirRefs(r, p, dir) ==
  IF cwd[p] # dir /\ IsDir(dir) THEN RefDec(RefInc(r, dir), cwd[p]) ELSE r

\* The end of vfs_chdir: vfs_set_curdir, and the lookup's reference goes.
vfs_chdir(p) ==
  /\ Free /\ at[p] # "none"
  /\ cwd' = IF IsDir(at[p]) THEN [cwd EXCEPT ![p] = at[p]] ELSE cwd
  /\ ref' = RefDec(SetCurdirRefs(ref, p, at[p]), at[p])
  /\ at' = [at EXCEPT ![p] = "none"]
  /\ UNCHANGED <<phase, vdev, disk, sfs, bootfs, live>>

\* vfs_set_bootfs("disk0:") of init_main: chdir, a reference to the current
\* directory for bootfs_node, and the old one's goes.
vfs_set_bootfs ==
  LET dir == vfs_get_root("disk0") IN
  /\ phase = "boot"
  /\ phase' = "run"
  /\ cwd' = [cwd EXCEPT ![init] = dir]
  /\ bootfs' = dir
  /\ ref' = RefDec(RefInc(SetCurdirRefs(ref, init, dir), dir), bootfs)
  /\ UNCHANGED <<vdev, disk, sfs, live, at>>

\* copy_fs and put_fs, as far as the current directory goes.
Fork(p, q) ==
  /\ Free /\ p \in live /\ q \notin live /\ at[p] = "none"
  /\ live' = live \cup {q}
  /\ cwd' = [cwd EXCEPT ![q] = cwd[p]]
  /\ ref' = RefInc(ref, cwd[p])
  /\ UNCHANGED <<phase, vdev, disk, sfs, bootfs, at>>

Exit(p) ==
  /\ Free /\ p \in live \ {init} /\ at[p] = "none"
  /\ live' = live \ {p}
  /\ cwd' = [cwd EXCEPT ![p] = "none"]
  /\ ref' = RefDec(ref, cwd[p])
  /\ UNCHANGED <<phase, vdev, disk, sfs, bootfs, at>>

-----------------------------------------------------------------------------
(* Inodes, superblock and free map                                         *)

\* A block is added to the root directory or taken from it: both numbers
\* change, and the inode.
UseBlocks(n) ==
  /\ Free /\ live # {init} /\ sfs.super + n \in 0 .. NUnused /\ sfs.din - n \in 0 .. NUnused
  /\ sfs' = [sfs EXCEPT !.super = @ + n, !.map = @ + n, !.dirty = TRUE, !.din = @ - n, !.idirty = TRUE]
  /\ UNCHANGED <<phase, vdev, disk, bootfs, cwd, live, at, ref>>

\* sfs_fsync of the root: done, or a failed write that leaves the inode dirty.
sfs_fsync ==
  \/ /\ disk' = IF sfs.idirty THEN [disk EXCEPT !.din = sfs.din] ELSE disk
     /\ sfs' = [sfs EXCEPT !.idirty = FALSE]
  \/ sfs.idirty /\ UNCHANGED <<disk, sfs>>

\* A process calls fsync on the root directory.
Fsync ==
  /\ Free /\ live # {init}
  /\ sfs_fsync
  /\ UNCHANGED <<phase, vdev, bootfs, cwd, live, at, ref>>

\* fs_cleanup, when all processes have quit: the first sfs_sync.
sfs_cleanup ==
  /\ Free /\ live = {init} /\ at[init] = "none"
  /\ phase' = "sync_inodes"
  /\ sfs' = [sfs EXCEPT !.tries = 1]
  /\ UNCHANGED <<vdev, disk, bootfs, cwd, live, at, ref>>

\* The loop of sfs_sync over the inodes, which ignores what vop_fsync returns.
SyncInodes ==
  /\ phase = "sync_inodes" /\ sfs_fsync
  /\ phase' = "sync"
  /\ UNCHANGED <<vdev, bootfs, cwd, live, at, ref>>

\* The rest of sfs_sync is there for a dirty superblock only.
sfs_sync ==
  /\ phase = "sync"
  /\ phase' = IF sfs.dirty THEN "sync_super" ELSE "done"
  /\ sfs' = [sfs EXCEPT !.dirty = FALSE]
  /\ UNCHANGED <<vdev, disk, bootfs, cwd, live, at, ref>>

\* A write of sfs_sync failed; sfs_cleanup tries again, or gives up.
Failed ==
  /\ sfs' = [sfs EXCEPT !.dirty = TRUE, !.tries = IF @ < NTRIES THEN @ + 1 ELSE @]
  /\ phase' = IF sfs.tries < NTRIES THEN "sync_inodes" ELSE "done"

\* sfs_sync_super
sfs_sync_super ==
  /\ phase = "sync_super"
  /\ \/ disk' = [disk EXCEPT !.super = sfs.super] /\ phase' = "sync_freemap" /\ UNCHANGED sfs
     \/ Failed /\ UNCHANGED disk
  /\ UNCHANGED <<vdev, bootfs, cwd, live, at, ref>>

\* sfs_sync_freemap
sfs_sync_freemap ==
  /\ phase = "sync_freemap"
  /\ \/ disk' = [disk EXCEPT !.map = sfs.map] /\ phase' = "done" /\ UNCHANGED sfs
     \/ Failed /\ UNCHANGED disk
  /\ UNCHANGED <<vdev, bootfs, cwd, live, at, ref>>

\* The power goes, at the end or at any other time.
PowerOff ==
  /\ phase \notin {"off", "panic"}
  /\ phase' = "off" /\ vdev' = <<>> /\ sfs' = NoFs /\ bootfs' = "none"
  /\ cwd' = [p \in Procs |-> "none"] /\ live' = {} /\ at' = [p \in Procs |-> "none"]
  /\ ref' = [n \in Nodes |-> 0]
  /\ UNCHANGED disk

VfsNext ==
  \/ fs_init
  \/ vfs_set_bootfs
  \/ \E p \in Procs :
        \/ \E path \in {"/", ":", ".", "stdin", "disk0", "pipe"} : vfs_lookup(p, path)
        \/ vop_ref_dec(p) \/ vfs_chdir(p) \/ Exit(p)
        \/ \E q \in Procs : Fork(p, q)
  \/ \E n \in {-1, 1} : UseBlocks(n)
  \/ Fsync
  \/ sfs_cleanup
  \/ SyncInodes
  \/ sfs_sync
  \/ sfs_sync_super
  \/ sfs_sync_freemap
  \/ PowerOff

VfsSpec == VfsInit /\ [][VfsNext]_vars

-----------------------------------------------------------------------------
(* Properties                                                              *)

Held(n) ==
  Cardinality({p \in live : cwd[p] = n}) + Cardinality({p \in Procs : at[p] = n})
    + (IF bootfs = n THEN 1 ELSE 0) + (IF n # "root" /\ vdev # <<>> THEN 1 ELSE 0)

\* The reference counts of the roots and devices count exactly the current
\* directories, bootfs_node, the device table and the lookups under way; a
\* current directory is never a device, so vfs_getcwd and a path that starts
\* with a colon find a file system and its device name (vfslookup.c:57,
\* vfspath.c:105).
VfsRefs ==
  /\ \A n \in Nodes : ref[n] = Held(n)
  /\ \A p \in live : cwd[p] # "none" => vfs_get_devname(cwd[p]) # "none"

\* fs_cleanup that ends without the warning of sfs_cleanup has written back
\* both the superblock and the free map, whichever writes of earlier tries
\* failed, and the inode too unless its own last write failed, of which
\* sfs_sync says nothing: the next sfs_do_mount finds what was in memory.
CleanShutdown ==
  phase = "done" /\ ~sfs.dirty =>
    /\ disk.super = sfs.super /\ disk.map = sfs.map
    /\ ~sfs.idirty => disk.din = sfs.din

\* False, see README "Known to fail": the loop of sfs_sync drops the error of
\* vop_fsync (sfs_fs.c:58), and a shutdown without a warning leaves an inode
\* that names blocks the free map does not count, or the other way round.
InodesWritten == phase = "done" /\ ~sfs.dirty => disk.din = sfs.din

\* sfs_do_mount asserts that the superblock counts as many unused blocks as
\* the free map has (sfs_fs.c:259).
MountAssert == phase # "panic"

=============================================================================

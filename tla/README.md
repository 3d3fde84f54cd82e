# ucore in TLA+

A TLA+ model of the ucore teaching operating system (`src/code`): the kernel's
scheduler, synchronisation, processes, memory and file systems, the parts of the
user library that manage shared state, and the tool that makes the disk image.
TLC checks small instances. TLAPS proves, for any number of processes, the
invariants of the scheduler core, the timer list, the scheduling class, kernel
and user semaphores, and the life of processes.

## The system

ucore runs on one CPU. Kernel code is not preemptive: the CPU changes hands in
`schedule()` only. Interrupts (the timer tick, the keyboard) do come in the
middle of kernel code, except between `local_intr_save` and
`local_intr_restore`. A system call enters through `trap()`, and on the way back
to user mode `trap()` calls `may_killed()` and then, if `need_resched` is set,
`schedule()`.

So in the model a step is a stretch of kernel code between two points at which
the process may lose the CPU, or at which an interrupt may come and matter.

| part | source (`kern/` unless said) | modules |
|---|---|---|
| scheduler core | `schedule/sched.c`, `trap/trap.c`, parts of `process/proc.c` | `Sched` |
| timers, `do_sleep` | `schedule/sched.c`, `process/proc.c` | `Timer`, `TimerAbs` |
| scheduling class | `schedule/sched_MLFQ.c`, `schedule/sched_RR.c` | `Mlfq`, `SchedClass` |
| system calls and traps | `trap/trap.c`, `syscall/syscall.c` | `Syscall` |
| semaphores | `sync/sem.c`, `sync/wait.c` | `Sem`, `KSem`, `USem`, `SemQueue` |
| mailboxes, events | `sync/mbox.c`, `sync/event.c` | `Mbox`, `Event` |
| processes, threads | `process/proc.c` | `Process`, `Pid`, `Exec` |
| page allocator, slabs | `mm/buddy_pmm.c`, `mm/slab.c` | `Buddy`, `Slab` |
| page tables, faults, shared memory, swapping | `mm/pmm.c`, `mm/vmm.c`, `mm/shmem.c`, `mm/swap.c` | `Paging` |
| memory areas | `mm/vmm.c`, `libs/rb_tree.c` | `Vmm`, `RbTree` |
| open files, pipes, console | `fs/file.c`, `fs/pipe/*`, `driver/console.c`, `fs/devs/dev_stdin.c` | `Files`, `Pipe`, `Console` |
| VFS, SFS | `fs/vfs/*`, `fs/sfs/*` | `VfsMount`, `SfsDir`, `SfsFile`, `Bitmap` |
| image builder | `tools/mksfs.c` (not in `kern`) | `Mksfs` |
| user library | `user/libs/malloc.c`, `user/libs/spipe.c` (not in `kern`) | `UMalloc`, `Spipe` |

`PROJECT.json` lists all components with what is left out of each, every
definition with the lines it models, and the hazards of the code with the
properties that watch them.

## Modules

Each module's header says what its state stands for and where its steps begin
and end. Actions and helpers have the names of the C functions they model.

**Processes and the CPU.** `Sched` is the base of the modules about waiting. Its
variables are the fields of `proc_struct` that scheduling reads (`state`,
`wait_state`, `need_resched`, `PF_EXITING` as the set `exiting`), `current`, the
run queue as a set `rq`, the `mode` of each process and `switching`, true from
the moment a process marks itself SLEEPING or ZOMBIE until it calls
`schedule()`. Interrupts may wake it in that window. `Sleep`, `Wakeup`, `Kill`,
`Exit` are the steps other modules conjoin with their own; `SchedSpec` is the
contract they have to keep. Wait states are constants in two sets,
`Interruptible` (with the bit `WT_INTERRUPTED`) and `Uninterruptible`.

`Timer` adds `timer_list`, a list of differences; `TimerAbs` is what it
promises, a countdown per process; the refinement mapping sums up the
differences. `Mlfq` has the queues that `Sched` abstracts to a set, with a tick
between the two statements of `do_fork` that halve the slice; `SchedClass` is
the interface of `struct sched_class`. `Syscall` adds the position `pc` of each
process in a system call.

`Process` has `do_fork` before and after the allocations that may sleep,
`do_execve` with `de_thread`, `do_exit`, `do_exit_thread`, `__do_exit` with its
wakeups and the adoption of children, `do_wait` as rounds of its loop, `do_kill`
and the loop of `init_main`. `Pid` is `get_pid` behind its stale check. `Exec`
is `do_execve` and `load_icode` with every allocation and read failing.

**Waiting for each other.** `Sem` has `__up` and `__down`; `KSem` is a kernel
semaphore used as a lock, `USem` a user semaphore with timeouts, kills and
`sem_free`; `SemQueue` says who may name which semaphore across fork, exec and
exit. `Mbox` is one mailbox id, `Event` the event boxes of all processes. A
message in `Mbox` is received, still in the mailbox, held by a call, or excused:
its sender gave up, or its mailbox was freed under it.

**Memory.** `Paging` is the whole path of a page: frames, page tables, copy on
write, shared memory, swap map and swap cache, page lists, `kswapd`. `Vmm` is
the list of areas under `mmap`, `munmap`, `brk`, `shmem`, fork and exit. `Buddy`,
`Slab` and `UMalloc` are the three allocators, `RbTree` the tree of areas.

**Files.** `Files` has descriptors and the two counts of an inode. `Pipe` has the
pipes of the kernel, with allocations that fail and opens that are refused;
`Spipe` the pipe of the user library. `Console` is the way of a character from a
key through the rings of console and stdin to a reader, each character with a
number of its own, and the cursor. `VfsMount` is mounting, current directories
and shutdown, with a root inode, superblock and free map whose writes may fail.
`SfsDir` has names, inode cache, locks and reclaim; loads of inodes and writes of
directories may fail where its constant `IoErrors` says so. `SfsFile` has the
block maps, data, free map and a disk whose k-th transfer of a call fails, with
every byte written different from every other. `Mksfs` is the image builder.

`MC*` modules give constants. `MCIpc`, `MCFs` and `MCMem` put several
independent instances into one run: the first state picks one of them, and the
variables of the others stay 0. Operators named `Mut...` are faulty variants of
the definition that follows them; they show that a property depends on it.

### What is coarser than the code

- `KSem` and `Timer` do not use `Syscall`: a process in kernel mode may go on to
  any operation. That allows more behaviours than the code has, so invariants
  carry over.
- In `Process` and `Mbox` a tick that only uses up slices is considered
  in user mode and while idle; in kernel mode it changes `need_resched` only.
- `Process` has no kswapd: it never forks, exits or waits for children. The
  value of `nr_process` that `init_main` remembers is 2 for that reason.
- The fields of a freed or zombie process that nobody reads are set to their
  initial values at once.
- In the file system modules a kernel semaphore is the queue of those that
  called `down()`, its head holding it. `KSem` and its proofs justify that.

## Runs

| run | instance | what it asks |
|---|---|---|
| `sched` | idle, a kernel thread, 2 user processes | run queue, `wait_state` and `current` agree at every moment an interrupt can see; `schedule()` chooses runnable processes; idle yields |
| `timer` | 3 processes, times up to 3 | the difference list equals independent countdowns; no timer of a process that returned stays linked; the assertions in `run_timer_list` hold; every `do_sleep` ends |
| `mlfq` | 3 processes, 3 queues, slices 1, 2, 4 | links, levels and slices agree, implements `SchedClass`; processes that only compute all run |
| `ksem` | 3 processes and kswapd, one unit | units are conserved, no lost wakeup, the assertions in `__up` and `down` hold, every `down` returns |
| `process` | initproc, 3 user processes, 2 forks | parents are alive, thread groups are equivalence classes, no zombie is missed by a sleeping `do_wait`, `init_main` ends last |
| `process_reaped` | initproc, 2 user processes, 2 forks | initproc reaps its zombies |
| `ipc` | pids; a user semaphore; semaphore lists; a mailbox; events | pids are unique; nobody sleeps for what is there or can no longer come; what is sent arrives once, is still on its way, or was given up; timers belong to calls in progress; what is shared lives as long as its users |
| `sfsdir` | four scripts of calls of 2 or 3 processes, 2 or 3 inodes, one script with failing I/O | no inode is freed in use, link counts match the tree, a name found leads to an inode, no two calls wait for each other |
| `fs` | descriptors; names of pipes; bytes of pipes; user pipe; keyboard and stdin; screen; mount; volume; image | counts of inodes and descriptors; no stuck reader or writer; bytes and characters in order; a shutdown without a warning has written superblock and free map; blocks used once and given back; files read back; the counts of an image are those of its tree |
| `mem` | paging; areas; exec; buddy; slab; malloc; tree | frames and slots accounted for; content survives swapping; areas match the calls; exec leaks nothing; allocators disjoint; the tree is a red-black tree |

Two runs show that the code does something else than the repository says:

| run | what happens |
|---|---|
| `usem_post_assert` | `sem_post` fails the assertion `sem.c:70` when the first waiter was just woken by its timer or a kill and has not run yet |
| `memory_intact` | `page_insert` over an entry of the same page forgets its dirty bit, `kswapd` then drops the page as clean, and what the process wrote is lost |

### Known to fail

These facts were met with the same modules. They have definitions or notes in
the modules but no run of their own; each can be reproduced by giving TLC the
definition as an invariant or property.

- `KillEnds` (`USem`, `proc.c:63`, `trap.c:232`): a process killed while it is in
  the run queue, after `may_killed`, goes back to user mode, calls `sem_wait` and
  sleeps for ever.
- `ParentIsOther` (`Process`, `proc.c:50`, `proc.c:619`): `__do_exit` hands a
  thread created by the exiting thread to `next_thread`, which may be that
  thread: it is its own parent.
- A thread inside `clone` during `do_exit` of its group leaves an unflagged
  thread behind (`proc.c:653`), and with four processes and three forks
  `nr_process` exceeds `MAX_PROCESS` (the check at `proc.c:510` precedes
  allocations that sleep).
- `AddTimerAssert` (`Mbox`, `mbox.c:253`, `sched.c:113`): a receiver whose timer
  went off, but that a sender also woke, finds the message gone, loops and adds
  its expired timer.
- `SwapOffsets` (`Paging`, `vmm.c:774`): a fault on a shared page that is swapped
  out calls `swap_duplicate(*ptep)` before `*ptep` is set. `kswapd` also asserts
  that there is a process with memory when it runs.
- Cutting a shared area in the middle leaves a lower half marked shared without a
  segment (`Vmm`, `vmm.c:382`).
- `NoSelfWait` (`Pipe`, `pipe_root.c:52`): opening an end with `O_EXCL` while its
  last user is closing it drops the last reference with `pipe_sem` held;
  `pipe_inode_reclaim` then waits for `pipe_sem`, that is, for the caller itself,
  and everybody who opens or closes a named pipe waits behind it. The opener is
  part of the model (`"stuck"`), and `PipeOk` is checked with it.
- `MountAssert` (`VfsMount`, `sfs_fs.c:259`): after a power loss between the
  writes of the superblock and the free map, the next mount fails its assertion.
  `VfsOk` is about shutdowns that run to their end.
- `InodesWritten` (`VfsMount`, `sfs_fs.c:58`): `sfs_sync` ignores the error of
  `vop_fsync`, so a shutdown without a warning may leave an old inode on a disk
  whose superblock and free map are new.
- `ParentAssert`, `NamefileAssert` (`SfsDir`): the parent loaded for `..` may
  have been removed and its inode reused.
- `BmapAssert` (`SfsFile`, `sfs_inode.c:315`): a write, a truncation of the same
  file through another descriptor, and a write at the position the first one
  kept start behind the last block of the map, where `sfs_bmap_load_nolock`
  asserts. No transfer has to fail for that. After a failed one `din->blocks` can
  also run ahead of the block map, and that assertion and the one of
  `sfs_truncfile` (`sfs_inode.c:1114`) fail. `FileReadsBack` says that no other
  assertion of the volume does.
- A block whose clearing fails stays allocated and belongs to no file
  (`SfsFile`, `sfs_inode.c:81`), and so do the blocks of an unlinked file when a
  transfer of `sfs_reclaim` fails. `OnlyTheseLost` says that no others are lost.
- `LinksLoad` (`Mksfs`, `sfs_inode.c:44`): a symbolic link of the host becomes an
  inode of type `SFS_TYPE_LINK`. The kernel has no operations for the type, and
  looking the name up ends in the `panic` of `sfs_get_ops`. `ImageOk` is about the
  counts and the tree of the image.
- `HolderAlive` (`Spipe`): a process killed inside the user library's pipe keeps
  its semaphore, which the undo list of `sem.h` does not give back.

### Bounds

Three processes are the least that give a queue of two waiters and somebody to
wake them, a thread group with a third thread in the middle of `do_wait`, and a
newcomer that takes what a woken waiter was woken for. Times up to 3 give timers
before, between and behind others and equal ones. Three queues give a first, a
middle and a last one. Slices of 1, 2 and 4 include the fork with a slice of 1.
Two messages and one slot give a full mailbox, a put-back beyond the limit, and
a second message behind a big one. Two frames and two swap slots are fewer than
the pages two processes have. A volume with one direct block and two entries per
index block reaches indirect and doubly indirect blocks with a few writes; six
calls leave room to create, write, seek, write across the gap and reload, with a
failure on the way. Pipes are checked twice: with names, flags and one byte, and without
names, with writes of 1 and 3 bytes into a buffer of 2 and a kill. The rings of
console (3) and stdin (2) are shorter than what is typed (4). The
tree holds seven nodes, two with equal keys, so every rotation happens.
`MaxForks`, `MaxMsg`, `MaxPost`, `MaxTime`, `MaxOps`, `MaxCalls`, `MaxBytes`,
`MaxHeld`, `MaxOwned`, `MaxKilled`, `MaxKills`, `MaxKeys`, `MaxChars`, `MaxChunks` and
`MaxArgs` are the bounds; nothing else is cut off. Symmetry is used in runs
without liveness only. `LockGranted` is checked for one of the three processes,
which the specification does not tell apart.

### Fairness

The timer interrupt keeps coming (hardware). Code that runs goes on: the kernel
has no preemption, so the process on the CPU takes its next step. Every ready
process gets the CPU again and again (strong fairness on the choice in
`schedule()`): the class guarantees it only once the others sink to the same
queue, which is what `ReadyRuns` shows and the assumption the other liveness
properties rest on. `ksem` also assumes that a critical section ends and that
kswapd, when it runs, frees memory; kswapd takes none of the locks whose holders
wait for memory (it calls neither `lock_mm` nor `lock_shmem`), so nothing keeps
it from running.

## Proofs

The theorems hold for every set of processes and every value of the other
constants that satisfies the named assumptions of the modules (in `USemProofs`,
where they are hypotheses of each theorem, `USemConstants`). The assumptions say
what kind of thing a constant is: idleproc is a kernel thread, a wait state is
interruptible or not as its bit `WT_INTERRUPTED` says and never `"none"`, bounds
and initial values are natural numbers, initproc was created at boot,
there are finitely many `proc_struct`s. The bounds (`MaxForks`, `MaxTime`,
`MaxPost`) are arbitrary.

| module | theorem | what it says |
|---|---|---|
| `SchedProofs` | `SchedInvariant`, `TypeCorrect`, `RunQueueCorrect`, `WaitStateCorrect`, `CurrentCorrect` | the run queue holds exactly the runnable processes off the CPU; `wait_state` is set exactly while a process sleeps; the CPU runs a runnable process outside the window before `schedule()` |
| | `SwitchCorrect` | `schedule()` switches to runnable processes only (action property) |
| `KSemProofs` | `KSemInvariant`, `UpAssertHolds`, `DownAssertHolds`, `NoLostWakeupHolds`, `UnitsConservedHolds`, `MutualExclusionHolds` | kernel semaphores: the assertions of `sem.c`, no lost wakeup, units, a lock |
| | `KSemImplementsSched` | `KSemSpec => SchedSpec` |
| `USemProofs` | `USemInvariant`, `NoSleepOnUnitHolds`, `FreedWakesAllHolds`, `TokensConservedHolds` | user semaphores with timeouts, kills and `sem_free`: nobody sleeps on a unit or on a freed semaphore, each post is worth one wait |
| | `TimerOwnersHold` | a linked timer belongs to a process inside `usem_down` that the tick may wake |
| | `USemImplementsSched` | `USemSpec => SchedSpec` |
| `MlfqProofs` | `QueuesSafe` | a process is linked once at most, in the queue of its level, with a slice of that queue; no slice goes below 0 |
| | `MlfqIsAClass` | `Mlfq` implements `SchedClass` |
| `TimerProofs` | `TimersSafe` | no dangling or doubled timer; the assertions of `run_timer_list` hold at every tick |
| | `CountdownsExact` | the list of differences implements independent countdowns |
| | `TimerImplementsSched` | `TimerSpec => SchedSpec` |
| `ProcessFamilyProofs` | `ChildrenFound` | no process sleeps in `do_wait` while a child it waits for is a zombie |
| | `ProcessImplementsSched` | `ProcessSpec => SchedSpec` |
| `ProcessCountProofs` | `FamilySafe` | parents are alive, thread groups are consistent, `nr_process` is in range |
| | `InitLast` | `init_main` ends only when every user process is gone |

### The arguments

**Scheduler.** `SchedInv` is the conjunction of `TypeOK`, `RunQueueInv`,
`WaitStateInv` and `CurrentInv`. None of the four is inductive alone: that
`wakeup_proc` keeps the queue right depends on `wait_state` and on who is
current, and that `schedule()` finds a runnable process depends on the queue.

**Clients of the scheduler.** `Timer`, `KSem`, `USem` and `Process` each show
first that a step of theirs is a step of `SchedNext` or leaves its variables
alone. That is the refinement `... => SchedSpec`, and it brings `SchedInv` into
their own invariants without another proof.

**Kernel semaphores.** The strengthening says who is in the queue: exactly the
processes in `down()` that are asleep, each once (`QueueInv`), that whoever
`__up` has taken out has its flag set (`GrantedInv`), and that value and holders
add up to `N` (`UnitsInv`).

**User semaphores.** A kill or a timer makes a waiter runnable and leaves it
linked, so a queued process need not be asleep, and the assertion at `sem.c:70`
does fail (run `usem_post_assert`). What is inductive is weaker: a queued process
is inside `usem_down`, is linked once, and was granted nothing (`QueuedInv`); a
process inside `usem_down` is no zombie, and WT_USEM is the only reason to
sleep (`PlacesInv`). Conversely every sleeper is queued (`NoSleepOnUnit`). Units
are counted as `value`, plus the waiters that `__up` chose and that have not run,
plus the waits that returned 0 (`TokensInv`).

**Scheduling class.** `QueuesOk` is inductive. `proc->rq` names one queue, so
that a process is linked in one queue follows from levels; that its slice fits
follows from only the current process using its slice up. The length of a slice
is a recursive function (twice as long in each queue); that the recursion has a
solution with positive values is proved first (`SomeSlices`, `SliceType`).

**Timers.** The invariant `TimerInv` says that the list has no duplicates and
a positive first difference (`ListInv`), and that the owner of a linked timer is
inside `do_sleep`, asleep in WT_TIMER or runnable again (`OwnersInv`). The
refinement follows the sums of the differences (`Due`): `AddTimer` shows that
insertion adds one sum and moves no other, `DelTimer` that deletion takes one out
and moves no other, `CountDownOk` that a tick lowers all by one and drops
exactly those that come to zero. These hold for lists of any length.

**Processes.** `ProcessInv` adds to the three properties what carries them
through the moments at which `do_fork` and `__do_exit` are half done: a
`proc_struct` under construction has a creator that is in `do_fork` for it and
for no other (`ForksInv`), so the creator does not exit; kernel threads neither
fork nor exit and initproc is alone in its thread group (`KThreadsInv`); the
mode of a process agrees with its place (`ModesInv`). The hardest step is
`__do_exit`, which hands children to another thread or to initproc and has to
wake whoever waits for one of them (`Heir`, `ExitFamilyInv`). `nr_process` is
the number of linked processes (`CountInv`), and when `init_main` has seen its
old value there are only idleproc and initproc (`QuitInv`): a process
under construction is not linked yet, but its creator is, and would be a third. The proof is in three modules
(`ProcessProofs`: steps that leave the family alone; `ProcessFamilyProofs`:
fork, exec, exit, wait; `ProcessCountProofs`: counting), which keeps the
theory of cardinalities away from the first two.

**Induction over lists and levels.** The provers cannot use an induction
principle that takes a predicate as a parameter. Where a fact about all positions
of a list or all levels is needed, the proof takes the least position at which it
fails (`LeastNat`, from the well-foundedness of `<` on the naturals) and derives
a contradiction. A recursive function is unfolded through its definition as a
choice, after a function with the recursive property has been shown to exist.

### Only model-checked

- Liveness (`IdleYields`, `SleepEnds`, `ReadyRuns`, `LockGranted`, `InitReaps`):
  it rests on fairness and `ENABLED`, which the prover does not handle.
- `Buddy`, `Console`, `Files`, `Mksfs`, `Paging`, `Pid`, `RbTree`, `SfsDir`,
  `SfsFile`, `Slab`, `UMalloc`, `Vmm`: they walk lists, trees and maps with
  recursive operators, which the prover does not accept, and their properties
  are about what such recursions compute.
- `Mbox`, `Event`, `SemQueue`, `Pipe`, `Spipe`, `VfsMount`, `Exec`: within reach,
  not done.

## Not modelled

Port I/O of the drivers (`clock.c`, `ide.c`, `picirq.c`), the monitor and symbol
tables, string and formatting functions, the boot loader and `sign.c`, the
self-tests inside the kernel sources, and the user programs, which are tests on
top of the system calls: the modules let a process make any modelled call at any
time. Calls that only read (`ipc_sem_get_value`, `mbox_info`, `fstat`,
`getdirentry`) and functions nothing calls (`vfs_unmount`) are left out too.

----------------------------------- MODULE MCMem -----------------------------------
(***************************************************************************)
(* Memory.  The first state picks one of seven instances: page frames and  *)
(* swap, address spaces, loading a program, the page allocator, kmalloc,   *)
(* malloc of the user library, and the tree that finds an area.            *)
(***************************************************************************)
EXTENDS Slab

VARIABLES part, memory, loc, pressure, waiting, running, live, shmemSem, ghost, reset, ops, mms,
          mmOf, ref, pages, calls, prog, argc, call, pmm, held, um, blocks, tree, inTree

\* One segment of every shape about page limits, or a second one behind it.
Headers ==
    {[load |-> l, va |-> v, filesz |-> f, memsz |-> n] : l \in BOOLEAN, v \in 3 .. 8, f \in 0 .. 6, n \in 0 .. 8}
Second == {[load |-> TRUE, va |-> v, filesz |-> 2, memsz |-> 3] : v \in {6, 8, 9, 14}}
MCPrograms == {<<h>> : h \in Headers} \cup {<<h, t>> : h \in {h \in Headers : h.load}, t \in Second}

P == INSTANCE Paging WITH NPriv <- 1, NShm <- 1, NFrames <- 2, NSwap <- 2, FACTOR <- 1,
        BATCH <- 1, ROUNDS <- 3, MaxOps <- 6, m <- memory
A == INSTANCE Vmm WITH USERBASE <- 1, USERTOP <- 6, BrkStart <- 2, Segs <- {1},
        Flags <- {"r", "stack"}, Lengths <- {1, 2}, ShmLengths <- {2}, MaxCalls <- 4
X == INSTANCE Exec WITH PGSIZE <- 3, Programs <- MCPrograms, Stack <- {5, 6}, MaxArgs <- 2,
        x <- call
B == INSTANCE Buddy WITH NPAGE <- 11, Zones <- <<[base |-> 1, n |-> 7], [base |-> 9, n |-> 2]>>,
        MAX_ORDER <- 2, Sizes <- 1 .. 4
U == INSTANCE UMalloc WITH PAGE <- 4, HEAP <- 4, TOP <- 16, Units <- {2, 3, 5}, live <- blocks
R == INSTANCE RbTree WITH Nodes <- 1 .. 7, Key <- <<1, 2, 3, 3, 4, 5, 6>>

\* The variables of an instance, and their value while another one runs.
pagingVars == <<memory, loc, pressure, waiting, running, live, shmemSem, ghost, reset, ops>>
pagingOff == memory = 0 /\ loc = 0 /\ pressure = 0 /\ waiting = 0 /\ running = 0 /\ live = 0 /\
        shmemSem = 0 /\ ghost = 0 /\ reset = 0 /\ ops = 0
areasVars == <<mms, mmOf, ref, pages, calls>>
areasOff == mms = 0 /\ mmOf = 0 /\ ref = 0 /\ pages = 0 /\ calls = 0
execVars == <<prog, argc, call>>
execOff == prog = 0 /\ argc = 0 /\ call = 0
buddyVars == <<pmm, held>>
buddyOff == pmm = 0 /\ held = 0
slabOff == heap = 0 /\ owned = 0 /\ stack = 0
mallocVars == <<um, blocks>>
mallocOff == um = 0 /\ blocks = 0
rbtreeVars == <<tree, inTree>>
rbtreeOff == tree = 0 /\ inTree = 0

Init ==
    \/ /\ part = "paging" /\ P!PagingInit
       /\ areasOff /\ execOff /\ buddyOff /\ slabOff /\ mallocOff /\ rbtreeOff
    \/ /\ part = "areas" /\ A!VmmInit
       /\ pagingOff /\ execOff /\ buddyOff /\ slabOff /\ mallocOff /\ rbtreeOff
    \/ /\ part = "exec" /\ X!ExecInit
       /\ pagingOff /\ areasOff /\ buddyOff /\ slabOff /\ mallocOff /\ rbtreeOff
    \/ /\ part = "buddy" /\ B!BuddyInit
       /\ pagingOff /\ areasOff /\ execOff /\ slabOff /\ mallocOff /\ rbtreeOff
    \/ /\ part = "slab" /\ SlabInit
       /\ pagingOff /\ areasOff /\ execOff /\ buddyOff /\ mallocOff /\ rbtreeOff
    \/ /\ part = "malloc" /\ U!UmInit
       /\ pagingOff /\ areasOff /\ execOff /\ buddyOff /\ slabOff /\ rbtreeOff
    \/ /\ part = "rbtree" /\ R!RbInit
       /\ pagingOff /\ areasOff /\ execOff /\ buddyOff /\ slabOff /\ mallocOff

Next ==
    /\ UNCHANGED part
    /\ \/ /\ part = "paging" /\ P!PagingNext
          /\ UNCHANGED <<areasVars, execVars, buddyVars, slabVars, mallocVars, rbtreeVars>>
       \/ /\ part = "areas" /\ A!VmmNext
          /\ UNCHANGED <<pagingVars, execVars, buddyVars, slabVars, mallocVars, rbtreeVars>>
       \/ /\ part = "exec" /\ X!ExecNext
          /\ UNCHANGED <<pagingVars, areasVars, buddyVars, slabVars, mallocVars, rbtreeVars>>
       \/ /\ part = "buddy" /\ B!BuddyNext
          /\ UNCHANGED <<pagingVars, areasVars, execVars, slabVars, mallocVars, rbtreeVars>>
       \/ /\ part = "slab" /\ SlabNext
          /\ UNCHANGED <<pagingVars, areasVars, execVars, buddyVars, mallocVars, rbtreeVars>>
       \/ /\ part = "malloc" /\ U!UmNext
          /\ UNCHANGED <<pagingVars, areasVars, execVars, buddyVars, slabVars, rbtreeVars>>
       \/ /\ part = "rbtree" /\ R!RbNext
          /\ UNCHANGED <<pagingVars, areasVars, execVars, buddyVars, slabVars, mallocVars>>

Spec == Init /\ [][Next]_<<part, pagingVars, areasVars, execVars, buddyVars, slabVars, mallocVars, rbtreeVars>>

-----------------------------------------------------------------------------
\* Every page frame and every swap slot is free or accounted for by the page
\* tables, the swap cache and the faults in progress, and no assertion of the
\* memory manager fails but the ones named at PagingAsserts.
MemoryAccounted == part = "paging" => P!FramesAccounted /\ P!SwapAccounted /\ P!PagingAsserts

\* A process finds in its pages what it, or its parent before the fork, or for
\* shared pages anyone, wrote last, wherever the page has been meanwhile.
ReadsBack == part = "paging" => P!ReadsBack

\* The areas of an address space are what the calls mapped, and a segment of
\* shared memory lives as long as an area maps it.
AreasMatch == part = "areas" => A!AreasMatch /\ A!SegmentRefs

\* exec leaves the program's image and stack in memory, or fails and leaves
\* nothing behind of the pages, areas and arguments it had taken.
ExecOk == part = "exec" => X!NothingLeaks /\ X!LoadedRight

\* The three allocators hand out disjoint blocks, keep account of what is free
\* and join what can be joined; their assertions hold.
AllocatorsOk ==
    /\ part = "buddy" => B!BuddyOk
    /\ part = "slab" => SlabOk
    /\ part = "malloc" => U!MallocOk

\* Insertion and deletion keep a red-black search tree of the right elements.
RbTreeOk == part = "rbtree" => R!RbTreeOk
=============================================================================

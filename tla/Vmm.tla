--------------------------------- MODULE Vmm ---------------------------------
(***************************************************************************)
(* Address spaces: the list of memory areas of kern/mm/vmm.c and the calls *)
(* of kern/process/proc.c that change it.  Addresses are page numbers: the *)
(* code rounds to pages first.  lock_mm makes every call atomic.  The list *)
(* search stands for the search of the tree too (module RbTree).           *)
(***************************************************************************)
EXTENDS Integers, Sequences, FiniteSets, SequencesExt

CONSTANTS
    Procs,
    USERBASE, USERTOP,   \* the user's pages, USERTOP not included
    BrkStart,            \* end of the program loaded at USERBASE
    Segs,                \* shared memory segments that can exist, positive integers
    Flags,               \* vm_flags of do_mmap
    Lengths,             \* lengths of do_mmap and do_munmap
    ShmLengths,          \* lengths of do_shmem
    MaxCalls             \* bound on the number of calls

VARIABLES
    mms,     \* mms[i]: [list, cache, brk, count], cache the start of an area or 0
    mmOf,    \* the mm of a process, 0 for none
    ref,     \* shmem_ref of each segment; -1: not allocated
    pages,   \* what the user mapped: pages[i][a], the reference
    calls    \* calls made

vmmVars == <<mms, mmOf, ref, pages, calls>>

VM_READ == "r"
VM_WRITE == "rw"
VM_STACK == "stack"
UserPages == USERBASE .. USERTOP - 1
None == [flags |-> "", share |-> FALSE, shmem |-> 0, off |-> 0]
NoMm == [list |-> <<>>, cache |-> 0, brk |-> 0, count |-> 0]
USER_ACCESS(start, end) == USERBASE <= start /\ start < end /\ end <= USERTOP
Smallest(S) == CHOOSE x \in S : \A y \in S : x <= y

vma_create(start, end, flags) ==
    [start |-> start, end |-> end, flags |-> flags, share |-> FALSE, shmem |-> 0, off |-> 0]

----------------------------------------------------------------------------
(* mm_create, and the areas load_icode leaves: program and stack.          *)
VmmInit ==
    LET text == vma_create(USERBASE, BrkStart, VM_WRITE)
        mm == [NoMm EXCEPT !.list = <<text>>, !.brk = BrkStart, !.count = 1]
    IN  /\ mms = [i \in Procs |-> IF i = Smallest(Procs) THEN mm ELSE NoMm]
        /\ mmOf = [p \in Procs |-> IF p = Smallest(Procs) THEN p ELSE 0]
        /\ ref = [s \in Segs |-> -1] /\ calls = 0
        /\ pages = [i \in Procs |-> [a \in UserPages |->
                        IF i = Smallest(Procs) /\ a < BrkStart THEN [None EXCEPT !.flags = VM_WRITE] ELSE None]]

Caches(mm, addr) ==
    \E i \in DOMAIN mm.list : mm.list[i].start = mm.cache /\ mm.cache <= addr /\ addr < mm.list[i].end

(* The index of the area found, 0 for NULL: the cached area if it holds    *)
(* the address, or the first that ends behind it.                          *)
find_vma(mm, addr) ==
    LET after == {i \in DOMAIN mm.list : mm.list[i].end > addr} IN
    IF mm.cache # 0 /\ Caches(mm, addr) THEN CHOOSE i \in DOMAIN mm.list : mm.list[i].start = mm.cache
    ELSE IF after = {} THEN 0 ELSE Smallest(after)

(* mmap_cache after a call of find_vma.                                    *)
Found(mm, addr) ==
    LET i == find_vma(mm, addr) IN IF i = 0 THEN mm ELSE [mm EXCEPT !.cache = mm.list[i].start]

find_vma_intersection(mm, start, end) ==
    LET i == find_vma(mm, start) IN i # 0 /\ end > mm.list[i].start

Before(mm, vma) == Cardinality({i \in DOMAIN mm.list : mm.list[i].start <= vma.start})
insert_vma_struct(mm, vma) == [mm EXCEPT !.list = InsertAt(@, Before(mm, vma) + 1, vma)]

MutVmaResize(vma, start, end) == [vma EXCEPT !.start = start, !.end = end]
vma_resize(vma, start, end) ==
    [vma EXCEPT !.off = IF vma.share THEN @ + start - vma.start ELSE @, !.start = start, !.end = end]

(* shmem_ref_dec, and shmem_destroy of a segment nobody maps any more.     *)
Drop(r, vma) ==
    IF ~ vma.share THEN r
    ELSE [r EXCEPT ![vma.shmem] = IF @ = 1 THEN -1 ELSE @ - 1]

RECURSIVE DropAll(_, _)
DropAll(r, list) == IF list = <<>> THEN r ELSE DropAll(Drop(r, Head(list)), Tail(list))

mm_map(mm, start, end, flags) ==
    LET i == find_vma(mm, start)
        clash == i # 0 /\ end > mm.list[i].start
        m == Found(mm, start)
    IN  [ok |-> USER_ACCESS(start, end) /\ ~ clash,
         mm |-> IF ~ USER_ACCESS(start, end) THEN mm
                ELSE IF clash THEN m ELSE insert_vma_struct(m, vma_create(start, end, flags))]

(* What is left of an area taken off the list, cut to [start, end): the    *)
(* part below start, else the part from end on; an area inside is          *)
(* destroyed.                                                              *)
Remains(vma, start, end) ==
    IF vma.start < start THEN {vma_resize(vma, vma.start, start)}
    ELSE IF end < vma.end THEN {vma_resize(vma, end, vma.end)} ELSE {}

RECURSIVE Reinsert(_, _)
Reinsert(mm, vmas) ==
    IF vmas = {} THEN mm
    ELSE LET v == CHOOSE x \in vmas : TRUE IN Reinsert(insert_vma_struct(mm, v), vmas \ {v})

(* nvma does not get the segment of the area it is cut from.               *)
SplitVma(mm, i, start, end) ==
    LET v == mm.list[i]
        nvma == [vma_create(v.start, start, v.flags) EXCEPT !.share = v.share]
    IN  insert_vma_struct([mm EXCEPT !.list[i] = vma_resize(v, end, v.end), !.cache = end], nvma)

mm_unmap(mm, start, end) ==
    LET i == find_vma(mm, start)
        m == Found(mm, start)
        v == m.list[i]
        cut == {j \in i .. Len(m.list) : m.list[j].start < end}
        gone == [j \in 1 .. Cardinality(cut) |-> m.list[i + j - 1]]
        rest == UNION {Remains(gone[j], start, end) : j \in DOMAIN gone}
        left == [m EXCEPT !.list = SubSeq(@, 1, i - 1) \o SubSeq(@, i + Len(gone), Len(@)),
                          !.cache = IF \E j \in DOMAIN gone : gone[j].start = @ THEN 0 ELSE @]
        dead == SelectSeq(gone, LAMBDA x : Remains(x, start, end) = {})
    IN  IF ~ USER_ACCESS(start, end) THEN [mm |-> mm, dead |-> <<>>]
        ELSE IF i = 0 \/ end <= v.start THEN [mm |-> m, dead |-> <<>>]
        ELSE IF v.start < start /\ end < v.end THEN [mm |-> SplitVma(m, i, start, end), dead |-> <<>>]
        ELSE [mm |-> Reinsert(left, rest), dead |-> dead]

RECURSIVE AreaFrom(_, _, _, _)
AreaFrom(mm, i, start, len) ==
    IF i = 0 THEN IF start >= USERBASE THEN start ELSE 0
    ELSE IF start >= mm.list[i].end THEN start
    ELSE IF start + len <= mm.list[i].start THEN AreaFrom(mm, i - 1, start, len)
    ELSE IF len >= mm.list[i].start THEN 0
    ELSE AreaFrom(mm, i - 1, mm.list[i].start - len, len)
get_unmapped_area(mm, len) ==
    IF len = 0 \/ len > USERTOP THEN 0 ELSE AreaFrom(mm, Len(mm.list), USERTOP - len, len)

Extend(m, start, end) ==
    LET i == find_vma(m, start - 1)
        grows == i # 0 /\ m.list[i].end = start /\ m.list[i].flags = VM_WRITE /\ ~ m.list[i].share
    IN  IF grows THEN [m EXCEPT !.list[i].end = end]
        ELSE insert_vma_struct(m, vma_create(start, end, VM_WRITE))
mm_brk(mm, start, end) == Extend(Found(mm_unmap(mm, start, end).mm, start - 1), start, end)

(* TRUE when the user may access pages start .. end - 1; the lowest page   *)
(* of a stack is not writable.                                             *)
RECURSIVE MemCheck(_, _, _, _)
MemCheck(mm, start, end, write) ==
    LET i == find_vma(mm, start)
        v == mm.list[i]
    IN  \/ start >= end
        \/ /\ i # 0 /\ start >= v.start
           /\ write => v.flags # VM_READ /\ ~ (v.flags = VM_STACK /\ start < v.start + 1)
           /\ MemCheck([mm EXCEPT !.cache = v.start], v.end, end, write)
user_mem_check(mm, start, end, write) == USER_ACCESS(start, end) /\ MemCheck(mm, start, end, write)

----------------------------------------------------------------------------
(* A call of p on its mm that leaves the mm at m and the segments at r.    *)
Runs(p) == mmOf[p] # 0
Store(p, m, r) == mms' = [mms EXCEPT ![mmOf[p]] = m] /\ ref' = r /\ UNCHANGED mmOf
SetPages(p, start, end, Now(_)) ==
    pages' = [pages EXCEPT ![mmOf[p]] = [a \in UserPages |-> IF start <= a /\ a < end THEN Now(a) ELSE @[a]]]

(* addr = 0 asks for any free range.                                       *)
do_mmap(p, addr, len, flags) ==
    LET mm == mms[mmOf[p]]
        start == IF addr = 0 THEN get_unmapped_area(mm, len) ELSE addr
        r == mm_map(mm, start, start + len, flags)
    IN  /\ Runs(p) /\ start # 0
        /\ Store(p, r.mm, ref)
        /\ IF r.ok THEN SetPages(p, start, start + len, LAMBDA a : [None EXCEPT !.flags = flags])
           ELSE UNCHANGED pages

do_munmap(p, start, len) ==
    LET r == mm_unmap(mms[mmOf[p]], start, start + len) IN
    /\ Runs(p)
    /\ Store(p, r.mm, DropAll(ref, r.dead))
    /\ IF USER_ACCESS(start, start + len) THEN SetPages(p, start, start + len, LAMBDA a : None)
       ELSE UNCHANGED pages

(* The segment is referenced only if the area fits.                        *)
mm_map_shmem(mm, start, end, seg) ==
    LET r == mm_map(mm, start, end, VM_WRITE)
        i == CHOOSE j \in DOMAIN r.mm.list : r.mm.list[j].start = start
    IN  [r EXCEPT !.mm = IF r.ok THEN [@ EXCEPT !.list[i].share = TRUE, !.list[i].shmem = seg] ELSE @]

(* shmem_create, mm_map_shmem, and shmem_destroy when that failed.         *)
do_shmem(p, addr, len, seg) ==
    LET mm == mms[mmOf[p]]
        start == IF addr = 0 THEN get_unmapped_area(mm, len) ELSE addr
        r == mm_map_shmem(mm, start, start + len, seg)
    IN  /\ Runs(p) /\ start # 0 /\ seg = Smallest({s \in Segs : ref[s] = -1})
        /\ \/ /\ r.ok
              /\ Store(p, r.mm, [ref EXCEPT ![seg] = 1])
              /\ SetPages(p, start, start + len,
                    LAMBDA a : [flags |-> VM_WRITE, share |-> TRUE, shmem |-> seg, off |-> a - start])
           \/ /\ ~ r.ok
              /\ Store(p, r.mm, ref) /\ UNCHANGED pages

do_brk(p, newbrk) ==
    LET mm == mms[mmOf[p]]
        oldbrk == mm.brk
        r == mm_unmap(mm, newbrk, oldbrk)
        free == ~ find_vma_intersection(mm, oldbrk, newbrk + 1)
        m == Found(mm, oldbrk)
    IN  /\ Runs(p) /\ newbrk >= BrkStart /\ newbrk # oldbrk
        /\ \/ /\ newbrk < oldbrk
              /\ Store(p, [r.mm EXCEPT !.brk = newbrk], DropAll(ref, r.dead))
              /\ SetPages(p, newbrk, oldbrk, LAMBDA a : None)
           \/ /\ newbrk > oldbrk /\ free /\ USER_ACCESS(oldbrk, newbrk)
              /\ Store(p, [mm_brk(m, oldbrk, newbrk) EXCEPT !.brk = newbrk], ref)
              /\ SetPages(p, oldbrk, newbrk, LAMBDA a : [None EXCEPT !.flags = VM_WRITE])
           \/ /\ newbrk > oldbrk /\ ~ (free /\ USER_ACCESS(oldbrk, newbrk))
              /\ Store(p, m, ref) /\ UNCHANGED pages

(* copy_mm: CLONE_VM shares the mm, else dup_mmap copies its areas, the    *)
(* last one first.                                                         *)
MutTakeAll(r, list) == r
RECURSIVE TakeAll(_, _)
TakeAll(r, list) ==
    IF list = <<>> THEN r
    ELSE TakeAll(IF Head(list).share THEN [r EXCEPT ![Head(list).shmem] = @ + 1] ELSE r, Tail(list))

copy_mm(p, q, CLONE_VM) ==
    LET mm == mms[mmOf[p]]
        new == Smallest({i \in Procs : mms[i].count = 0})
    IN  /\ Runs(p) /\ ~ Runs(q)
        /\ \/ /\ CLONE_VM
              /\ mms' = [mms EXCEPT ![mmOf[p]].count = @ + 1]
              /\ mmOf' = [mmOf EXCEPT ![q] = mmOf[p]]
              /\ UNCHANGED <<ref, pages>>
           \/ /\ ~ CLONE_VM
              /\ mms' = [mms EXCEPT ![new] = [mm EXCEPT !.cache = 0, !.count = 1]]
              /\ mmOf' = [mmOf EXCEPT ![q] = new]
              /\ ref' = TakeAll(ref, mm.list)
              /\ pages' = [pages EXCEPT ![new] = pages[mmOf[p]]]

(* __do_exit's mm_count_dec, exit_mmap and mm_destroy.                     *)
exit_mm(p) ==
    LET i == mmOf[p]
        last == mms[i].count = 1
    IN  /\ Runs(p) /\ \E q \in Procs \ {p} : Runs(q)
        /\ mmOf' = [mmOf EXCEPT ![p] = 0]
        /\ mms' = [mms EXCEPT ![i] = IF last THEN NoMm ELSE [@ EXCEPT !.count = @ - 1]]
        /\ ref' = IF last THEN DropAll(ref, mms[i].list) ELSE ref
        /\ pages' = IF last THEN [pages EXCEPT ![i] = [a \in UserPages |-> None]] ELSE pages

VmmNext ==
    calls < MaxCalls /\ calls' = calls + 1 /\ \E p \in Procs :
        \/ \E a \in {0} \cup UserPages, n \in Lengths, f \in Flags : do_mmap(p, a, n, f)
        \/ \E a \in UserPages, n \in Lengths : do_munmap(p, a, n)
        \/ \E a \in {0} \cup UserPages, n \in ShmLengths : \E s \in {t \in Segs : ref[t] = -1} : do_shmem(p, a, n, s)
        \/ \E b \in BrkStart .. USERTOP : do_brk(p, b)
        \/ \E q \in Procs, share \in BOOLEAN : copy_mm(p, q, share)
        \/ exit_mm(p)

VmmSpec == VmmInit /\ [][VmmNext]_vmmVars

(* The areas of every address space are in order, disjoint and not empty   *)
(* (check_vma_overlap, vma_resize), describe page by page exactly what the *)
(* calls mapped, shared pages with the segment and offset they were mapped *)
(* with, the cached area is in the list, and user_mem_check accepts        *)
(* exactly the readable and the writable ranges.                           *)
AreasMatch ==
    \A i \in Procs :
        LET mm == mms[i]
            Of(a) == {j \in DOMAIN mm.list : mm.list[j].start <= a /\ a < mm.list[j].end}
        IN  /\ \A j \in DOMAIN mm.list : mm.list[j].start < mm.list[j].end
            /\ \A j \in 2 .. Len(mm.list) : mm.list[j - 1].end <= mm.list[j].start
            /\ \A a \in UserPages :
                IF Of(a) = {} THEN pages[i][a] = None
                ELSE LET v == mm.list[CHOOSE j \in Of(a) : TRUE] IN
                     pages[i][a] = [flags |-> v.flags, share |-> v.share, shmem |-> v.shmem,
                                    off |-> IF v.share THEN v.off + a - v.start ELSE 0]
            /\ mm.cache = 0 \/ \E j \in DOMAIN mm.list : mm.list[j].start = mm.cache
            /\ \A a \in UserPages, n \in Lengths : a + n <= USERTOP =>
                /\ user_mem_check(mm, a, a + n, FALSE) = \A b \in a .. a + n - 1 : Of(b) # {}
                /\ user_mem_check(mm, a, a + n, TRUE) =
                     \A b \in a .. a + n - 1 : \E j \in Of(b) :
                        mm.list[j].flags # VM_READ /\ ~ (mm.list[j].flags = VM_STACK /\ b = mm.list[j].start)

(* The reference count of a segment is the number of areas that map it, in *)
(* all address spaces, and a segment without one is destroyed.             *)
SegmentRefs ==
    \A s \in Segs :
        LET users == {<<i, j>> \in Procs \X (1 .. USERTOP) : j \in DOMAIN mms[i].list /\ mms[i].list[j].shmem = s}
        IN  IF users = {} THEN ref[s] = -1 ELSE ref[s] = Cardinality(users)
=============================================================================

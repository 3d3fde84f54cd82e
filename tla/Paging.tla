------------------------------- MODULE Paging -------------------------------
(***************************************************************************)
(* Page frames, page tables, shared memory and swapping: kern/mm/pmm.c,    *)
(* kern/mm/swap.c, kern/mm/shmem.c and do_pgfault, dup_mmap and exit_mmap  *)
(* of kern/mm/vmm.c.                                                       *)
(*                                                                         *)
(* Every process has one thread, a private region and a region that maps a *)
(* shared memory object, which fork passes on.  Virtual pages lie in page  *)
(* tables of their own, so get_pte may sleep before each of them.  A       *)
(* process loses the CPU in user mode, in alloc_page when no frame is free *)
(* and in down(); kswapd runs without yielding until it goes to sleep.     *)
(***************************************************************************)
EXTENDS Integers, Sequences, FiniteSets, FiniteSetsExt, SequencesExt

CONSTANTS
    Procs,        \* process slots, small integers
    NPriv, NShm,  \* virtual pages of the private and of the shared region
    NFrames,      \* page frames for user pages
    NSwap,        \* max_swap_offset - 1: usable swap slots 1 .. NSwap
    FACTOR,       \* frames wanted per unit of pressure (1 << 5)
    BATCH,        \* frames asked of one mm per round (32)
    ROUNDS,       \* rounds over the mm list (16)
    MaxOps        \* bound on user-mode operations

VARIABLES
    m,            \* memory: frames, page tables, swap
    loc,          \* what each process is doing
    pressure, waiting, running,   \* kswapd
    live,         \* proc_mm_list
    shmemSem,
    ghost,        \* history: the contents each process should see
    reset,        \* history: a PTE_D bit was dropped from a page in the swap cache
    ops

pagingVars == <<m, loc, pressure, waiting, running, live, shmemSem, ghost, reset, ops>>

Frames == 1 .. NFrames
Offsets == 1 .. NSwap
VAs == 1 .. NPriv + NShm
Shm == NPriv + 1 .. NPriv + NShm
UNUSED == -1
SHMEM == 0            \* the owner of the shared memory object's entries
Owners == Procs \cup {SHMEM}
Nil == [t |-> "nil"]
Present(f, w) == [t |-> "page", f |-> f, w |-> w, a |-> FALSE, d |-> FALSE]
Entry(o) == [t |-> "swap", o |-> o]
User == [pc |-> "user"]
Unknown == -1

NewFrame(data) == [ref |-> 0, index |-> 0, active |-> FALSE, dirty |-> FALSE, data |-> data]
PageSwap(s, f) == s.page[f].index # 0

PagingInit ==
    /\ m = [pte |-> [q \in Owners |-> [v \in VAs |-> Nil]],
            page |-> [f \in Frames |-> NewFrame(0)], free |-> Frames,
            active |-> <<>>, inactive |-> <<>>,
            mem_map |-> [o \in Offsets |-> UNUSED], disk |-> [o \in Offsets |-> 0], next |-> 1,
            at |-> [p \in Procs |-> 1], panic |-> ""]
    /\ loc = [p \in Procs |-> User]
    /\ pressure = 0 /\ waiting = {} /\ running = FALSE
    /\ live = <<Min(Procs)>>
    /\ shmemSem = <<>>
    /\ ghost = [q \in Owners |-> [v \in VAs |-> Unknown]]
    /\ reset = FALSE /\ ops = 0

Check(s, ok, where) == IF ok \/ s.panic # "" THEN s ELSE [s EXCEPT !.panic = where]
Given(r, Op(_)) == Op(r)

----------------------------------------------------------------------------
(* Frames and swap entries.                                                *)

free_page(s, f) == [s EXCEPT !.free = @ \cup {f}, !.page[f] = NewFrame(@.data)]

swap_active_list_add(s, f) ==
    [s EXCEPT !.page[f].active = TRUE, !.active = Append(@, f)]
swap_inactive_list_add(s, f) ==
    [s EXCEPT !.page[f].active = FALSE, !.inactive = Append(@, f)]
swap_list_del(s, f) ==
    IF s.page[f].active THEN [s EXCEPT !.active = SelectSeq(@, LAMBDA g : g # f)]
    ELSE [s EXCEPT !.inactive = SelectSeq(@, LAMBDA g : g # f)]

swap_page_del(s, f) == [s EXCEPT !.page[f].index = 0]

swap_free_page(s, f) ==
    free_page(swap_page_del(Check(s, s.page[f].ref = 0, "swap_free_page"), f), f)

swap_hash_find(s, o) ==
    LET found == {f \in Frames : s.page[f].index = o} IN IF found = {} THEN 0 ELSE Min(found)

(* The scan goes round from next and stops at the first unused slot; the   *)
(* first slot without references is remembered meanwhile.                  *)
Scan(s) == [i \in 1 .. NSwap |-> ((s.next + i - 2) % NSwap) + 1]
TakeBack(s, o, f) ==
    IF f = 0 THEN [s |-> Check(s, FALSE, "try_alloc_swap_entry"), o |-> 0]
    ELSE [s |-> [(IF s.page[f].ref = 0 THEN swap_free_page(swap_list_del(s, f), f)
                  ELSE swap_page_del(swap_list_del(s, f), f)) EXCEPT !.mem_map[o] = UNUSED],
          o |-> o]
try_alloc_swap_entry(s) ==
    LET First(count) == SelectInSeq(Scan(s), LAMBDA o : s.mem_map[o] = count)
    IN  Given(First(UNUSED), LAMBDA empty : Given(First(0), LAMBDA zero :
            CASE empty # 0 -> [s |-> [s EXCEPT !.next = (Scan(s)[empty] % NSwap) + 1],
                               o |-> Scan(s)[empty]]
              [] empty = 0 /\ zero # 0 ->
                    TakeBack(s, Scan(s)[zero], swap_hash_find(s, Scan(s)[zero]))
              [] OTHER -> [s |-> s, o |-> 0]))

(* With o = 0 the page gets a new entry, if there is one.                  *)
swap_page_add(s, f, o) ==
    IF o # 0 THEN [s EXCEPT !.page[f].index = o]
    ELSE Given(try_alloc_swap_entry(s), LAMBDA r :
        IF r.o = 0 THEN r.s
        ELSE [Check(r.s, r.s.mem_map[r.o] = UNUSED, "swap_page_add") EXCEPT
                !.mem_map[r.o] = 0, !.page[f].dirty = TRUE, !.page[f].index = r.o])

swap_duplicate(s, o) ==
    [Check(s, s.mem_map[o] >= 0, "swap_duplicate") EXCEPT !.mem_map[o] = @ + 1]

EntryRemoved(s, o, f) ==
    CASE s.mem_map[o] # 0 \/ (f # 0 /\ s.page[f].ref # 0) -> s
      [] s.mem_map[o] = 0 /\ f = 0 -> [s EXCEPT !.mem_map[o] = UNUSED]
      [] OTHER -> [swap_free_page(swap_list_del(s, f), f) EXCEPT !.mem_map[o] = UNUSED]
swap_remove_entry(s, o) ==
    EntryRemoved([Check(s, s.mem_map[o] > 0, "swap_remove_entry") EXCEPT !.mem_map[o] = @ - 1],
                 o, swap_hash_find(s, o))

swap_page_count(s, f) == IF PageSwap(s, f) THEN s.mem_map[s.page[f].index] ELSE 0

----------------------------------------------------------------------------
(* Page tables.  The entries of the shared memory object are removed the   *)
(* same way (shmem_remove_entry_pte).                                      *)

MutRemovePte(s, q, v) ==
    LET e == s.pte[q][v]
        t == [s EXCEPT !.pte[q][v] = Nil]
    IN  CASE e.t = "nil" -> s
          [] e.t = "swap" -> swap_remove_entry(t, e.o)
          [] e.t = "page" -> IF PageSwap(s, e.f) THEN t ELSE free_page(t, e.f)

Unref(s, f, d) ==
    IF PageSwap(s, f) THEN [s EXCEPT !.page[f].dirty = @ \/ d]
    ELSE IF s.page[f].ref = 0 THEN free_page(s, f) ELSE s
page_remove_pte(s, q, v) ==
    LET e == s.pte[q][v]
        t == [s EXCEPT !.pte[q][v] = Nil]
    IN  CASE e.t = "nil" -> s
          [] e.t = "swap" -> swap_remove_entry(t, e.o)
          [] e.t = "page" -> Unref([t EXCEPT !.page[e.f].ref = @ - 1], e.f, e.d)

page_insert(s, q, v, f, w) ==
    LET same == s.pte[q][v].t = "page" /\ s.pte[q][v].f = f
        t == [s EXCEPT !.page[f].ref = @ + 1]
    IN  [(IF same THEN s ELSE page_remove_pte(t, q, v)) EXCEPT !.pte[q][v] = Present(f, w)]

RECURSIVE unmap_range(_, _, _)
unmap_range(s, q, vs) ==
    IF vs = {} THEN s ELSE unmap_range(page_remove_pte(s, q, Min(vs)), q, vs \ {Min(vs)})

shmem_destroy(s) == unmap_range(s, SHMEM, Shm)

(* copy_range, for one virtual page.                                       *)
copy_pte(s, from, to, v) ==
    LET e == s.pte[from][v]
        protect == v \notin Shm /\ e.w
    IN  CASE e.t = "nil" -> s
          [] e.t = "swap" -> [swap_duplicate(s, e.o) EXCEPT !.pte[to][v] = e]
          [] e.t = "page" ->
               page_insert([s EXCEPT !.pte[from][v].w = @ /\ ~ protect], to, v, e.f, e.w /\ ~ protect)

----------------------------------------------------------------------------
(* kswapd.                                                                 *)

(* One step of page_launder; ok: whether swapfs_write succeeds.            *)
MutLaunder(s, f, ok) ==
    LET t == swap_list_del(s, f) IN
    IF s.page[f].ref # 0 THEN swap_active_list_add(t, f)
    ELSE swap_free_page(IF s.mem_map[s.page[f].index] = 0 THEN [t EXCEPT !.mem_map[s.page[f].index] = UNUSED]
                        ELSE t, f)

Launder(s, f, ok) ==
    LET t == swap_list_del(s, f)
        o == s.page[f].index
        u == IF ok THEN [t EXCEPT !.page[f].dirty = FALSE, !.disk[o] = s.page[f].data] ELSE t
    IN  CASE s.page[f].ref # 0 -> swap_active_list_add(t, f)
          [] s.page[f].ref = 0 /\ s.mem_map[o] = 0 ->
               swap_free_page([t EXCEPT !.mem_map[o] = UNUSED], f)
          [] s.page[f].ref = 0 /\ s.mem_map[o] # 0 /\ s.page[f].dirty ->
               IF ok THEN swap_free_page(u, f) ELSE swap_inactive_list_add(u, f)
          [] OTHER -> swap_free_page(t, f)

page_launder(s, ok) == FoldLeft(LAMBDA t, f : Launder(t, f, ok), s, s.inactive)

refill_inactive_scan(s) ==
    FoldLeft(LAMBDA t, f : IF t.page[f].ref # 0 THEN t
                           ELSE swap_inactive_list_add(swap_list_del(t, f), f), s, s.active)

(* shmem_insert_entry of a swap entry in place of a present one.           *)
shmem_insert_entry(s, v, o) ==
    [swap_duplicate(page_remove_pte(s, SHMEM, v), o) EXCEPT !.pte[SHMEM][v] = Entry(o)]

(* The loop body of swap_out_vma; n counts what is still required.         *)
SwapOutShm(s, v, f, o) ==
    IF v \notin Shm \/ s.page[f].ref # 1 THEN s
    ELSE IF s.pte[SHMEM][v].t = "page" THEN shmem_insert_entry(s, v, o)
    ELSE Check(s, s.pte[SHMEM][v].t # "nil", "swap_out_vma")
SwapOutPage(s, p, v, f, o) ==
    SwapOutShm([swap_duplicate(s, o) EXCEPT !.page[f].ref = @ - 1, !.pte[p][v] = Entry(o),
                                            !.at[p] = v + 1], v, f, o)
SwapOutPte(r, p, v) ==
    LET e == r.s.pte[p][v]
        Out(s) == [s |-> SwapOutPage(s, p, v, e.f, s.page[e.f].index), n |-> r.n - 1]
    IN  CASE r.n = 0 \/ e.t # "page" -> r
          [] r.n > 0 /\ e.t = "page" /\ e.a -> [r EXCEPT !.s.pte[p][v].a = FALSE]
          [] OTHER ->
               IF PageSwap(r.s, e.f) THEN Out([r.s EXCEPT !.page[e.f].dirty = @ \/ e.d])
               ELSE Given(swap_page_add(r.s, e.f, 0), LAMBDA s :
                        IF PageSwap(s, e.f) THEN Out(swap_active_list_add(s, e.f))
                        ELSE [r EXCEPT !.s = s])

(* From swap_address to the end of its region, the other region, and the   *)
(* first one again: map_count + 1 visits.                                  *)
Span(a, b) == [i \in 1 .. b - a + 1 |-> a + i - 1]
swap_out_mm(s, p, require) ==
    LET a == IF s.at[p] \in VAs THEN s.at[p] ELSE 1
        priv == Span(1, NPriv)
        shm == Span(NPriv + 1, NPriv + NShm)
        visits == IF a <= NPriv THEN Span(a, NPriv) \o shm \o priv
                  ELSE Span(a, NPriv + NShm) \o priv \o shm
    IN  FoldLeft(LAMBDA r, v : SwapOutPte(r, p, v), [s |-> [s EXCEPT !.at[p] = a], n |-> require], visits)

RECURSIVE SwapOut(_, _)
SwapOut(r, rounds) ==
    IF r.needs <= 0 \/ rounds = 0 THEN r
    ELSE SwapOut(Given(swap_out_mm(r.s, Head(r.list), Min({r.needs, BATCH})), LAMBDA x :
                    [s |-> x.s, list |-> Append(Tail(r.list), Head(r.list)),
                     needs |-> r.needs - (Min({r.needs, BATCH}) - x.n)]), rounds - 1)

(* One turn of kswapd's loop; it keeps the CPU as long as there is         *)
(* pressure, then wakes everyone who waits for a frame.                    *)
kswapd_turn(s, list, before) ==
    LET left == pressure - (Cardinality(s.free) - before)
    IN  /\ m' = refill_inactive_scan(s)
        /\ live' = list
        /\ pressure' = Max({left, 0})
        /\ running' = (left > 0)
        /\ waiting' = IF left > 0 THEN waiting ELSE {}
kswapd_main ==
    /\ m.panic = ""
    /\ IF pressure > 0 /\ live = <<>>
       THEN m' = Check(m, FALSE, "kswapd_main") /\ UNCHANGED <<live, pressure, running, waiting>>
       ELSE \E ok \in BOOLEAN :
            \E out \in {SwapOut([s |-> m, list |-> live, needs |-> pressure * FACTOR], ROUNDS)} :
                kswapd_turn(page_launder(out.s, ok), out.list, Cardinality(out.s.free))
    /\ UNCHANGED <<loc, shmemSem, ghost, reset, ops>>

----------------------------------------------------------------------------
(* Processes.                                                              *)

Alive(p) == m.panic = "" /\ ~ running /\ p \notin waiting /\ p \in Range(live)
At(p, pc) == Alive(p) /\ loc[p].pc = pc
Op == ops < MaxOps /\ ops' = ops + 1
UserOp(p) == At(p, "user") /\ Op
Goto(p, r) == loc' = [loc EXCEPT ![p] = r]
Owner(p, v) == IF v \in Shm THEN SHMEM ELSE p
kswapdVars == <<pressure, waiting, running>>

(* An access the page table allows; a write changes the contents.          *)
Touch(p, v, w) ==
    LET e == m.pte[p][v] IN
    /\ UserOp(p) /\ e.t = "page" /\ (w => e.w)
    /\ m' = [m EXCEPT !.pte[p][v].a = TRUE, !.pte[p][v].d = @ \/ w,
                      !.page[e.f].data = IF w THEN 1 - @ ELSE @]
    /\ ghost' = IF w THEN [ghost EXCEPT ![Owner(p, v)][v] = 1 - m.page[e.f].data] ELSE ghost
    /\ UNCHANGED <<loc, kswapdVars, live, shmemSem, reset>>

(* alloc_page without a free frame: try_free_pages sleeps until kswapd is  *)
(* done, then the allocation is tried again.                               *)
Allocating(p) ==
    \/ loc[p].pc \in {"anon", "cow", "in"}
    \/ loc[p].pc = "shmem" /\ Head(shmemSem) = p /\ m.pte[SHMEM][loc[p].v].t = "nil"
try_free_pages(p) ==
    /\ Alive(p) /\ Allocating(p) /\ m.free = {}
    /\ pressure' = pressure + 1
    /\ waiting' = waiting \cup {p}
    /\ UNCHANGED <<m, loc, running, live, shmemSem, ghost, reset, ops>>

(* An allocation elsewhere in the kernel that finds no block of its size   *)
(* (setup_kstack wants two frames) calls try_free_pages too.               *)
OtherAlloc ==
    /\ m.panic = "" /\ ~ running /\ pressure = 0 /\ Op
    /\ pressure' = 1
    /\ UNCHANGED <<m, loc, waiting, running, live, shmemSem, ghost, reset>>

Frame == Min(m.free)
Taken == [m EXCEPT !.free = @ \ {Frame}]

(* The end of do_pgfault for the fault l: the page is f, brought back from *)
(* swap if swapped, and new is a frame to copy it to, or 0.                *)
Resolve(s, p, l, f, swapped) ==
    LET cow == l.v \notin Shm
        may_copy == ~ (cow /\ swapped /\ ~ l.w)
        copy == cow /\ may_copy /\ s.page[f].ref + swap_page_count(s, f) > 1
        t == [s EXCEPT !.page[l.new].data = s.page[f].data]
        u == page_insert(s, p, l.v, f, may_copy)
    IN  /\ m' = IF copy THEN page_insert(t, p, l.v, l.new, TRUE)
                ELSE IF l.new # 0 THEN free_page(u, l.new) ELSE u
        /\ reset' = (reset \/ (~ copy /\ ~ swapped /\ s.pte[p][l.v].d /\ PageSwap(s, f) /\ ~ s.page[f].dirty))
        /\ Goto(p, User)

(* The page is present, or in the swap cache, or has to be read.           *)
FindPage(s, p, l) ==
    LET e == s.pte[p][l.v]
        f == IF e.t = "page" THEN e.f ELSE swap_hash_find(s, e.o)
    IN  IF f # 0 THEN Resolve(s, p, l, f, e.t = "swap")
        ELSE m' = s /\ Goto(p, [l EXCEPT !.pc = "in"]) /\ UNCHANGED reset

(* do_pgfault up to the first point where it may sleep.                    *)
do_pgfault(p, v, w) ==
    LET e == m.pte[p][v]
        l == [pc |-> "", v |-> v, w |-> w, new |-> 0]
        cow == v \notin Shm
        s == Check(m, e.t # "page" \/ (w /\ ~ e.w /\ cow), "do_pgfault")
    IN  /\ UserOp(p) /\ ~ (e.t = "page" /\ (w => e.w))
        /\ CASE e.t = "nil" /\ cow ->
                  Goto(p, [l EXCEPT !.pc = "anon"]) /\ UNCHANGED <<m, reset, shmemSem>>
             [] e.t = "nil" /\ ~ cow ->
                  /\ Goto(p, [l EXCEPT !.pc = "shmem"])
                  /\ shmemSem' = Append(shmemSem, p) /\ UNCHANGED <<m, reset>>
             [] e.t # "nil" /\ cow ->
                  Goto(p, [l EXCEPT !.pc = "cow"]) /\ m' = s /\ UNCHANGED <<reset, shmemSem>>
             [] OTHER -> FindPage(s, p, l) /\ UNCHANGED shmemSem
        /\ UNCHANGED <<kswapdVars, live, ghost>>

(* The four places that go on once alloc_page has a frame.                 *)
pgdir_alloc_page(p) ==
    LET v == loc[p].v IN
    /\ At(p, "anon") /\ m.free # {}
    /\ m' = page_insert(Taken, p, v, Frame, TRUE)
    /\ ghost' = [ghost EXCEPT ![p][v] = m.page[Frame].data]
    /\ Goto(p, User)
    /\ UNCHANGED <<kswapdVars, live, shmemSem, reset, ops>>

shmem_get_entry(p) ==
    LET v == loc[p].v
        e == m.pte[SHMEM][v]
    IN  /\ At(p, "shmem") /\ Head(shmemSem) = p
        /\ CASE e.t = "nil" ->
                  /\ m.free # {}
                  /\ m' = page_insert(page_insert(Taken, SHMEM, v, Frame, FALSE), p, v, Frame, TRUE)
                  /\ ghost' = [ghost EXCEPT ![SHMEM][v] = m.page[Frame].data]
             [] e.t = "page" -> m' = page_insert(m, p, v, e.f, TRUE) /\ UNCHANGED ghost
             [] e.t = "swap" ->    \* swap_duplicate(*ptep), and *ptep is 0
                  m' = Check(m, FALSE, "swap_offset") /\ UNCHANGED ghost
        /\ shmemSem' = Tail(shmemSem)
        /\ Goto(p, User)
        /\ UNCHANGED <<kswapdVars, live, reset, ops>>

CowPage(p) ==
    /\ At(p, "cow") /\ m.free # {}
    /\ FindPage(Taken, p, [loc[p] EXCEPT !.new = Frame])
    /\ UNCHANGED <<kswapdVars, live, shmemSem, ghost, ops>>

(* Nothing sleeps between down(&swap_in_sem) and up(): ok is swapfs_read.  *)
swap_in_page(p) == \E ok \in BOOLEAN :
    LET l == loc[p]
        o == m.pte[p][l.v].o
        f == swap_hash_find(m, o)
        read == [swap_page_add(Taken, Frame, o) EXCEPT !.page[Frame].data = m.disk[o]]
    IN  /\ At(p, "in") /\ m.free # {}
        /\ CASE f # 0 -> Resolve(m, p, l, f, TRUE)
             [] f = 0 /\ ok -> Resolve(swap_active_list_add(read, Frame), p, l, Frame, TRUE)
             [] OTHER -> /\ m' = IF l.new # 0 THEN free_page(m, l.new) ELSE m
                         /\ Goto(p, [pc |-> "killed"]) /\ UNCHANGED reset
        /\ UNCHANGED <<kswapdVars, live, shmemSem, ghost, ops>>

----------------------------------------------------------------------------
(* do_fork: dup_mmap copies the regions from the last to the first; the    *)
(* new mm joins proc_mm_list when it is complete.                          *)
do_fork(p, q) ==
    /\ UserOp(p) /\ q \notin Range(live) /\ \A r \in Procs : loc[r].pc = "dup" => loc[r].child # q
    /\ Goto(p, [pc |-> "dup", child |-> q, todo |-> Span(NPriv + 1, NPriv + NShm) \o Span(1, NPriv)])
    /\ UNCHANGED <<m, kswapdVars, live, shmemSem, ghost, reset>>

dup_mmap(p) ==
    LET q == loc[p].child
        v == Head(loc[p].todo)
        last == Len(loc[p].todo) = 1
    IN  /\ At(p, "dup")
        /\ m' = copy_pte(Check(m, m.pte[q][v].t = "nil", "copy_range"), p, q, v)
        /\ ghost' = [ghost EXCEPT ![q][v] = ghost[p][v]]
        /\ live' = IF last THEN <<q>> \o live ELSE live
        /\ Goto(p, IF last THEN User ELSE [loc[p] EXCEPT !.todo = Tail(@)])
        /\ UNCHANGED <<kswapdVars, shmemSem, reset, ops>>

(* exit_mmap and mm_destroy; the last process also destroys the object.    *)
exit_mmap(p) ==
    LET s == unmap_range(m, p, VAs)
        last == live = <<p>> /\ \A r \in Procs : loc[r].pc # "dup"
    IN  /\ (At(p, "killed") /\ UNCHANGED ops) \/ UserOp(p)
        /\ m' = [(IF last THEN shmem_destroy(s) ELSE s) EXCEPT !.at[p] = 1]
        /\ live' = SelectSeq(live, LAMBDA r : r # p)
        /\ ghost' = [q \in Owners |-> IF q = p \/ (last /\ q = SHMEM) THEN [v \in VAs |-> Unknown]
                                      ELSE ghost[q]]
        /\ Goto(p, User)
        /\ UNCHANGED <<kswapdVars, shmemSem, reset>>

(* The private region is unmapped and mapped again (do_munmap, do_mmap).   *)
do_munmap(p) ==
    /\ UserOp(p)
    /\ m' = unmap_range(m, p, 1 .. NPriv)
    /\ ghost' = [ghost EXCEPT ![p] = [v \in VAs |-> Unknown]]
    /\ UNCHANGED <<loc, kswapdVars, live, shmemSem, reset>>

PagingNext ==
    \/ kswapd_main \/ OtherAlloc
    \/ \E p \in Procs :
        \/ \E v \in VAs, w \in BOOLEAN : Touch(p, v, w) \/ do_pgfault(p, v, w)
        \/ try_free_pages(p) \/ pgdir_alloc_page(p) \/ shmem_get_entry(p) \/ CowPage(p) \/ swap_in_page(p)
        \/ \E q \in Procs : do_fork(p, q)
        \/ dup_mmap(p) \/ exit_mmap(p) \/ do_munmap(p)

PagingSpec == PagingInit /\ [][PagingNext]_pagingVars

----------------------------------------------------------------------------
PteSlots == Owners \X VAs
PteOf(x) == m.pte[x[1]][x[2]]
RefsTo(f) == {x \in PteSlots : PteOf(x).t = "page" /\ PteOf(x).f = f}
EntriesTo(o) == {x \in PteSlots : PteOf(x).t = "swap" /\ PteOf(x).o = o}
Held == {loc[p].new : p \in {p \in Procs : "new" \in DOMAIN loc[p]}}

(* Every frame is free or accounted for: its reference count is the number *)
(* of page table and shared memory entries that map it, a free frame has   *)
(* none, and a frame that is not free is mapped, in the swap cache or in   *)
(* the hands of a page fault; none is lost however faults, forks, exits    *)
(* and kswapd interleave (page_insert, page_remove_pte, do_pgfault).       *)
FramesAccounted ==
    m.panic = "" => \A f \in Frames :
        /\ m.page[f].ref = Cardinality(RefsTo(f))
        /\ (f \in m.free) = (RefsTo(f) = {} /\ ~ PageSwap(m, f) /\ f \notin Held)

(* The comment on mem_map: a slot's count is the number of entries that    *)
(* refer to it; a slot without entries is unused or belongs to a page in   *)
(* the swap cache, and no two pages share one.  The two lists hold exactly *)
(* the pages of the cache (swap_remove_entry, page_launder,                *)
(* try_alloc_swap_entry taking a slot back).                               *)
SwapAccounted ==
    m.panic = "" =>
        /\ \A o \in Offsets :
            LET cached == {f \in Frames : m.page[f].index = o} IN
            /\ Cardinality(cached) <= 1
            /\ m.mem_map[o] = IF EntriesTo(o) = {} /\ cached = {} THEN UNUSED ELSE Cardinality(EntriesTo(o))
        /\ IsInjective(m.active \o m.inactive)
        /\ Range(m.active) = {f \in Frames : PageSwap(m, f) /\ m.page[f].active}
        /\ Range(m.inactive) = {f \in Frames : PageSwap(m, f) /\ ~ m.page[f].active}

(* What a page holds, in a frame or on the swap disk.                      *)
Content(e) ==
    LET f == IF e.t = "page" THEN e.f ELSE swap_hash_find(m, e.o)
    IN  IF f # 0 THEN m.page[f].data ELSE m.disk[e.o]
Intact == \A x \in PteSlots :
    PteOf(x).t # "nil" => Content(PteOf(x)) = ghost[Owner(x[1], x[2])][x[2]]

(* A process always finds in its private pages what it wrote last, or what *)
(* its parent had at the fork, and every process finds in shared memory    *)
(* what anyone wrote last, through copy on write, swapping out, sharing of *)
(* swap entries and failing swap writes; unless a write fault has dropped  *)
(* the dirty bit of a page in the swap cache (see MemoryIntact).           *)
ReadsBack == m.panic = "" /\ ~ reset => Intact

(* No assertion and no panic of the memory manager is reached but two: the *)
(* one on the entry number, in the fault on a shared page that is swapped  *)
(* out (see SwapOffsets), and kswapd's on an empty list of address spaces, *)
(* when kernel threads alone run short of memory.                          *)
PagingAsserts == m.panic \in {"", "swap_offset", "kswapd_main"}

(* swap.c: of a page that is not present but has an entry, "the content    *)
(* ... is in the swap space".                                              *)
MemoryIntact == m.panic = "" => Intact

(* swap_offset is only given entries of the swap space.                    *)
SwapOffsets == m.panic # "swap_offset"
=============================================================================

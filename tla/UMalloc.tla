------------------------------- MODULE UMalloc -------------------------------
(***************************************************************************)
(* The user library's allocator, user/libs/malloc.c: one circular list of  *)
(* free blocks in address order, of heap memory (type 0) and of shared     *)
(* memory (type 1).  Addresses and sizes are in header_t units; mem_lock   *)
(* makes every call atomic.  sys_brk and sys_shmem are the system calls as *)
(* the library sees them.                                                  *)
(***************************************************************************)
EXTENDS Integers, FiniteSets

CONSTANTS
    PAGE,        \* units in a page
    HEAP,        \* where the heap starts; 0 is the static header base
    TOP,         \* end of the user address space
    Units        \* nunits of the requests

VARIABLES
    um,    \* hdr[a]: [ptr, size, type] of the header at a; freep; brk, the end of the heap;
           \* shm, the start of the lowest shared segment
    live   \* headers of the blocks handed out

umVars == <<um, live>>

base == 0
NULL == -1
Addrs == 0 .. TOP - 1
Blank == [ptr |-> base, size |-> 0, type |-> 0]
RoundUp(n) == ((n + PAGE - 1) \div PAGE) * PAGE

UmInit ==
    /\ um = [hdr |-> [a \in Addrs |-> Blank],
             freep |-> NULL, brk |-> HEAP, shm |-> TOP]
    /\ live = {}

(* The free block after which bp belongs, in address order.                *)
RECURSIVE Place(_, _, _)
Place(h, p, bp) ==
    LET q == h[p].ptr IN
    IF (bp > p /\ bp < q) \/ (p >= q /\ (bp > p \/ bp < q)) THEN p ELSE Place(h, q, bp)

free_locked(u, bp) ==
    LET h == u.hdr
        p == Place(h, u.freep, bp)
        q == h[p].ptr
        up == h[bp].type = h[q].type /\ bp + h[bp].size = q
        h1 == IF up THEN [h EXCEPT ![bp].size = @ + h[q].size, ![bp].ptr = h[q].ptr]
              ELSE [h EXCEPT ![bp].ptr = q]
        down == h1[p].type = h1[bp].type /\ p + h1[p].size = bp
    IN  [u EXCEPT !.freep = p,
                  !.hdr = IF down THEN [h1 EXCEPT ![p].size = @ + h1[bp].size, ![p].ptr = h1[bp].ptr]
                          ELSE [h1 EXCEPT ![p].ptr = bp]]

(* sys_brk rounds up to a page and leaves a free page above the heap;      *)
(* sys_shmem takes the highest free range.                                 *)
NewCore(u, type, nu) ==
    IF type = 0 THEN [start |-> u.brk, size |-> RoundUp(u.brk + nu) - u.brk, ok |-> RoundUp(u.brk + nu) + PAGE <= u.shm]
    ELSE [start |-> u.shm - RoundUp(nu), size |-> RoundUp(nu), ok |-> u.shm - RoundUp(nu) >= u.brk]

(* morecore_brk_locked and morecore_shmem_locked.                          *)
Morecore(u, type, nu) ==
    LET c == NewCore(u, type, nu)
        v == free_locked([u EXCEPT !.hdr[c.start] = [ptr |-> NULL, size |-> c.size, type |-> type]], c.start)
    IN  IF type = 0 THEN [v EXCEPT !.brk = c.start + c.size] ELSE [v EXCEPT !.shm = c.start]

(* Unlinks the block p or cuts nu units off its front.                     *)
TakeBlock(h, prevp, p, nu) ==
    IF h[p].size = nu THEN [h EXCEPT ![prevp].ptr = h[p].ptr]
    ELSE [h EXCEPT ![prevp].ptr = p + nu,
                   ![p + nu] = [ptr |-> h[p].ptr, size |-> h[p].size - nu, type |-> h[p].type],
                   ![p].size = nu]

(* First fit.  The search goes on behind the block it had reached when     *)
(* memory was added, so it may reach the new freep, and add more, before   *)
(* it looks at the block it added.                                         *)
RECURSIVE Search(_, _, _, _)
Search(u, prevp, type, nu) ==
    LET p == u.hdr[prevp].ptr IN
    IF u.hdr[p].type = type /\ u.hdr[p].size >= nu
    THEN [um |-> [u EXCEPT !.hdr = TakeBlock(u.hdr, prevp, p, nu), !.freep = prevp], ret |-> p]
    ELSE IF p # u.freep THEN Search(u, p, type, nu)
    ELSE IF NewCore(u, type, nu).ok THEN Search(Morecore(u, type, nu), p, type, nu)
    ELSE [um |-> u, ret |-> NULL]

RECURSIVE Ring(_, _, _)
Ring(h, p, seen) == IF p \in seen THEN seen ELSE Ring(h, h[p].ptr, seen \cup {p})

(* What no header of a block is any more, and the ptr of an allocated      *)
(* block, is data of the program.                                          *)
Forget(u, l) ==
    LET ring == Ring(u.hdr, u.freep, {}) IN
    [u EXCEPT !.hdr = [a \in Addrs |-> IF a \in ring THEN u.hdr[a]
                                       ELSE IF a \in l THEN [u.hdr[a] EXCEPT !.ptr = base] ELSE Blank]]

malloc_locked(type, nu) ==
    LET u == IF um.freep = NULL THEN [um EXCEPT !.freep = base] ELSE um
        r == Search(u, u.freep, type, nu)
        l == IF r.ret = NULL THEN live ELSE live \cup {r.ret}
    IN  um' = Forget(r.um, l) /\ live' = l

free(p) ==
    /\ p \in live
    /\ live' = live \ {p}
    /\ um' = Forget(free_locked(um, p), live \ {p})

UmNext == (\E t \in {0, 1}, nu \in Units : malloc_locked(t, nu)) \/ (\E p \in live : free(p))
UmSpec == UmInit /\ [][UmNext]_umVars

(* The free list is one ring in address order, every unit obtained from    *)
(* the kernel is in exactly one free or allocated block, and neighbouring  *)
(* free blocks of a type are merged.                                       *)
MallocOk ==
    LET hdr == um.hdr
        ring == IF um.freep = NULL THEN {} ELSE Ring(hdr, um.freep, {})
        blocks == (ring \ {base}) \cup live
        Span(a) == a .. a + hdr[a].size - 1
        owned == (HEAP .. um.brk - 1) \cup (um.shm .. TOP - 1)
    IN  /\ um.freep # NULL => base \in ring /\ Cardinality({p \in ring : hdr[p].ptr <= p}) = 1
        /\ ring \cap live = {}
        /\ UNION {Span(a) : a \in blocks} = owned
        /\ \A a, b \in blocks : a # b => Span(a) \cap Span(b) = {}
        /\ \A a \in blocks : hdr[a].size > 0 /\ hdr[a].type = IF a >= um.shm THEN 1 ELSE 0
        /\ \A a, b \in ring \ {base} : a + hdr[a].size = b => hdr[a].type # hdr[b].type
=============================================================================

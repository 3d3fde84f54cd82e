-------------------------------- MODULE Slab --------------------------------
(***************************************************************************)
(* The kernel's slab allocator, kern/mm/slab.c, with its real sizes.  A    *)
(* process that grows a cache may sleep in alloc_pages, and again for the  *)
(* management object of an off-slab cache; other processes allocate and    *)
(* free meanwhile.  A slab is named by its first page, which stands for    *)
(* 1 << page_order pages.                                                  *)
(***************************************************************************)
EXTENDS Integers, Sequences, FiniteSets, FiniteSetsExt, SequencesExt

CONSTANTS
    Procs,
    Slots,      \* first pages of the slabs that fit in memory
    Requests,   \* sizes passed to kmalloc
    BootCache,  \* a cache of which the kernel itself keeps
    Boot,       \* this many objects of one slab
    MaxOwned    \* bound on the objects the processes hold

VARIABLES
    heap,   \* slab, notfull and full lists, free slots, ok (no assertion failed)
    owned,  \* objects handed out by kmalloc and not freed
    stack   \* per process, the calls of kmem_cache_alloc in progress: [cache, page]

slabVars == <<heap, owned, stack>>

PGSIZE == 4096
SLAB_T == 24
BUFCTL_T == 4
MIN_SIZE_ORDER == 5
MAX_SIZE_ORDER == 17
KMALLOC_MAX_ORDER == 10
ALIGN == 16
Caches == 0 .. MAX_SIZE_ORDER - MIN_SIZE_ORDER
BUFCTL_END == -1
None == 0

----------------------------------------------------------------------------
(* The layout of a cache's slabs.                                          *)
RoundUp(n, a) == ((n + a - 1) \div a) * a
slab_mgmt_size(num) == RoundUp(SLAB_T + num * BUFCTL_T, ALIGN)

RECURSIVE Fit(_, _, _)
Fit(size, objsize, num) ==
    IF slab_mgmt_size(num) + num * objsize <= size THEN num ELSE Fit(size, objsize, num - 1)
Estimate(size, objsize, off_slab, num) ==
    [num |-> num, remainder |-> size - num * objsize - IF off_slab THEN 0 ELSE slab_mgmt_size(num)]
cache_estimate(order, objsize, off_slab) ==
    LET size == PGSIZE * 2 ^ order
    IN  Estimate(size, objsize, off_slab,
                 IF off_slab THEN size \div objsize
                 ELSE Fit(size, objsize, (size - SLAB_T) \div (objsize + BUFCTL_T)))

Good(order, e) == e.num # 0 /\ e.remainder * 8 <= PGSIZE * 2 ^ order
(* The first good order; ok unless an order tried on the way has more      *)
(* objects than off_slab_limit, on which the kernel panics.                *)
calculate_slab_order(objsize, off_slab) ==
    LET order == Min({o \in 0 .. KMALLOC_MAX_ORDER : Good(o, cache_estimate(o, objsize, off_slab))})
        off_slab_limit == (objsize - SLAB_T) \div BUFCTL_T
    IN  [order |-> order,
         ok |-> off_slab => \A o \in 0 .. order : cache_estimate(o, objsize, off_slab).num <= off_slab_limit]

getorder(n) == Min({o \in MIN_SIZE_ORDER .. MAX_SIZE_ORDER : n <= 2 ^ o})

CacheOf(c, objsize, large, tried, e) ==
    LET mgmt == slab_mgmt_size(e.num)
        off_slab == large /\ e.remainder < mgmt
    IN  [objsize |-> objsize, num |-> e.num, page_order |-> tried.order, off_slab |-> off_slab,
         ok |-> tried.ok /\ e.num > 0,
         offset |-> IF off_slab THEN 0 ELSE mgmt,
         slab_cachep |-> IF off_slab THEN getorder(mgmt) - MIN_SIZE_ORDER ELSE c]
Layout(c, objsize, large, tried) ==
    CacheOf(c, objsize, large, tried, cache_estimate(tried.order, objsize, large))
init_kmem_cache(c) ==
    LET objsize == RoundUp(2 ^ (c + MIN_SIZE_ORDER), ALIGN)
        large == objsize >= PGSIZE \div 8
    IN  Layout(c, objsize, large, calculate_slab_order(objsize, large))

slab_cache == [c \in Caches |-> init_kmem_cache(c)]
----------------------------------------------------------------------------
NoSlab == [cache |-> None, mgmt |-> <<>>, inuse |-> 0, free |-> 0, bufctl |-> <<>>]

(* The end of kmem_cache_grow: the free objects are chained in order.      *)
AddSlab(h, c, page, mgmt) ==
    LET num == slab_cache[c].num IN
    [h EXCEPT !.slab[page] = [cache |-> c, mgmt |-> mgmt, inuse |-> 0, free |-> 0,
                              bufctl |-> [i \in 0 .. num - 1 |-> IF i = num - 1 THEN BUFCTL_END ELSE i + 1]],
              !.notfull[c] = <<page>> \o @]

kmem_cache_alloc_one(h, c, page) ==
    LET s == h.slab[page]
        next == s.bufctl[s.free]
        h1 == [h EXCEPT !.slab[page].inuse = @ + 1, !.slab[page].free = next]
    IN  IF next = BUFCTL_END
        THEN [h1 EXCEPT !.notfull[c] = Tail(@), !.full[c] = <<page>> \o @]
        ELSE h1

(* kmem_cache_free with kmem_cache_free_one and kmem_slab_destroy, which   *)
(* frees the management object of an off-slab cache in turn.               *)
RECURSIVE kmem_cache_free(_, _)
kmem_cache_free(h, obj) ==
    LET page == obj[1]
        s == h.slab[page]
        c == s.cache
        h1 == [h EXCEPT !.slab[page].bufctl[obj[2]] = s.free, !.slab[page].free = obj[2],
                        !.slab[page].inuse = @ - 1, !.ok = @ /\ page \notin h.pages]
        Off(g) == [g EXCEPT !.notfull[c] = SelectSeq(@, LAMBDA q : q # page),
                            !.full[c] = SelectSeq(@, LAMBDA q : q # page)]
        gone == [Off(h1) EXCEPT !.slab[page] = NoSlab, !.pages = @ \cup {page}]
    IN  IF s.inuse = 1 THEN IF slab_cache[c].off_slab THEN kmem_cache_free(gone, s.mgmt) ELSE gone
        ELSE IF s.inuse = slab_cache[c].num THEN [Off(h1) EXCEPT !.notfull[c] = <<page>> \o @]
        ELSE h1

(* kmem_cache_alloc from try_again to its return or to the next call of    *)
(* alloc_pages: st is the stack of calls, innermost last.                  *)
RECURSIVE kmem_cache_alloc(_, _)
kmem_cache_alloc(h, st) ==
    LET top == Last(st)
        c == top.cache
        page == Head(h.notfull[c])
        obj == <<page, h.slab[page].free>>
        h1 == kmem_cache_alloc_one(h, c, page)
        up == st[Len(st) - 1]
    IN  IF h.notfull[c] = <<>> THEN [heap |-> h, stack |-> st, ret |-> <<>>]
        ELSE IF Len(st) = 1 THEN [heap |-> h1, stack |-> <<>>, ret |-> obj]
        ELSE kmem_cache_alloc(AddSlab(h1, up.cache, up.page, obj), SubSeq(st, 1, Len(st) - 1))

Return(p, r) ==
    /\ heap' = r.heap
    /\ stack' = [stack EXCEPT ![p] = r.stack]
    /\ owned' = IF r.ret = <<>> THEN owned ELSE owned \cup {r.ret}

kmalloc(p, size) ==
    /\ stack[p] = <<>> /\ Cardinality(owned) < MaxOwned
    /\ Return(p, kmem_cache_alloc(heap, <<[cache |-> getorder(size) - MIN_SIZE_ORDER, page |-> None]>>))

(* kmem_cache_grow once alloc_pages returned a page.                       *)
kmem_cache_grow(p) ==
    /\ stack[p] # <<>>
    /\ \E page \in heap.pages :
        LET st == stack[p]
            c == Last(st).cache
            h == [heap EXCEPT !.pages = @ \ {page}]
        IN  /\ \A q \in heap.pages : page <= q
            /\ Return(p, IF slab_cache[c].off_slab
                         THEN kmem_cache_alloc(h, Append([st EXCEPT ![Len(st)].page = page],
                                                         [cache |-> slab_cache[c].slab_cachep, page |-> None]))
                         ELSE kmem_cache_alloc(AddSlab(h, c, page, <<>>), st))

(* alloc_pages returned NULL: every call in progress gives its page back   *)
(* and returns NULL.                                                       *)
GrowFails(p) ==
    LET st == stack[p] IN
    /\ st # <<>>
    /\ heap' = [heap EXCEPT !.pages = @ \cup {st[i].page : i \in 1 .. Len(st) - 1}]
    /\ stack' = [stack EXCEPT ![p] = <<>>]
    /\ UNCHANGED owned

kfree(p, obj) ==
    /\ stack[p] = <<>> /\ obj \in owned
    /\ heap' = kmem_cache_free(heap, obj)
    /\ owned' = owned \ {obj}
    /\ UNCHANGED stack

----------------------------------------------------------------------------
Empty == [slab |-> [q \in Slots |-> NoSlab], notfull |-> [c \in Caches |-> <<>>],
          full |-> [c \in Caches |-> <<>>], pages |-> Slots, ok |-> TRUE]

(* slab_init, and Boot objects allocated before the processes start.       *)
SlabInit ==
    LET first == CHOOSE q \in Slots : \A r \in Slots : q <= r IN
    /\ heap = [AddSlab([Empty EXCEPT !.pages = @ \ {first}], BootCache, first, <<>>)
                EXCEPT !.slab[first].inuse = Boot, !.slab[first].free = Boot,
                       !.ok = \A c \in Caches : slab_cache[c].ok]
    /\ owned = {} /\ stack = [p \in Procs |-> <<>>]

SlabNext ==
    \E p \in Procs :
        \/ \E size \in Requests : kmalloc(p, size)
        \/ kmem_cache_grow(p) \/ GrowFails(p)
        \/ \E obj \in owned : kfree(p, obj)

SlabSpec == SlabInit /\ [][SlabNext]_slabVars

RECURSIVE Chain(_, _)
Chain(b, i) == IF i = BUFCTL_END THEN <<>> ELSE <<i>> \o Chain(b, b[i])

InUse(h) == {q \in Slots : h.slab[q] # NoSlab}

(* Whatever sleeps in alloc_pages: every slab is in the list of its cache  *)
(* that its use count says, its free chain holds exactly the objects that  *)
(* nobody has, no object is handed out twice, be it to a caller or as the  *)
(* management part of another slab, objects and management part do not     *)
(* overlap, and no empty slab stays behind when nobody allocates.          *)
SlabOk ==
    LET mgmts == {heap.slab[q].mgmt : q \in InUse(heap)} \ {<<>>}
        first == CHOOSE q \in Slots : \A r \in Slots : q <= r
        boot == {<<first, i>> : i \in 0 .. Boot - 1}
    IN  /\ heap.ok /\ mgmts \cap (owned \cup boot) = {} /\ owned \cap boot = {}
        /\ \A q, r \in InUse(heap) : q # r /\ heap.slab[q].mgmt # <<>> => heap.slab[q].mgmt # heap.slab[r].mgmt
        /\ \A q \in InUse(heap) :
            LET s == heap.slab[q]
                chain == Chain(s.bufctl, s.free)
                used == {o[2] : o \in {x \in mgmts \cup owned \cup boot : x[1] = q}}
                list == IF s.inuse = slab_cache[s.cache].num THEN heap.full ELSE heap.notfull
                lay == slab_cache[s.cache]
            IN  /\ Len(chain) = lay.num - s.inuse /\ Range(chain) = (0 .. lay.num - 1) \ used
                /\ q \in Range(list[s.cache])
                /\ lay.offset + lay.num * lay.objsize <= PGSIZE * 2 ^ lay.page_order
                /\ LET room == IF lay.off_slab THEN slab_cache[lay.slab_cachep].objsize ELSE lay.offset
                   IN  SLAB_T + lay.num * BUFCTL_T <= room
        /\ \A c \in Caches : \A l \in {heap.full[c], heap.notfull[c]} :
            IsInjective(l) /\ \A i \in DOMAIN l : heap.slab[l[i]] # NoSlab /\ heap.slab[l[i]].cache = c
        /\ Cardinality(InUse(heap)) + Cardinality(heap.pages)
             + Cardinality({<<p, i>> \in Procs \X {1, 2} : i \in DOMAIN stack[p] /\ stack[p][i].page # None})
           = Cardinality(Slots)
        /\ (\A p \in Procs : stack[p] = <<>>) => \A q \in InUse(heap) : heap.slab[q].inuse > 0
=============================================================================

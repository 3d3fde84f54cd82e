-------------------------------- MODULE Buddy --------------------------------
(***************************************************************************)
(* The buddy allocator of physical pages, kern/mm/buddy_pmm.c.  Pages of   *)
(* NPAGE outside every zone are reserved.                                  *)
(***************************************************************************)
EXTENDS Integers, Sequences, FiniteSets

CONSTANTS
    NPAGE,       \* number of pages
    Zones,       \* sequence of [base, n] in the order of buddy_init_memmap
    MAX_ORDER,   \* largest order of a block
    Sizes        \* sizes passed to alloc_pages

VARIABLES
    pmm,   \* free lists, nr_free, property (-1: no PageProperty), and ok (no assertion failed)
    held   \* allocated blocks [base, n]

buddyVars == <<pmm, held>>

Pages == 0 .. NPAGE - 1
InZone(z) == Zones[z].base .. Zones[z].base + Zones[z].n - 1
Zone(p) == CHOOSE z \in DOMAIN Zones : p \in InZone(z)
Usable == UNION {InZone(z) : z \in DOMAIN Zones}
page2idx(p) == p - Zones[Zone(p)].base
Remove(s, x) == SelectSeq(s, LAMBDA y : y # x)

(* SetPageProperty, property = order, list_add and nr_free ++.             *)
Link(b, p, order) ==
    [b EXCEPT !.property[p] = order, !.free_list[order] = <<p>> \o @, !.nr_free[order] = @ + 1]
Unlink(b, p, order) ==
    [b EXCEPT !.property[p] = -1, !.free_list[order] = Remove(@, p), !.nr_free[order] = @ - 1]

RECURSIVE init_memmap(_, _, _, _)
init_memmap(b, p, n, order) ==
    IF n = 0 THEN b
    ELSE IF n >= 2 ^ order THEN init_memmap(Link(b, p, order), p + 2 ^ order, n - 2 ^ order, order)
    ELSE init_memmap(b, p, n, order - 1)

RECURSIVE InitZones(_, _)
InitZones(b, z) ==
    IF z > Len(Zones) THEN b
    ELSE InitZones(init_memmap(b, Zones[z].base, Zones[z].n, MAX_ORDER), z + 1)

(* buddy_init, then buddy_init_memmap for every zone.                      *)
BuddyInit ==
    /\ pmm = InitZones([free_list |-> [o \in 0 .. MAX_ORDER |-> <<>>], nr_free |-> [o \in 0 .. MAX_ORDER |-> 0],
                        property |-> [p \in Pages |-> -1], ok |-> TRUE], 1)
    /\ held = {}

getorder(n) == CHOOSE o \in 0 .. MAX_ORDER : n <= 2 ^ o /\ \A i \in 0 .. o - 1 : n > 2 ^ i

(* The upper halves of a block that is larger than asked for.              *)
RECURSIVE Split(_, _, _, _)
Split(b, p, cur, order) ==
    IF cur = order THEN b ELSE Split(Link(b, p + 2 ^ (cur - 1), cur - 1), p, cur - 1, order)

\* Mutant of page_is_buddy: a free buddy of any order is merged.
MutIsBuddy(b, p, order, z) == p < NPAGE /\ p \in Usable /\ Zone(p) = z /\ b.property[p] >= 0

page_is_buddy(b, p, order, z) == p < NPAGE /\ p \in Usable /\ Zone(p) = z /\ b.property[p] = order

(* buddy_idx is page_idx ^ (1 << order): page_idx is a multiple of it.     *)
RECURSIVE Coalesce(_, _, _, _)
Coalesce(b, idx, order, z) ==
    LET size == 2 ^ order
        buddy_idx == IF (idx \div size) % 2 = 0 THEN idx + size ELSE idx - size
        buddy == Zones[z].base + buddy_idx
    IN  IF order < MAX_ORDER /\ page_is_buddy(b, buddy, order, z)
        THEN Coalesce(Unlink(b, buddy, order), IF idx < buddy_idx THEN idx ELSE buddy_idx, order + 1, z)
        ELSE Link(b, Zones[z].base + idx, order)

buddy_free_pages_sub(b, base, order) ==
    LET asserts == /\ page2idx(base) % 2 ^ order = 0
                   /\ \A p \in base .. base + 2 ^ order - 1 : p \in Usable /\ b.property[p] = -1
    IN  Coalesce([b EXCEPT !.ok = @ /\ asserts], page2idx(base), order, Zone(base))

(* First the low set bits of the address, then the high bits of the size.  *)
RECURSIVE FreeDown(_, _, _, _)
FreeDown(b, base, n, order) ==
    IF n = 0 THEN b
    ELSE IF n < 2 ^ order THEN FreeDown(b, base, n, order - 1)
    ELSE FreeDown(buddy_free_pages_sub(b, base, order), base + 2 ^ order, n - 2 ^ order, order)

RECURSIVE FreeUp(_, _, _, _)
FreeUp(b, base, n, order) ==
    IF n < 2 ^ order THEN FreeDown(b, base, n, order)
    ELSE IF (page2idx(base) \div 2 ^ order) % 2 # 0
    THEN FreeUp(buddy_free_pages_sub([b EXCEPT !.ok = @ /\ order <= MAX_ORDER], base, order),
                base + 2 ^ order, n - 2 ^ order, order + 1)
    ELSE FreeUp([b EXCEPT !.ok = @ /\ order <= MAX_ORDER], base, n, order + 1)

buddy_free_pages(b, base, n) ==
    IF n = 1 THEN buddy_free_pages_sub(b, base, 0) ELSE FreeUp(b, base, n, 0)

(* The tail of the block beyond the n pages asked for is freed again.      *)
buddy_alloc_pages(n) ==
    LET order == getorder(n)
        fit == {o \in order .. MAX_ORDER : pmm.free_list[o] # <<>>}
        cur == CHOOSE o \in fit : \A i \in fit : o <= i
        page == Head(pmm.free_list[cur])
        taken == Split(Unlink(pmm, page, cur), page, cur, order)
    IN  /\ fit # {}
        /\ held' = held \cup {[base |-> page, n |-> n]}
        /\ pmm' = IF n = 2 ^ order THEN taken ELSE buddy_free_pages(taken, page + n, 2 ^ order - n)

(* A caller frees the last k pages of what it holds, all of it included.   *)
free_pages(h, k) ==
    /\ h \in held /\ k <= h.n
    /\ pmm' = buddy_free_pages(pmm, h.base + h.n - k, k)
    /\ held' = (held \ {h}) \cup IF k = h.n THEN {} ELSE {[base |-> h.base, n |-> h.n - k]}

BuddyNext ==
    \/ \E n \in Sizes : buddy_alloc_pages(n)
    \/ \E h \in held : \E k \in 1 .. h.n : free_pages(h, k)

BuddySpec == BuddyInit /\ [][BuddyNext]_buddyVars

buddy_nr_free_pages(b) ==
    LET Total[o \in -1 .. MAX_ORDER] == IF o = -1 THEN 0 ELSE Total[o - 1] + b.nr_free[o] * 2 ^ o
    IN  Total[MAX_ORDER]

(* Every page of a zone is either allocated once or in one free block,     *)
(* nr_free_pages counts the free ones, and free buddies are merged: an     *)
(* allocation fails only when no aligned block of its order is free.       *)
BuddyOk ==
    LET Span(p, n) == p .. p + n - 1
        taken == UNION {Span(h.base, h.n) : h \in held}
        blocks == {<<p, pmm.property[p]>> : p \in {q \in Pages : pmm.property[q] >= 0}}
    IN  /\ pmm.ok
        /\ \A o \in 0 .. MAX_ORDER :
            /\ {pmm.free_list[o][i] : i \in DOMAIN pmm.free_list[o]} = {b[1] : b \in {c \in blocks : c[2] = o}}
            /\ Len(pmm.free_list[o]) = pmm.nr_free[o]
        /\ \A b \in blocks :
            /\ Span(b[1], 2 ^ b[2]) \subseteq InZone(Zone(b[1])) \ taken
            /\ page2idx(b[1]) % 2 ^ b[2] = 0
            /\ \A c \in blocks : b = c \/ Span(b[1], 2 ^ b[2]) \cap Span(c[1], 2 ^ c[2]) = {}
        /\ Cardinality(Usable \ taken) = buddy_nr_free_pages(pmm)
        /\ \A z \in DOMAIN Zones, o \in 0 .. MAX_ORDER, k \in 0 .. NPAGE :
            LET s == Span(Zones[z].base + k * 2 ^ o, 2 ^ o)
            IN  s \subseteq InZone(z) \ taken => \E i \in o .. MAX_ORDER : pmm.nr_free[i] > 0
=============================================================================

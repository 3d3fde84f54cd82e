------------------------------- MODULE Bitmap -------------------------------
(***************************************************************************)
(* The bitmap of kern/fs/sfs/bitmap.c: an array of words of WORD_BITS bits *)
(* in which a set bit is a free index.  A word is the set of its set bits. *)
(***************************************************************************)
EXTENDS Integers, FiniteSets, FiniteSetsExt

CONSTANT WORD_BITS

ASSUME WordBitsAssumption == WORD_BITS \in Nat \ {0}

NoBit == -1

Words(nbits) == 0 .. ((nbits + WORD_BITS - 1) \div WORD_BITS) - 1

bitmap_create(nbits) ==
    [ix \in Words(nbits) |->
        {o \in 0 .. WORD_BITS - 1 : ix * WORD_BITS + o < nbits}]

bitmap_test(map, index) == index % WORD_BITS \in map[index \div WORD_BITS]

bitmap_free(map, index) ==
    [map EXCEPT ![index \div WORD_BITS] = @ \cup {index % WORD_BITS}]

(* The word and the bit that bitmap_alloc's two nested scans stop at.      *)
bitmap_first(map) ==
    LET full == {ix \in DOMAIN map : map[ix] # {}}
    IN  IF full = {} THEN NoBit
        ELSE Min(full) * WORD_BITS + Min(map[Min(full)])

bitmap_alloc(map, index) ==
    [map EXCEPT ![index \div WORD_BITS] = @ \ {index % WORD_BITS}]

bitmap_count(map, nbits) == Cardinality({i \in 0 .. nbits - 1 : bitmap_test(map, i)})
=============================================================================

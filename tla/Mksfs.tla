------------------------------- MODULE Mksfs -------------------------------
(* tools/mksfs.c: the program that makes the disk image.  It walks a       *)
(* directory of the host and gives out the blocks of the image in order.   *)
(* The host is any small tree: directories, files with several names,      *)
(* symbolic links, files to be skipped.  An entry's order in its directory *)
(* is the host's business.                                                 *)
(*                                                                         *)
(* s.own says what each block given out holds; the content of an index     *)
(* block is in s.data, that of an entry in s.own.  A file's size is its    *)
(* number of blocks.  s.ok is FALSE once an assertion failed.              *)
EXTENDS Integers, Sequences, FiniteSets, SequencesExt

CONSTANTS NINOS,        \* blocks of the image
          BLKBITS,      \* bits in a block of the free map
          NDIRECT,      \* SFS_NDIRECT
          NENTRY,       \* block numbers in an index block
          LN,           \* SFS_LN_NBLKS
          Reals,        \* inode numbers of the host, above 0
          Sizes         \* the sizes of the host's files

VARIABLES host,   \* kind and size of the inodes; entries: <<directory, inode>>
          stack,  \* the calls of open_dir: directory, entries read, entries left
          s,      \* the image being made
          phase   \* "walk", "closed", or "bug": the program gave up

vars == <<host, stack, s, phase>>

FREEMAP == 2

L0 == NDIRECT
L1 == NENTRY + L0
L2 == NENTRY * NENTRY + L1

Kinds == {"dir", "file", "link", "skip"}

\* A tree: a directory has one name, in one that comes before it.  (A second
\* name of a symbolic link becomes a second link: links have one name here.)
Places(kind) == {e \in ({d \in Reals : kind[d] = "dir"} \cup {0}) \X Reals : kind[e[2]] = "dir" => e[1] < e[2]}

Trees(kind) ==
  {es \in SUBSET Places(kind) :
     \A e, f \in es : e[2] = f[2] /\ kind[e[2]] \in {"dir", "link"} => e = f}

Hosts ==
  UNION {[kind : {kind}, entries : Trees(kind),
          size : {n \in [Reals -> Sizes] : \A r \in Reals : kind[r] # "file" => n[r] = 1}] :
           kind \in [Reals -> Kinds]}

In(h, d) == {e \in h.entries : e[1] = d}

-----------------------------------------------------------------------------
(* Blocks                                                                  *)

\* sfs_alloc_ino: the next block, for the use w.
Give(t, w) ==
  IF t.next < NINOS
  THEN [t EXCEPT !.own = Append(@, w), !.next = @ + 1, !.unused = @ - 1]
  ELSE [t EXCEPT !.full = TRUE]

NewInode(ino, type) ==
  [ino |-> ino, type |-> type, nlinks |-> 0, parent |-> 0, nblks |-> 0,
   direct |-> [i \in 0 .. NDIRECT - 1 |-> 0], indirect |-> 0, db_indirect |-> 0, l1 |-> 0, l2 |-> 0]

\* alloc_cache_inode
alloc_cache_inode(t, r, type) ==
  [Give(t, <<"inode", r>>) EXCEPT !.node[r] = NewInode(t.next, type)]

\* update_cache: the index block ino, made if it is 0; one that is there is
\* the one used last, else search_cache_block is asked, which looks for it in
\* another list than alloc_cache_block put it.
update_cache(t, cached, ino, w) ==
  IF ino = 0
  THEN [t |-> [Give(t, w) EXCEPT !.data = @ @@ (t.next :> [i \in 0 .. NENTRY - 1 |-> 0])],
        ino |-> t.next]
  ELSE [t |-> [t EXCEPT !.ok = @ /\ cached = ino], ino |-> ino]

\* __append_block: block ino becomes the last one of r.
append_block(t, r, ino) ==
  LET n == t.node[r].nblks
      m == n - L1
      one == update_cache(t, t.node[r].l1, t.node[r].indirect, <<"index", r>>)
      two == update_cache(t, t.node[r].l2, t.node[r].db_indirect, <<"index", r>>)
      slot == IF two.t.full THEN 0 ELSE two.t.data[two.ino][m \div NENTRY]
      sub == update_cache(two.t, t.node[r].l1, slot, <<"index", r>>)
      set == IF n < L0 THEN [t EXCEPT !.node[r].direct[n] = ino]
             ELSE IF n < L1
             THEN [one.t EXCEPT !.node[r].indirect = one.ino, !.node[r].l1 = one.ino,
                                !.data[one.ino][n - L0] = ino]
             ELSE [sub.t EXCEPT !.node[r].db_indirect = two.ino, !.node[r].l2 = two.ino,
                                !.node[r].l1 = sub.ino, !.data[two.ino][m \div NENTRY] = sub.ino,
                                !.data[sub.ino][m % NENTRY] = ino]
  IN  IF n >= LN THEN [t EXCEPT !.full = TRUE]
      ELSE IF set.full THEN set ELSE [set EXCEPT !.node[r].nblks = n + 1]

\* A data block of r: given out, written, appended (open_file, open_link).
DataBlock(t, r) ==
  LET g == Give(t, <<"data", r, t.node[r].nblks>>) IN
  IF g.full THEN g ELSE append_block(g, r, t.next)

\* open_file reads the file to its end.
RECURSIVE open_file(_, _, _)
open_file(t, r, n) == IF n = 0 \/ t.full THEN t ELSE open_file(DataBlock(t, r), r, n - 1)

MutAddEntry(t, d, r) ==
  LET g == Give(t, <<"entry", d, r>>) IN
  IF g.full THEN g ELSE append_block(g, d, t.next)

\* add_entry: an entry for r in d, in a block of its own.
add_entry(t, d, r) ==
  LET g == Give(t, <<"entry", d, r>>) IN
  IF g.full THEN g ELSE [append_block(g, d, t.next) EXCEPT !.node[r].nlinks = @ + 1]

\* init_dir_cache_inode: the new directory's own name, and its "..".
init_dir_cache_inode(t, r, parent) ==
  [t EXCEPT !.node[r].nlinks = @ + 1 + (IF r = parent THEN 1 ELSE 0),
            !.node[parent].nlinks = @ + 1,
            !.node[r].parent = t.node[parent].ino]

-----------------------------------------------------------------------------
(* The walk                                                                *)

\* create_sfs: the super block, the root and the free map have their places.
create_sfs ==
  LET next == FREEMAP + (NINOS + BLKBITS - 1) \div BLKBITS
      t == [next |-> next, unused |-> NINOS - next, own |-> [i \in 1 .. next |-> <<"fixed">>],
            node |-> [r \in Reals \cup {0} |-> NewInode(IF r = 0 THEN 1 ELSE 0, "none")],
            data |-> <<>>, full |-> FALSE, ok |-> TRUE, freemap |-> {}]
  IN  [t EXCEPT !.node[0] = [@ EXCEPT !.type = "dir", !.nlinks = 2, !.parent = 1]]

MksfsInit ==
  /\ host \in Hosts
  /\ stack = <<[dir |-> 0, left |-> In(host, 0)]>>
  /\ s = create_sfs
  /\ phase = "walk"

Step(t, e) ==
  /\ s' = t
  /\ phase' = IF t.full THEN "bug" ELSE "walk"
  /\ stack' = [stack EXCEPT ![Len(stack)].left = @ \ {e}]
  /\ UNCHANGED host

Reading(e) == phase = "walk" /\ stack # <<>> /\ e \in Last(stack).left

\* add_file; a second name of a file that is there gets an entry only.
add_file(e) ==
  LET r == e[2]
      new == alloc_cache_inode(s, r, "file")
      t == IF s.node[r].ino # 0 THEN s
           ELSE IF new.full THEN new ELSE open_file(new, r, host.size[r])
  IN  /\ Reading(e) /\ host.kind[r] = "file"
      /\ Step(IF t.full THEN t ELSE add_entry(t, e[1], r), e)

\* add_link: open_link takes its block before it reads the link.
add_link(e) ==
  LET r == e[2]
      new == alloc_cache_inode(s, r, "link")
      t == IF new.full THEN new ELSE DataBlock(new, r)
  IN  /\ Reading(e) /\ host.kind[r] = "link"
      /\ Step(IF t.full THEN t ELSE add_entry(t, e[1], r), e)

\* What open_dir passes over: hidden names, unsupported modes.
skip(e) == Reading(e) /\ host.kind[e[2]] = "skip" /\ Step(s, e)

\* add_dir up to the nested open_dir.
add_dir(e) ==
  LET r == e[2]
      new == alloc_cache_inode(s, r, "dir")
  IN  /\ Reading(e) /\ host.kind[r] = "dir"
      /\ s' = IF new.full THEN new
               ELSE init_dir_cache_inode([new EXCEPT !.ok = @ /\ s.node[r].ino = 0], r, e[1])
      /\ phase' = IF new.full THEN "bug" ELSE "walk"
      /\ stack' = Append([stack EXCEPT ![Len(stack)].left = @ \ {e}],
                         [dir |-> r, left |-> In(host, r)])
      /\ UNCHANGED host

\* The nested open_dir returns: the entry in the parent comes after all that
\* is inside.
dir_done ==
  /\ phase = "walk" /\ Len(stack) > 1 /\ Last(stack).left = {}
  /\ s' = add_entry(s, stack[Len(stack) - 1].dir, Last(stack).dir)
  /\ phase' = IF s'.full THEN "bug" ELSE "walk"
  /\ stack' = Front(stack)
  /\ UNCHANGED host

\* One block of the free map, from bit i: the bits set in it.
FreeBits(i) ==
  IF i + BLKBITS > s.next
  THEN {i + j : j \in (IF i < s.next THEN s.next - i ELSE 0) ..
                      (IF i + BLKBITS > NINOS THEN NINOS - i ELSE BLKBITS) - 1}
  ELSE {}

\* close_sfs writes the free map and what is cached.
close_sfs ==
  /\ phase = "walk" /\ Len(stack) = 1 /\ Last(stack).left = {}
  /\ s' = [s EXCEPT !.freemap = UNION {FreeBits(k * BLKBITS) : k \in 0 .. (NINOS - 1) \div BLKBITS}]
  /\ phase' = "closed"
  /\ stack' = <<>>
  /\ UNCHANGED host

MksfsNext ==
  \/ \E e \in host.entries : add_file(e) \/ add_link(e) \/ skip(e) \/ add_dir(e)
  \/ dir_done
  \/ close_sfs

MksfsSpec == MksfsInit /\ [][MksfsNext]_vars

-----------------------------------------------------------------------------
(* Properties                                                              *)

Made == {r \in Reals \cup {0} : s.node[r].ino # 0}

\* Block i of an inode as sfs_bmap_get of the kernel finds it.
BlockOf(n, i) ==
  IF i < L0 THEN n.direct[i]
  ELSE IF i < L1 THEN s.data[n.indirect][i - L0]
  ELSE s.data[s.data[n.db_indirect][(i - L1) \div NENTRY]][(i - L1) % NENTRY]

What(b) == s.own[b + 1]

Names(r) == {b \in 0 .. s.next - 1 : What(b)[1] = "entry" /\ What(b)[3] = r}

Subdirs(n) == {r \in Made : s.node[r].type = "dir" /\ s.node[r].parent = n.ino}

\* The types of inode that sfs_get_ops of the kernel has operations for; it
\* panics on any other.
KernelTypes == {"file", "dir"}

\* Does not hold: the kernel can load every inode of a finished image.  A
\* symbolic link of the host becomes an inode of SFS_TYPE_LINK, and a lookup
\* that meets it panics in sfs_get_ops.
LinksLoad == phase = "closed" => \A r \in Made : s.node[r].type \in KernelTypes

\* A finished image accounts for its blocks and names: superblock and free map
\* agree and mark exactly the blocks given out as used (the assertion of
\* sfs_do_mount); every inode's blocks are found through its index blocks, in
\* order, and belong to it alone; a directory has one entry for each name on
\* the host, and link counts are those that unlink and rmdir count on.  The
\* inodes are of types the kernel loads, except those of symbolic links.
ImageOk ==
  /\ s.ok
  /\ phase = "closed" =>
       /\ s.freemap = s.next .. NINOS - 1 /\ Cardinality(s.freemap) = s.unused
       /\ \A r \in Made :
            LET n == s.node[r]
                blocks == {BlockOf(n, i) : i \in 0 .. n.nblks - 1}
            IN  /\ r # 0 => What(n.ino) = <<"inode", r>>
                /\ Cardinality(blocks) = n.nblks
                /\ n.type # "dir" => \A i \in 0 .. n.nblks - 1 : What(BlockOf(n, i)) = <<"data", r, i>>
                /\ n.type = "file" => n.nblks = host.size[r]
                /\ n.type \notin KernelTypes => host.kind[r] = "link"
                /\ n.type = "dir" =>
                     /\ \A b \in blocks : What(b)[1] = "entry" /\ What(b)[2] = r
                     /\ {What(b)[3] : b \in blocks} =
                          {e[2] : e \in {f \in In(host, r) : host.kind[f[2]] # "skip"}}
                /\ n.nlinks = Cardinality(Names(r)) + (IF n.type = "dir" THEN 1 + Cardinality(Subdirs(n)) ELSE 0)

=============================================================================

------------------------------ MODULE SfsFile -------------------------------
(***************************************************************************)
(* The blocks of an SFS volume (kern/fs/sfs): the free map, the block map  *)
(* of an inode (direct, indirect and doubly indirect entries), reading,    *)
(* writing, seeking and truncating a file, and the life of an inode from   *)
(* creation through fsync, unlink, reclaim and reload to the next mount.   *)
(*                                                                         *)
(* None of these routines sleeps (the disk driver polls and no buffer is   *)
(* allocated), so each is one step.  It is an operator on the record fs;   *)
(* a result is [s, ret, ...], s being fs after the call.  fs.io counts the *)
(* device transfers until one fails, and is below 0 once one has; fs.panic *)
(* names a failed assertion.  Every byte written is another one: it tells  *)
(* the call and the position it was written to.                            *)
(***************************************************************************)
EXTENDS Bitmap, Sequences, SequencesExt

CONSTANTS
    NBlocks,         \* super.blocks
    NReserved,       \* super block, root inode and free map
    NDIRECT,         \* SFS_NDIRECT
    NENTRY,          \* SFS_BLK_NENTRY
    BLKSIZE,         \* SFS_BLKSIZE
    MAX_FILE_SIZE,   \* SFS_MAX_FILE_SIZE
    Names,           \* the names of the files
    Lengths,         \* the lengths of the writes
    Seeks,           \* the positions sought
    MaxCalls,        \* bound: the calls made on the volume
    Faults           \* which transfer of a call fails; NoFault for none

VARIABLES
    fs,              \* the volume: memory and disk
    fpos,            \* the position of the descriptor open on each file
    content,         \* history: what a reader of each file must find
    calls,           \* how many calls have been made
    failed,          \* history: some call has failed
    torn             \* history: the files whose truncation failed half way

sfsVars == <<fs, fpos, content, calls, failed, torn>>

NoFault == 99
NoFile == [ino |-> 0]
Blocks == 0 .. NBlocks - 1
Inodes == NReserved .. NBlocks - 1
Zeros == [i \in 0 .. NENTRY - 1 |-> 0]
Junk == [i \in 0 .. NENTRY - 1 |-> -1]
RoundUpDiv(a, n) == (a + n - 1) \div n

NewDin == [nlinks |-> 0, size |-> 0, blocks |-> 0,
           direct |-> [i \in 0 .. NDIRECT - 1 |-> 0], indirect |-> 0, db_indirect |-> 0]

Check(s, cond, name) == IF cond \/ s.panic # "" THEN s ELSE [s EXCEPT !.panic = name]

----------------------------------------------------------------------------
(* Results are records with the new state s, the error ret and what the    *)
(* function returns by reference.  Then is the `if (ret != 0) return ret'  *)
(* after a call.                                                           *)

Given(r, Op(_)) == Op(r)
Then(r, Op(_)) == IF r.ret # "ok" THEN r ELSE Op(r)

----------------------------------------------------------------------------
(* sfs_io.c: one transfer for a whole block or a read, two for a partial   *)
(* write, which reads the block first.                                     *)

Transfer(s, n) == [s EXCEPT !.io = @ - n]
InRange(s, b) == Check(s, b \in Blocks \ {0}, "range")

sfs_rbuf(s, b) ==
    [s |-> Transfer(InRange(s, b), 1), ret |-> IF s.io = 0 THEN "IO" ELSE "ok", ino |-> b]

sfs_store(s, n, b, data) ==
    IF s.io \in 0 .. n - 1
    THEN [s |-> Transfer(InRange(s, b), s.io + 1), ret |-> "IO", ino |-> b]
    ELSE [s |-> [Transfer(InRange(s, b), n) EXCEPT !.disk[b] = data], ret |-> "ok", ino |-> b]

sfs_wblock(s, b, data) == sfs_store(s, 1, b, data)

sfs_wbuf(s, b, lo, data) ==
    sfs_store(s, 2, b, [i \in 0 .. NENTRY - 1 |->
        IF i - lo \in 0 .. Len(data) - 1 THEN data[i - lo + 1] ELSE s.disk[b][i]])

sfs_clear_block(s, b) == sfs_wblock(s, b, Zeros)

----------------------------------------------------------------------------
(* Blocks.  A block whose clearing fails stays allocated, as in the code:  *)
(* it goes to lost, a history.  What a free block last held is not kept:   *)
(* it holds Junk.                                                          *)

sfs_block_inuse(s, b) == b \in Blocks \ {0} /\ ~ bitmap_test(s.map, b)

sfs_block_alloc(s) == Given(bitmap_first(s.map), LAMBDA b :
    IF b = NoBit THEN [s |-> s, ret |-> "NO_MEM", ino |-> 0]
    ELSE Given(sfs_clear_block(
                  Check([s EXCEPT !.map = bitmap_alloc(@, b), !.unused = @ - 1, !.dirty = TRUE],
                        s.unused > 0, "unused"), b), LAMBDA c :
            [c EXCEPT !.s.lost = IF c.ret = "ok" THEN @ ELSE @ \cup {b}]))

sfs_block_free(s, b) ==
    IF s.panic # "" \/ ~ sfs_block_inuse(s, b) THEN Check(s, FALSE, "inuse")
    ELSE [s EXCEPT !.map = bitmap_free(@, b), !.unused = @ + 1, !.dirty = TRUE,
                   !.disk[b] = Junk, !.dino[b] = NewDin]

FreeIf(cond, s, b) == IF cond THEN sfs_block_free(s, b) ELSE s

----------------------------------------------------------------------------
(* The block map.  sfs_bmap_get_sub also returns the entry block ent,      *)
(* which it allocates when there was none and gives back when a later step *)
(* fails.                                                                  *)

Sub(s, ret, ent, ino) == [s |-> s, ret |-> ret, ent |-> ent, ino |-> ino]


EnterNew(s, ent0, ent, index) == Given(sfs_block_alloc(s), LAMBDA b :
    IF b.ret # "ok" THEN Sub(FreeIf(ent0 = 0, b.s, ent), b.ret, ent0, 0)
    ELSE Given(sfs_wbuf(b.s, ent, index, <<b.ino>>), LAMBDA w :
        IF w.ret = "ok" THEN Sub(w.s, "ok", ent, b.ino)
        ELSE Sub(FreeIf(ent0 = 0, sfs_block_free(w.s, b.ino), ent), w.ret, ent0, 0)))

sfs_bmap_get_sub(s, ent0, index, create) ==
    IF ent0 # 0
    THEN Given(sfs_rbuf(s, ent0), LAMBDA r :
            IF r.ret # "ok" THEN Sub(r.s, r.ret, ent0, 0)
            ELSE IF s.disk[ent0][index] # 0 \/ ~ create
            THEN Sub(r.s, "ok", ent0, s.disk[ent0][index])
            ELSE EnterNew(r.s, ent0, ent0, index))
    ELSE IF ~ create THEN Sub(s, "ok", 0, 0)
    ELSE Given(sfs_block_alloc(s), LAMBDA e :
            IF e.ret # "ok" THEN Sub(e.s, e.ret, 0, 0) ELSE EnterNew(e.s, 0, e.ino, index))

(* The result adds sin, the in-memory inode with its map and dirty bit.    *)
Mapped(r, sin, din) ==
    [s |-> Check(r.s, r.ino = 0 \/ sfs_block_inuse(r.s, r.ino), "inuse"), ret |-> r.ret,
     ino |-> r.ino, sin |-> [sin EXCEPT !.din = din, !.dirty = @ \/ din # sin.din]]

sfs_bmap_get(s, sin, index, create) ==
    LET din == sin.din
        i2 == index - NDIRECT - NENTRY
    IN  CASE index < NDIRECT ->
                IF din.direct[index] # 0 \/ ~ create
                THEN Mapped(Sub(s, "ok", 0, din.direct[index]), sin, din)
                ELSE Given(sfs_block_alloc(s), LAMBDA a :
                        IF a.ret # "ok" THEN Mapped(Sub(a.s, a.ret, 0, 0), sin, din)
                        ELSE Mapped(a, sin, [din EXCEPT !.direct[index] = a.ino]))
          [] index >= NDIRECT /\ i2 < 0 ->
                Given(sfs_bmap_get_sub(s, din.indirect, index - NDIRECT, create), LAMBDA r :
                    Mapped(r, sin, [din EXCEPT !.indirect = r.ent]))
          [] OTHER ->
                Given(sfs_bmap_get_sub(s, din.db_indirect, i2 \div NENTRY, create), LAMBDA r :
                    Mapped(IF r.ret # "ok" \/ r.ino = 0 THEN [r EXCEPT !.ino = 0]
                           ELSE sfs_bmap_get_sub(r.s, r.ino, i2 % NENTRY, create),
                           sin, [din EXCEPT !.db_indirect = r.ent]))

sfs_bmap_free_sub(s, ent, index) ==
    Then(sfs_rbuf(Check(s, sfs_block_inuse(s, ent), "inuse"), ent), LAMBDA r :
        IF s.disk[ent][index] = 0 THEN r
        ELSE Then(sfs_wbuf(r.s, ent, index, <<0>>), LAMBDA w :
                [w EXCEPT !.s = sfs_block_free(@, s.disk[ent][index])]))

sfs_bmap_free(s, sin, index) ==
    LET din == sin.din
        i2 == index - NDIRECT - NENTRY
        Keep(r) == [s |-> r.s, ret |-> r.ret, sin |-> sin]
    IN  CASE index < NDIRECT /\ din.direct[index] # 0 ->
                [s |-> sfs_block_free(s, din.direct[index]), ret |-> "ok",
                 sin |-> [sin EXCEPT !.din.direct[index] = 0, !.dirty = TRUE]]
          [] index >= NDIRECT /\ i2 < 0 /\ din.indirect # 0 ->
                Keep(sfs_bmap_free_sub(s, din.indirect, index - NDIRECT))
          [] i2 >= 0 /\ din.db_indirect # 0 ->
                Keep(Then(sfs_bmap_get_sub(s, din.db_indirect, i2 \div NENTRY, FALSE), LAMBDA r :
                        IF r.ino = 0 THEN r ELSE sfs_bmap_free_sub(r.s, r.ino, i2 % NENTRY)))
          [] OTHER -> [s |-> s, ret |-> "ok", sin |-> sin]

sfs_bmap_load(s, sin, index) ==
    IF s.panic # "" \/ index > sin.din.blocks
    THEN [s |-> Check(s, FALSE, "bmap_load"), ret |-> "panic", ino |-> 0, sin |-> sin]
    ELSE Then(sfs_bmap_get(s, sin, index, index = sin.din.blocks), LAMBDA r :
            [r EXCEPT !.s = Check(@, sfs_block_inuse(@, r.ino), "inuse"),
                      !.sin.din.blocks = IF index = sin.din.blocks THEN @ + 1 ELSE @])

sfs_bmap_truncate(s, sin) ==
    Then(sfs_bmap_free(s, sin, sin.din.blocks - 1), LAMBDA r :
        [r EXCEPT !.sin.din.blocks = @ - 1, !.sin.dirty = TRUE])

----------------------------------------------------------------------------
(* Reading and writing.  The loop goes block by block: a partial first     *)
(* block, whole blocks, a partial last one.  v is the number of the call   *)
(* that writes, 0 for a read.  end is the position reached, data what was  *)
(* read.                                                                   *)

Byte(v, pos) == MAX_FILE_SIZE * v + pos

IoBlock(l, r, size, v) ==
    LET off == r.end % BLKSIZE
        Moved(w, end, got) == [s |-> w.s, sin |-> l.sin, ret |-> w.ret, end |-> end,
                               data |-> r.data \o got]
    IN  IF l.ret # "ok" THEN Moved(l, r.end, <<>>)
        ELSE Given(CASE v = 0 -> sfs_rbuf(l.s, l.ino)
                     [] v # 0 /\ size = BLKSIZE ->
                            sfs_wblock(l.s, l.ino, [i \in 0 .. NENTRY - 1 |-> Byte(v, r.end + i)])
                     [] OTHER -> sfs_wbuf(l.s, l.ino, off, [i \in 1 .. size |-> Byte(v, r.end + i - 1)]),
                   LAMBDA w :
                     IF w.ret # "ok" THEN Moved(w, r.end, <<>>)
                     ELSE Moved(w, r.end + size, IF v # 0 THEN <<>>
                              ELSE [i \in 1 .. size |-> l.s.disk[l.ino][off + i - 1]]))

RECURSIVE IoLoop(_, _, _)
IoLoop(r, endpos, v) ==
    IF r.ret # "ok" \/ r.end = endpos THEN r
    ELSE IoLoop(IoBlock(sfs_bmap_load(r.s, r.sin, r.end \div BLKSIZE), r,
                        Min({BLKSIZE - (r.end % BLKSIZE), endpos - r.end}), v), endpos, v)

Io(s, sin, ret, offset) == [s |-> s, sin |-> sin, ret |-> ret, end |-> offset, data |-> <<>>]

\* Mutant of sfs_io_nolock: a longer file is not marked dirty.
MutIo(s, sin, offset, len, v) ==
    LET cut == Min({offset + len, MAX_FILE_SIZE})
        endpos == IF v = 0 THEN Min({cut, sin.din.size}) ELSE cut
    IN  IF offset >= MAX_FILE_SIZE \/ len = 0 \/ (v = 0 /\ offset >= sin.din.size)
        THEN Io(s, sin, "ok", offset)
        ELSE Given(IoLoop(Io(s, sin, "ok", offset), endpos, v), LAMBDA r :
                [r EXCEPT !.sin.din.size = Max({@, r.end})])

sfs_io_nolock(s, sin, offset, len, v) ==
    LET cut == Min({offset + len, MAX_FILE_SIZE})
        endpos == IF v = 0 THEN Min({cut, sin.din.size}) ELSE cut
    IN  CASE offset >= MAX_FILE_SIZE -> Io(s, sin, "INVAL", offset)
          [] offset < MAX_FILE_SIZE /\ (len = 0 \/ (v = 0 /\ offset >= sin.din.size)) ->
                Io(s, sin, "ok", offset)
          [] OTHER -> Given(IoLoop(Io(s, sin, "ok", offset), endpos, v), LAMBDA r :
                IF r.end > r.sin.din.size
                THEN [r EXCEPT !.sin.din.size = r.end, !.sin.dirty = TRUE]
                ELSE r)

(* The loops of sfs_truncfile and of sfs_reclaim.                          *)
RECURSIVE Grow(_, _)
Grow(r, tblks) ==
    IF r.ret # "ok" \/ r.sin.din.blocks >= tblks THEN r
    ELSE Grow(sfs_bmap_load(r.s, r.sin, r.sin.din.blocks), tblks)

RECURSIVE Shrink(_, _)
Shrink(r, tblks) ==
    IF r.ret # "ok" \/ r.sin.din.blocks <= tblks THEN r
    ELSE Shrink(sfs_bmap_truncate(r.s, r.sin), tblks)

sfs_truncfile(s, sin, len) ==
    LET tblks == RoundUpDiv(len, BLKSIZE)
        old == [s |-> s, sin |-> sin, ret |-> "ok"]
    IN  IF sin.din.size = len
        THEN [old EXCEPT !.s = Check(s, tblks = sin.din.blocks, "truncfile")]
        ELSE Then(Shrink(Grow(old, tblks), tblks), LAMBDA r :
                [r EXCEPT !.sin.din.size = len, !.sin.dirty = TRUE])

sfs_tryseek(s, sin, pos) ==
    IF pos >= MAX_FILE_SIZE THEN [s |-> s, sin |-> sin, ret |-> "INVAL"]
    ELSE IF pos > sin.din.size THEN sfs_truncfile(s, sin, pos)
    ELSE [s |-> s, sin |-> sin, ret |-> "ok"]

----------------------------------------------------------------------------
(* The life of an inode.                                                   *)

sfs_fsync(s, sin) ==
    IF sin.din.nlinks = 0 \/ ~ sin.dirty THEN [s |-> s, sin |-> sin, ret |-> "ok"]
    ELSE IF s.io \in 0 .. 1 THEN [s |-> Transfer(s, s.io + 1), sin |-> sin, ret |-> "IO"]
    ELSE [s |-> [Transfer(s, 2) EXCEPT !.dino[sin.ino] = sin.din],
          sin |-> [sin EXCEPT !.dirty = FALSE], ret |-> "ok"]

(* sfs_reclaim ignores a failed truncation and tries again; the loop runs  *)
(* as many times as the inode had blocks.                                  *)
RECURSIVE ReclaimBlocks(_, _)
ReclaimBlocks(r, nblks) ==
    IF nblks = 0 THEN r ELSE ReclaimBlocks(sfs_bmap_truncate(r.s, r.sin), nblks - 1)

FreeSubs(s, ent) ==
    IF ent = 0 THEN s
    ELSE FoldLeft(LAMBDA t, i : sfs_bmap_free_sub(t, ent, i - 1).s, s, [i \in 1 .. NENTRY |-> i])

FreeInode(s, sin) ==
    FreeIf(sin.din.indirect # 0, sfs_block_free(s, sin.ino), sin.din.indirect)

ReclaimUnlinked(s, sin) ==
    Given(ReclaimBlocks([s |-> s, sin |-> sin], sin.din.blocks), LAMBDA r :
        FreeIf(r.sin.din.db_indirect # 0,
               FreeSubs(FreeInode(r.s, r.sin), r.sin.din.db_indirect), r.sin.din.db_indirect))

----------------------------------------------------------------------------
Cached(n) == fs.sin[n].ino # 0
Running == fs.panic = ""
With(k) == [fs EXCEPT !.io = k]
Done(s) == [s EXCEPT !.io = NoFault]
Put(s, n, sin) == Done([s EXCEPT !.sin[n] = sin])
FreshMap == [ix \in Words(NBlocks) |-> {o \in 0 .. WORD_BITS - 1 : ix * WORD_BITS + o \in Inodes}]

(* Every block a file references, with the path to the reference: 0 the    *)
(* inode, 1 the direct, 2 the indirect and 3 the doubly indirect blocks.   *)
Refs(n) ==
    LET sin == IF Cached(n) THEN fs.sin[n]
               ELSE [ino |-> fs.dir[n], din |-> fs.dino[fs.dir[n]]]
        Subs(p, e) == IF e = 0 THEN {} ELSE {<<Append(p, i), fs.disk[e][i]>> : i \in 0 .. NENTRY - 1}
        subs == Subs(<<3>>, sin.din.db_indirect)
    IN  IF ~ Cached(n) /\ fs.dir[n] = 0 THEN {}
        ELSE {<<<<0>>, sin.ino>>, <<<<2>>, sin.din.indirect>>, <<<<3>>, sin.din.db_indirect>>}
             \cup {<<<<1, i>>, sin.din.direct[i]>> : i \in 0 .. NDIRECT - 1}
             \cup Subs(<<2>>, sin.din.indirect)
             \cup subs
             \cup UNION {Subs(r[1], r[2]) : r \in subs}

SfsFileInit ==
    /\ fs = [map |-> FreshMap, unused |-> NBlocks - NReserved, dirty |-> FALSE,
             disk |-> [b \in Blocks |-> Junk], dino |-> [b \in Blocks |-> NewDin],
             dsuper |-> [map |-> FreshMap, unused |-> NBlocks - NReserved],
             sin |-> [n \in Names |-> NoFile], dir |-> [n \in Names |-> 0],
             io |-> NoFault, panic |-> "", lost |-> {}]
    /\ fpos = [n \in Names |-> 0]
    /\ content = [n \in Names |-> <<>>]
    /\ calls = 0
    /\ failed = FALSE
    /\ torn = {}

Result(ret) == failed' = (failed \/ ret # "ok")

(* sfs_dirent_create_inode and the link that names the inode.              *)
Create(n) == \E k \in Faults :
    LET r == sfs_block_alloc(With(k)) IN
    /\ Running /\ fs.dir[n] = 0 /\ ~ Cached(n)
    /\ Result(r.ret)
    /\ fs' = IF r.ret # "ok" THEN Done(r.s)
             ELSE Put([r.s EXCEPT !.dir[n] = r.ino], n,
                      [ino |-> r.ino, din |-> [NewDin EXCEPT !.nlinks = 1], dirty |-> TRUE])
    /\ fpos' = [fpos EXCEPT ![n] = 0]
    /\ content' = [content EXCEPT ![n] = <<>>]
    /\ torn' = torn \ {n}

Zero(bytes, len) == [i \in 1 .. len |-> IF i <= Len(bytes) THEN bytes[i] ELSE 0]

(* The descriptor's position is where its last seek or write left it,      *)
(* whatever the other descriptors of the file have done since.             *)
Write(n) == \E k \in Faults, len \in Lengths :
    LET r == sfs_io_nolock(With(k), fs.sin[n], fpos[n], len, calls + 1)
        old == Zero(content[n], Max({Len(content[n]), r.sin.din.size}))
    IN  /\ Running /\ Cached(n)
        /\ Result(r.ret)
        /\ fs' = Put(r.s, n, r.sin)
        /\ fpos' = [fpos EXCEPT ![n] = r.end]
        /\ content' = [content EXCEPT ![n] =
               [i \in DOMAIN old |-> IF i \in fpos[n] + 1 .. r.end THEN Byte(calls + 1, i - 1) ELSE old[i]]]
        /\ UNCHANGED torn

(* lseek beyond the end lengthens the file.                                *)
Seek(n) == \E k \in Faults, to \in Seeks :
    LET r == sfs_tryseek(With(k), fs.sin[n], to)
    IN  /\ Running /\ Cached(n)
        /\ Result(r.ret)
        /\ fs' = Put(r.s, n, r.sin)
        /\ fpos' = [fpos EXCEPT ![n] = IF r.ret = "ok" THEN to ELSE @]
        /\ content' = [content EXCEPT ![n] =
               IF r.ret = "ok" THEN Zero(@, Max({Len(@), to})) ELSE @]
        /\ UNCHANGED torn

(* Opening the file with O_TRUNC on another descriptor.                    *)
Truncate(n) == \E k \in Faults :
    LET r == sfs_truncfile(With(k), fs.sin[n], 0)
    IN  /\ Running /\ Cached(n)
        /\ Result(r.ret)
        /\ fs' = Put(r.s, n, r.sin)
        /\ content' = [content EXCEPT ![n] = IF r.ret # "ok" THEN @ ELSE <<>>]
        /\ torn' = IF r.ret # "ok" THEN torn \cup {n} ELSE torn \ {n}
        /\ UNCHANGED fpos

(* fsync, and the last close.                                              *)
Close(n) == \E k \in Faults :
    LET r == sfs_fsync(With(k), fs.sin[n])
    IN  /\ Running /\ Cached(n)
        /\ Result(r.ret)
        /\ fs' = Put(r.s, n, r.sin)
        /\ UNCHANGED <<fpos, content, torn>>

Unlink(n) ==
    /\ Running /\ Cached(n) /\ fs.dir[n] # 0
    /\ fs' = [fs EXCEPT !.dir[n] = 0, !.sin[n].din.nlinks = @ - 1, !.sin[n].dirty = TRUE]
    /\ UNCHANGED <<fpos, content, failed, torn>>

(* What a failed transfer kept sfs_reclaim from freeing is lost.           *)
LoseRest(s, n) ==
    IF s.io >= 0 THEN s
    ELSE [s EXCEPT !.lost = @ \cup {r[2] : r \in {q \in Refs(n) : q[2] # 0 /\ ~ bitmap_test(s.map, q[2])}}]

(* The last reference is gone.                                             *)
Reclaim(n) == \E k \in Faults :
    LET r == sfs_fsync(With(k), fs.sin[n])
        gone == ReclaimUnlinked(With(k), fs.sin[n])
    IN  /\ Running /\ Cached(n)
        /\ IF fs.sin[n].din.nlinks = 0
           THEN fs' = Put(LoseRest(gone, n), n, NoFile) /\ failed' = (failed \/ gone.io < 0)
           ELSE fs' = Put(r.s, n, IF r.ret = "ok" THEN NoFile ELSE r.sin) /\ Result(r.ret)
        /\ UNCHANGED <<fpos, content, torn>>

(* Loading the inode again: its two allocations and the read may fail.     *)
sfs_load_inode(n) ==
    LET din == fs.dino[fs.dir[n]]
        s == Check([fs EXCEPT !.sin[n] = [ino |-> fs.dir[n], din |-> din, dirty |-> FALSE]],
                   sfs_block_inuse(fs, fs.dir[n]), "inuse")
    IN  /\ Running /\ ~ Cached(n) /\ fs.dir[n] # 0
        /\ \/ fs' = Check(s, din.nlinks # 0, "nlinks") /\ fpos' = [fpos EXCEPT ![n] = 0] /\ UNCHANGED failed
           \/ Result("NO_MEM") /\ UNCHANGED <<fs, fpos>>
           \/ Result("IO") /\ fs' = [fs EXCEPT !.panic = s.panic] /\ UNCHANGED fpos
        /\ UNCHANGED <<content, torn>>

(* sfs_sync: the inodes that are cached, whatever becomes of their writes, *)
(* then the super block and the free map, each one transfer.               *)
SyncInodes(s, order) ==
    FoldLeft(LAMBDA t, n : Given(sfs_fsync(t, t.sin[n]), LAMBDA r : [r.s EXCEPT !.sin[n] = r.sin]), s, order)

sfs_sync == \E k \in Faults, order \in SetToSeqs({n \in Names : Cached(n)}) :
    LET s == SyncInodes(With(k), order) IN
    /\ Running
    /\ failed' = (failed \/ s.io < 0 \/ (s.dirty /\ s.io \in 0 .. 1))
    /\ fs' = Done(CASE ~ s.dirty \/ s.io = 0 -> s
                    [] s.dirty /\ s.io = 1 -> [s EXCEPT !.dsuper.unused = s.unused]
                    [] OTHER -> [s EXCEPT !.dirty = FALSE,
                                          !.dsuper = [map |-> s.map, unused |-> s.unused]])
    /\ UNCHANGED <<fpos, content, torn>>

(* sfs_unmount and the next sfs_do_mount, which recounts the free map.     *)
Remount ==
    /\ Running /\ \A n \in Names : ~ Cached(n)
    /\ ~ fs.dirty
    /\ fs' = Check([fs EXCEPT !.map = fs.dsuper.map, !.unused = fs.dsuper.unused],
                   bitmap_count(fs.dsuper.map, NBlocks) = fs.dsuper.unused, "mount")
    /\ UNCHANGED <<fpos, content, failed, torn>>

SfsFileNext ==
    /\ calls < MaxCalls /\ calls' = calls + 1
    /\ \/ \E n \in Names : \/ Create(n) \/ Write(n) \/ Seek(n) \/ Truncate(n) \/ Close(n)
                           \/ Unlink(n) \/ Reclaim(n) \/ sfs_load_inode(n)
       \/ sfs_sync \/ Remount

SfsFileSpec == SfsFileInit /\ [][SfsFileNext]_sfsVars

----------------------------------------------------------------------------
Owned == {r \in UNION {{<<n, p[1], p[2]>> : p \in Refs(n)} : n \in Names} : r[3] # 0}
InUse == {b \in Inodes : ~ bitmap_test(fs.map, b)}

(* No block is ever referenced twice, by two files or twice by one, none   *)
(* is referenced while the free map calls it free, and unused_blocks is    *)
(* the number of free blocks, also after failed transfers and a full disk  *)
(* (sfs_bmap_get_sub_nolock and its cleanup, sfs_reclaim).                 *)
BlocksOwnedOnce ==
    Running => /\ \A r, q \in Owned : r[3] = q[3] => r = q
               /\ {r[3] : r \in Owned} \subseteq InUse
               /\ fs.unused = bitmap_count(fs.map, NBlocks)

(* A block in use that no file references is one that sfs_block_alloc took *)
(* and could not clear (sfs_inode.c:81), or one that sfs_reclaim could not *)
(* free because a transfer failed (sfs_inode.c:1037, 1058).  Whatever else *)
(* fails, sfs_bmap_get_sub_nolock gives back what it allocated, and a full *)
(* disk costs nothing.                                                     *)
OnlyTheseLost ==
    Running => InUse = {r[3] : r \in Owned} \cup fs.lost /\ {r[3] : r \in Owned} \cap fs.lost = {}

(* A read of a whole file returns what was last written to it, and zeros   *)
(* where only a seek has been, also after calls that failed for want of    *)
(* space or in a transfer, and after the inode was written back, reclaimed *)
(* and loaded again (sfs_io_nolock, the dirty bit of sfs_fsync).  A read   *)
(* allocates where a failed write has moved the end beyond the last block, *)
(* and returns a prefix if it cannot.  A file whose truncation failed half *)
(* way is out until the next that succeeds.                                *)
ReadsBack ==
    Running => \A n \in Names \ torn : Cached(n) =>
        LET r == sfs_io_nolock(fs, fs.sin[n], 0, MAX_FILE_SIZE, 0) IN
        /\ r.s.panic = "" /\ IsPrefix(r.data, content[n])
        /\ r.ret = "ok" => r.data = content[n]

(* Of the assertions, as long as no call fails, only that of               *)
(* sfs_bmap_load_nolock can fail (sfs_inode.c:315), for a descriptor whose *)
(* position another one's O_TRUNC left behind the end of the file; after a *)
(* failed call also that of sfs_truncfile (sfs_inode.c:1114), and no other *)
(* one: none of sfs_block_free, sfs_load_inode and sfs_do_mount.           *)
AssertsThatFail ==
    \/ fs.panic = "" \/ (failed /\ fs.panic \in {"bmap_load", "truncfile"})
    \/ fs.panic = "bmap_load" /\ \E n \in Names : Cached(n) /\ fpos[n] > fs.sin[n].din.size

(* False, see README "Known to fail".                                      *)
BmapAssert == fs.panic # "bmap_load"
=============================================================================

----------------------------------- MODULE MCFs -----------------------------------
(***************************************************************************)
(* Files and what stands behind them.  The first state picks one of nine   *)
(* instances: descriptors, the names and the bytes of kernel pipes, the    *)
(* pipe of the user library, keyboard and stdin, the screen, mounting and  *)
(* shutting down, the blocks and bytes of a volume, and the making of an   *)
(* image.                                                                  *)
(***************************************************************************)
EXTENDS Integers, TLC, Bitmap

CONSTANTS p1, p2, p3, f1, f2

VARIABLES part, fs, node, fsOf, loc, ok, state, end, held, sem, ploc, pkilled, pok, ustate,
          isclosed, spipe_sem, uloc, bad, kbd, shift, cons, stdin, rd, killed, crt_pos, hist, phase,
          vdev, disk, sfs, bootfs, cwd, live, at, ref, vfs, fpos, content, calls, failed, torn,
          host, stack, img, iphase

PipeUsers == {p1, p2, p3}

FileNames == {f1, f2}

Symmetry == Permutations(PipeUsers) \cup Permutations(FileNames)

F == INSTANCE Files WITH Threads <- 1 .. 2, Tables <- 1 .. 2, NENTRY <- 2, KEPT <- 1,
        Nodes <- 1 .. 2, MaxChunks <- 2
P == INSTANCE Pipe WITH Procs <- PipeUsers, States <- {1}, Ends <- 1 .. 2, Names <- {1},
        NoName <- 0, BUFSIZE <- 2, Counts <- {1}, Flags <- {"", "O_EXCL", "O_APPEND"},
        MaxBytes <- 1, MaxHeld <- 1, MaxKilled <- 0, loc <- ploc, killed <- pkilled, ok <- pok
B == INSTANCE Pipe WITH Procs <- PipeUsers, States <- {1}, Ends <- 1 .. 2, Names <- {},
        NoName <- 0, BUFSIZE <- 2, Counts <- {1, 3}, Flags <- {}, MaxBytes <- 5, MaxHeld <- 1,
        MaxKilled <- 1, loc <- ploc, killed <- pkilled, ok <- pok
U == INSTANCE Spipe WITH Procs <- 1 .. 3, Handle <- <<1, 2, 2>>, SPIPE_BUFSIZE <- 2,
        Lengths <- {1, 3}, MaxBytes <- 5, MaxKills <- 1, state <- ustate, loc <- uloc
C == INSTANCE Console WITH Keys <- {29, 157, 2}, CONSBUFSIZE <- 3, STDIN_BUFSIZE <- 2,
        Readers <- 1 .. 2, Lengths <- {2}, CRT_ROWS <- 2, CRT_COLS <- 2, MaxKeys <- 2,
        MaxChars <- 4
M == INSTANCE VfsMount WITH Procs <- 1 .. 3, init <- 1, NUnused <- 2, NTRIES <- 2, MaxHeld <- 2
V == INSTANCE SfsFile WITH NBlocks <- 11, NReserved <- 3, NDIRECT <- 1, NENTRY <- 2,
        BLKSIZE <- 2, MAX_FILE_SIZE <- 8, Names <- FileNames, Lengths <- {3}, Seeks <- {5},
        Faults <- {99, 3}, MaxCalls <- 6, fs <- vfs
I == INSTANCE Mksfs WITH NINOS <- 20, BLKBITS <- 8, NDIRECT <- 1, NENTRY <- 2, LN <- 7,
        Reals <- 1 .. 3, Sizes <- {0, 1, 6}, s <- img, phase <- iphase

\* The variables of an instance, and their value while another one runs.
filesVars == <<fs, node, fsOf, loc, ok>>
filesOff == fs = 0 /\ node = 0 /\ fsOf = 0 /\ loc = 0 /\ ok = 0
pipeVars == <<state, end, held, sem, ploc, pkilled, pok>>
pipeOff == state = 0 /\ end = 0 /\ held = 0 /\ sem = 0 /\ ploc = 0 /\ pkilled = 0 /\ pok = 0
spipeVars == <<ustate, isclosed, spipe_sem, uloc, bad>>
spipeOff == ustate = 0 /\ isclosed = 0 /\ spipe_sem = 0 /\ uloc = 0 /\ bad = 0
consoleVars == <<kbd, shift, cons, stdin, rd, killed, crt_pos, hist>>
consoleOff == kbd = 0 /\ shift = 0 /\ cons = 0 /\ stdin = 0 /\ rd = 0 /\ killed = 0 /\
        crt_pos = 0 /\ hist = 0
mountVars == <<phase, vdev, disk, sfs, bootfs, cwd, live, at, ref>>
mountOff == phase = 0 /\ vdev = 0 /\ disk = 0 /\ sfs = 0 /\ bootfs = 0 /\ cwd = 0 /\ live = 0 /\
        at = 0 /\ ref = 0
volumeVars == <<vfs, fpos, content, calls, failed, torn>>
volumeOff == vfs = 0 /\ fpos = 0 /\ content = 0 /\ calls = 0 /\ failed = 0 /\ torn = 0
imageVars == <<host, stack, img, iphase>>
imageOff == host = 0 /\ stack = 0 /\ img = 0 /\ iphase = 0

Init ==
    \/ /\ part = "files" /\ F!FilesInit
       /\ pipeOff /\ spipeOff /\ consoleOff /\ mountOff /\ volumeOff /\ imageOff
    \/ /\ part = "pipe" /\ P!PipeInit
       /\ filesOff /\ spipeOff /\ consoleOff /\ mountOff /\ volumeOff /\ imageOff
    \/ /\ part = "bytes" /\ B!PipeInit
       /\ filesOff /\ spipeOff /\ consoleOff /\ mountOff /\ volumeOff /\ imageOff
    \/ /\ part = "spipe" /\ U!SpipeInit
       /\ filesOff /\ pipeOff /\ consoleOff /\ mountOff /\ volumeOff /\ imageOff
    \/ /\ part = "console" /\ C!ConsoleInit /\ crt_pos = 0
       /\ filesOff /\ pipeOff /\ spipeOff /\ mountOff /\ volumeOff /\ imageOff
    \/ /\ part = "screen" /\ C!ConsoleInit
       /\ filesOff /\ pipeOff /\ spipeOff /\ mountOff /\ volumeOff /\ imageOff
    \/ /\ part = "mount" /\ M!VfsInit
       /\ filesOff /\ pipeOff /\ spipeOff /\ consoleOff /\ volumeOff /\ imageOff
    \/ /\ part = "volume" /\ V!SfsFileInit
       /\ filesOff /\ pipeOff /\ spipeOff /\ consoleOff /\ mountOff /\ imageOff
    \/ /\ part = "image" /\ I!MksfsInit
       /\ filesOff /\ pipeOff /\ spipeOff /\ consoleOff /\ mountOff /\ volumeOff

Next ==
    /\ UNCHANGED part
    /\ \/ /\ part = "files" /\ F!FilesNext
          /\ UNCHANGED <<pipeVars, spipeVars, consoleVars, mountVars, volumeVars, imageVars>>
       \/ /\ part = "pipe" /\ P!PipeNext
          /\ UNCHANGED <<filesVars, spipeVars, consoleVars, mountVars, volumeVars, imageVars>>
       \/ /\ part = "bytes" /\ B!PipeNext
          /\ UNCHANGED <<filesVars, spipeVars, consoleVars, mountVars, volumeVars, imageVars>>
       \/ /\ part = "spipe" /\ U!SpipeNext
          /\ UNCHANGED <<filesVars, pipeVars, consoleVars, mountVars, volumeVars, imageVars>>
       \/ /\ part = "console" /\ C!InputNext
          /\ UNCHANGED <<filesVars, pipeVars, spipeVars, mountVars, volumeVars, imageVars>>
       \/ /\ part = "screen" /\ C!ScreenNext
          /\ UNCHANGED <<filesVars, pipeVars, spipeVars, mountVars, volumeVars, imageVars>>
       \/ /\ part = "mount" /\ M!VfsNext
          /\ UNCHANGED <<filesVars, pipeVars, spipeVars, consoleVars, volumeVars, imageVars>>
       \/ /\ part = "volume" /\ V!SfsFileNext
          /\ UNCHANGED <<filesVars, pipeVars, spipeVars, consoleVars, mountVars, imageVars>>
       \/ /\ part = "image" /\ I!MksfsNext
          /\ UNCHANGED <<filesVars, pipeVars, spipeVars, consoleVars, mountVars, volumeVars>>

Spec == Init /\ [][Next]_<<part, filesVars, pipeVars, spipeVars, consoleVars, mountVars, volumeVars, imageVars>>

-----------------------------------------------------------------------------
\* The assertions on descriptors and inodes hold, and an inode is open exactly
\* while a descriptor or a call uses it, though threads share descriptors that
\* others close, duplicate and reuse in the middle of a read.
FilesOk == part = "files" => F!FilesAsserts /\ F!InodeCounts

\* No reader or writer of a kernel pipe sleeps for what is there or can no
\* longer come, and a pipe lives as long as one of its ends.
PipeOk == part \in {"pipe", "bytes"} => P!NoStuckPipe /\ P!PipeLifetime

\* The pipe of the user library loses, doubles and reorders nothing.
SpipeOk == part = "spipe" => U!SpipeOk

\* No reader of stdin sleeps while there is a character, the characters come
\* in order and once through two rings that may wrap and fill up, no modifier
\* key sticks, and the cursor stays on the screen.
ConsoleOk ==
    part \in {"console", "screen"} =>
        C!StdinOk /\ C!CharsInOrder /\ C!NoStickyModifier /\ C!CursorOnScreen

\* The references to the mounted volume are those of working directories and
\* calls, and a shutdown that ends without a warning leaves superblock and free
\* map on the disk as memory had them, and every inode whose write did not
\* fail.
VfsOk == part = "mount" => M!VfsRefs /\ M!CleanShutdown


\* A file reads back what was written to it, through the buffers, from the
\* disk after it was synchronised, and after calls that failed, except a
\* truncation; and of the assertions only the two that README names can fail.
FileReadsBack == part = "volume" => V!ReadsBack /\ V!AssertsThatFail

\* The image that mksfs makes mirrors the host's tree, each block used once and
\* counted as the kernel's mount asserts, each link count the number of names.
ImageOk == part = "image" => I!ImageOk
=============================================================================

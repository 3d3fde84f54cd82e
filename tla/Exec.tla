-------------------------------- MODULE Exec --------------------------------
(***************************************************************************)
(* Running a program: do_execve, copy_kargv and load_icode of              *)
(* kern/process/proc.c, with every allocation and read that can fail.  The *)
(* process is alone in its address space; a step runs to the next call     *)
(* that can fail.  Of the program file the headers and the layout of each  *)
(* segment matter; byte i of segment k is <<k, i>>.                        *)
(***************************************************************************)
EXTENDS Integers, Sequences, FiniteSets, FiniteSetsExt

CONSTANTS
    PGSIZE,
    Programs,    \* program headers: sequences of [load, va, filesz, memsz]
    Stack,       \* the pages of the user stack
    MaxArgs      \* EXEC_MAX_ARG_NUM

VARIABLES
    prog,        \* the program in the file
    argc,        \* the number of arguments
    x            \* what the call has: see ExecInit

execVars == <<prog, argc, x>>

Junk == <<0, -1>>
Zero == <<0, 0>>
Page(a) == a \div PGSIZE
RoundUpPage(a) == (a + PGSIZE - 1) \div PGSIZE

(* args: argument buffers; mm, pgdir: of the new address space; areas: its *)
(* areas, as sets of pages; mem: its page frames; k, start, la: where the  *)
(* loop of load_icode is.                                                  *)
ExecInit ==
    /\ prog \in Programs /\ argc \in 1 .. MaxArgs
    /\ x = [pc |-> "args", args |-> 0, fd |-> FALSE, oldmm |-> TRUE, semq |-> TRUE,
            mm |-> FALSE, pgdir |-> FALSE, areas |-> {}, mem |-> <<>>, brk |-> 0,
            k |-> 1, start |-> 0, la |-> 0, ok |-> TRUE]

At(pc) == x.pc = pc
Be(y) == x' = y /\ UNCHANGED <<prog, argc>>
Goto(pc) == Be([x EXCEPT !.pc = pc])
Ph == prog[x.k]

(* put_kargv, then do_exit closes the files and gives back the rest.       *)
execve_exit(y) ==
    [y EXCEPT !.pc = "exited", !.args = 0, !.fd = FALSE, !.oldmm = FALSE, !.semq = FALSE]

(* The labels at the end of load_icode.                                    *)
bad_pgdir_cleanup_mm(y) == execve_exit([y EXCEPT !.mm = FALSE])
bad_elf_cleanup_pgdir(y) == bad_pgdir_cleanup_mm([y EXCEPT !.pgdir = FALSE])
MutCleanupMmap(y) == bad_elf_cleanup_pgdir([y EXCEPT !.areas = {}])
bad_cleanup_mmap(y) == bad_elf_cleanup_pgdir([y EXCEPT !.areas = {}, !.mem = <<>>])

----------------------------------------------------------------------------
(* One argument; a failure gives back those before it and returns.         *)
copy_kargv ==
    /\ At("args")
    /\ \/ Be([x EXCEPT !.pc = "returned", !.args = 0])
       \/ IF x.args < argc THEN Be([x EXCEPT !.args = @ + 1]) ELSE Goto("open")

(* sysfile_open; then the old address space and the semaphores go.         *)
do_execve ==
    /\ At("open")
    /\ \/ Be(execve_exit(x))
       \/ Be(execve_exit([x EXCEPT !.fd = TRUE, !.oldmm = FALSE, !.semq = FALSE]))
       \/ Be([x EXCEPT !.pc = "mm", !.fd = TRUE, !.oldmm = FALSE])

mm_create ==
    /\ At("mm")
    /\ Be(execve_exit(x)) \/ Be([x EXCEPT !.pc = "pgdir", !.mm = TRUE])

setup_pgdir ==
    /\ At("pgdir")
    /\ Be(bad_pgdir_cleanup_mm(x)) \/ Be([x EXCEPT !.pc = "elf", !.pgdir = TRUE])

(* The ELF header cannot be read, or has the wrong magic, or is good.      *)
ReadElf ==
    /\ At("elf")
    /\ Be(bad_elf_cleanup_pgdir(x)) \/ Goto("ph")

(* mm_map of the pages from a to b - 1, which must be free.                *)
Pages(a, b) == Page(a) .. RoundUpPage(b) - 1
Clash(pages) == \E r \in x.areas : r \cap pages # {}

(* One program header.                                                     *)
ReadPh ==
    LET pages == Pages(Ph.va, Ph.va + Ph.memsz) IN
    /\ At("ph") /\ x.k <= Len(prog)
    /\ \/ Be(bad_cleanup_mmap(x))
       \/ /\ ~ Ph.load \/ Ph.filesz = 0
          /\ Be([x EXCEPT !.k = @ + 1])
       \/ /\ Ph.load /\ (Ph.filesz > Ph.memsz \/ (Ph.filesz > 0 /\ Clash(pages)))
          /\ Be(bad_cleanup_mmap(x))
       \/ /\ Ph.load /\ Ph.filesz \in 1 .. Ph.memsz /\ ~ Clash(pages)
          /\ Be([x EXCEPT !.pc = "file", !.areas = @ \cup {pages}, !.start = Ph.va,
                          !.brk = Max({@, Ph.va + Ph.memsz}), !.la = Page(Ph.va) * PGSIZE])

(* A new frame for page la, the bytes from start to end set to What.       *)
NewPage(mem, end, What(_)) ==
    [p \in DOMAIN mem \cup {Page(x.la)} |->
        IF p # Page(x.la) THEN mem[p]
        ELSE [o \in 0 .. PGSIZE - 1 |->
                IF x.la + o \in x.start .. end - 1 THEN What(x.la + o) ELSE Junk]]

(* The part of the segment that is in the file, page by page.              *)
LoadPage ==
    LET end == Ph.va + Ph.filesz
        next == Min({end, x.la + PGSIZE})
        y == [x EXCEPT !.mem = NewPage(@, end, LAMBDA a : <<x.k, a - Ph.va>>),
                       !.start = next, !.la = @ + PGSIZE]
    IN  /\ At("file") /\ x.start < end
        /\ Be(bad_cleanup_mmap(x)) \/ Be(bad_cleanup_mmap(y)) \/ Be(y)

(* The rest of the last of these pages is cleared.                         *)
ClearRest ==
    LET end == Ph.va + Ph.memsz
        off == x.start + PGSIZE - x.la
        size == IF end < x.la THEN PGSIZE - off - (x.la - end) ELSE PGSIZE - off
        stop == x.start + size
        last == Page(x.la) - 1
    IN  /\ At("file") /\ x.start >= Ph.va + Ph.filesz
        /\ IF x.start < x.la /\ x.start = end THEN Be([x EXCEPT !.pc = "ph", !.k = @ + 1])
           ELSE IF x.start >= x.la THEN Goto("bss")
           ELSE Be([x EXCEPT !.pc = "bss", !.start = stop,
                    !.mem[last] = [o \in 0 .. PGSIZE - 1 |-> IF o \in off .. off + size - 1 THEN Zero ELSE @[o]],
                    !.ok = (end < x.la /\ stop = end) \/ (end >= x.la /\ stop = x.la)])

(* The pages behind them.                                                  *)
MutZeroPage ==
    LET y == [x EXCEPT !.mem = NewPage(@, x.la + PGSIZE, LAMBDA a : Junk), !.start = x.la + PGSIZE, !.la = @ + PGSIZE]
    IN  /\ At("bss")
        /\ IF x.start < Ph.va + Ph.memsz THEN Be(bad_cleanup_mmap(x)) \/ Be(y)
           ELSE Be([x EXCEPT !.pc = "ph", !.k = @ + 1, !.start = 0, !.la = 0])

ZeroPage ==
    LET end == Ph.va + Ph.memsz
        y == [x EXCEPT !.mem = NewPage(@, end, LAMBDA a : Zero),
                       !.start = Min({end, x.la + PGSIZE}), !.la = @ + PGSIZE]
    IN  /\ At("bss")
        /\ IF x.start < end THEN Be(bad_cleanup_mmap(x)) \/ Be(y)
           ELSE Be([x EXCEPT !.pc = "ph", !.k = @ + 1, !.start = 0, !.la = 0])

(* sysfile_close, the stack, and the new address space takes over.         *)
load_icode ==
    LET y == [x EXCEPT !.fd = FALSE, !.brk = RoundUpPage(@) * PGSIZE] IN
    /\ At("ph") /\ x.k > Len(prog)
    /\ \/ Be(bad_cleanup_mmap(y))
       \/ ~ Clash(Stack) /\ Be([y EXCEPT !.pc = "running", !.areas = @ \cup {Stack}, !.args = 0])

(* The process is gone, or runs on with the program it had or a new one.   *)
Over == x.pc \in {"exited", "returned", "running"} /\ UNCHANGED execVars

ExecNext ==
    \/ copy_kargv \/ do_execve \/ mm_create \/ setup_pgdir \/ ReadElf \/ ReadPh
    \/ LoadPage \/ ClearRest \/ ZeroPage \/ load_icode \/ Over

ExecSpec == ExecInit /\ [][ExecNext]_execVars

----------------------------------------------------------------------------
(* Whichever call of do_execve and load_icode fails, nothing it took is    *)
(* lost: the argument buffers, the file, the new address space with its    *)
(* page directory, areas and frames are given back, and the process keeps  *)
(* its old address space or has none; the assertion of load_icode holds.   *)
NothingLeaks ==
    /\ x.ok
    /\ x.pc \in {"exited", "returned"} =>
        /\ x.args = 0 /\ ~ x.fd /\ ~ x.mm /\ ~ x.pgdir /\ x.areas = {} /\ x.mem = <<>>
        /\ x.oldmm = x.semq /\ x.oldmm = (x.pc = "returned")
    /\ x.pc = "running" =>
        x.args = 0 /\ ~ x.fd /\ ~ x.oldmm /\ x.mm /\ x.pgdir /\ x.semq

(* The program that runs is the one in the file: of every segment with     *)
(* something in the file, the bytes in the file are in place, the others   *)
(* up to memsz are zero, no other page is in memory, and the heap starts   *)
(* at the first page behind all of them (the three loops of load_icode).   *)
LoadedRight ==
    LET segs == {k \in DOMAIN prog : prog[k].load /\ prog[k].filesz > 0}
        Byte(a) == x.mem[Page(a)][a % PGSIZE]
    IN  x.pc = "running" =>
        /\ \A k \in segs : \A i \in 0 .. prog[k].memsz - 1 :
              Byte(prog[k].va + i) = IF i < prog[k].filesz THEN <<k, i>> ELSE Zero
        /\ DOMAIN x.mem = UNION (x.areas \ {Stack})
        /\ x.brk = Max({0} \cup {RoundUpPage(prog[k].va + prog[k].memsz) * PGSIZE : k \in segs})
=============================================================================

------------------------------ MODULE Console ------------------------------
(* The console: from the scan codes of the keyboard to the readers of      *)
(* stdin (kern/driver/console.c, the keyboard interrupt of                 *)
(* kern/trap/trap.c, kern/fs/devs/dev_stdin.c), and the cursor of the      *)
(* screen.  The keyboard controller queues the bytes of the keys that go   *)
(* down and up; an interrupt reads all of them into the ring cons, takes   *)
(* one character out of it and passes that on to the ring of stdin.        *)
(*                                                                         *)
(* The serial port feeds the same ring with single bytes, like a key that  *)
(* is no modifier.  Scan codes are numbers as in the code; a character is  *)
(* the number of its turn: the n-th that kbd_proc_data finished is n.      *)
EXTENDS Integers, Sequences, FiniteSets, SequencesExt

CONSTANTS Keys,           \* the keys pressed: their code, + 128 after E0
          CONSBUFSIZE,    \* size of the ring cons
          STDIN_BUFSIZE,  \* size of the ring of stdin
          Readers,        \* the processes that read stdin
          Lengths,        \* the lengths they ask for
          CRT_ROWS, CRT_COLS,
          MaxKeys,        \* bound on the keys held down, and on the bytes
                          \* that wait in the controller
          MaxChars        \* bound on the characters typed

VARIABLES kbd,    \* bytes in the controller, keys held down, chars typed
          shift,  \* the static variable of kbd_proc_data
          cons,   \* buf, rpos, wpos
          stdin,  \* stdin_buffer, p_rpos, p_wpos (the positions only grow)
          rd,     \* the readers: pc, wait->wakeup_flags, characters left
          killed,
          crt_pos,
          hist    \* history: characters finished, what the readers got, and
                  \* the rings that a character found full

vars == <<kbd, shift, cons, stdin, rd, killed, crt_pos, hist>>

CRT_SIZE == CRT_ROWS * CRT_COLS

Idle == [pc |-> "user", flags |-> "none", left |-> 0]

ConsoleInit ==
  /\ kbd = [bytes |-> <<>>, held |-> {}, typed |-> 0]
  /\ shift = {}
  /\ cons = [buf |-> [i \in 0 .. CONSBUFSIZE - 1 |-> 0], rpos |-> 0, wpos |-> 0]
  /\ stdin = [buf |-> [i \in 0 .. STDIN_BUFSIZE - 1 |-> 0], rpos |-> 0, wpos |-> 0]
  /\ rd = [r \in Readers |-> Idle]
  /\ killed = {}
  /\ crt_pos \in 0 .. CRT_SIZE - 1
  /\ hist = [chars |-> 0, got |-> <<>>, over |-> {}]

-----------------------------------------------------------------------------
(* The keyboard                                                            *)

shiftcode(d) ==
  CASE d \in {29, 157} -> {"CTL"} [] d \in {42, 54} -> {"SHIFT"}
    [] d \in {56, 184} -> {"ALT"} [] OTHER -> {}

togglecode(d) == IF d = 58 THEN {"CAPSLOCK"} ELSE {}

\* Keys 2 .. 11 are digits, 30 .. 38 letters, 211 is KEY_DEL.
Letters == 30 .. 38

\* charcode[shift & (CTL | SHIFT)][d] # NO: CTL takes the digits away.
charcode(s, d) == d = 211 \/ d \in Letters \/ (d \in 2 .. 11 /\ "CTL" \notin s)

Codes(k) == IF k < 128 THEN <<k>> ELSE <<224, k - 128>>

Up(k) == IF k < 128 THEN <<k + 128>> ELSE <<224, k>>

\* A key goes down, or repeats while it is down, or goes up again.
Press(k) ==
  /\ Cardinality(kbd.held \cup {k}) <= MaxKeys
  /\ Len(kbd.bytes) < MaxKeys /\ kbd.typed < MaxChars
  /\ kbd' = [bytes |-> kbd.bytes \o Codes(k), held |-> kbd.held \cup {k},
             typed |-> kbd.typed + (IF charcode({}, k) THEN 1 ELSE 0)]
  /\ UNCHANGED <<shift, cons, stdin, rd, killed, crt_pos, hist>>

Let(k) ==
  /\ k \in kbd.held /\ Len(kbd.bytes) < MaxKeys
  /\ kbd' = [kbd EXCEPT !.bytes = @ \o Up(k), !.held = @ \ {k}]
  /\ UNCHANGED <<shift, cons, stdin, rd, killed, crt_pos, hist>>

MutProcData(s, data) ==
  IF data = 224 THEN <<s \cup {"E0ESC"}, FALSE>>
  ELSE IF data >= 128 THEN <<s \ (shiftcode(data - 128) \cup {"E0ESC"}), FALSE>>
  ELSE LET d == IF "E0ESC" \in s THEN data + 128 ELSE data
           up == (s \ {"E0ESC"}) \cup shiftcode(d)
           t == (up \ togglecode(d)) \cup (togglecode(d) \ up)
       IN  <<t, charcode(t, d)>>

\* kbd_proc_data for one byte: the new value of shift, and whether there is a
\* character.
kbd_proc_data(s, data) ==
  IF data = 224 THEN <<s \cup {"E0ESC"}, FALSE>>
  ELSE IF data >= 128
  THEN <<s \ (shiftcode(IF "E0ESC" \in s THEN data ELSE data - 128) \cup {"E0ESC"}), FALSE>>
  ELSE LET d == IF "E0ESC" \in s THEN data + 128 ELSE data
           up == (s \ {"E0ESC"}) \cup shiftcode(d)
           t == (up \ togglecode(d)) \cup (togglecode(d) \ up)
       IN  <<t, charcode(t, d)>>

\* cons_intr until the controller is empty.  The ring has no check: when the
\* writer reaches the reader, all it holds is lost.
RECURSIVE cons_intr(_, _, _, _)
cons_intr(bytes, s, c, h) ==
  IF bytes = <<>> THEN [shift |-> s, cons |-> c, hist |-> h]
  ELSE LET r == kbd_proc_data(s, Head(bytes))
           next == (c.wpos + 1) % CONSBUFSIZE
       IN  IF ~ r[2] THEN cons_intr(Tail(bytes), r[1], c, h)
           ELSE cons_intr(Tail(bytes), r[1],
                          [c EXCEPT !.buf[c.wpos] = h.chars + 1, !.wpos = next],
                          [h EXCEPT !.chars = @ + 1,
                                    !.over = @ \cup (IF next = c.rpos THEN {"cons"} ELSE {})])

-----------------------------------------------------------------------------
(* stdin                                                                   *)

Asleep == {r \in Readers : rd[r].pc = "wait"}

\* wakeup_queue(wait_queue, WT_KBD, 1): all that are linked, the readers that
\* a kill woke but that did not run yet too.
WakeReaders ==
  [r \in Readers |-> IF rd[r].pc \in {"wait", "ready"} /\ rd[r].flags = "WT_INTERRUPTED"
                     THEN [rd[r] EXCEPT !.pc = "ready", !.flags = "WT_KBD"] ELSE rd[r]]

\* Mutant of StdinPut: the position moves on in a full buffer too.
MutStdinPut(c) ==
  [stdin EXCEPT !.buf[stdin.wpos % STDIN_BUFSIZE] = c, !.wpos = @ + 1]

\* In a full buffer the character takes the place of the oldest one.
StdinPut(c) ==
  [stdin EXCEPT !.buf[stdin.wpos % STDIN_BUFSIZE] = c,
                !.wpos = IF @ - stdin.rpos < STDIN_BUFSIZE THEN @ + 1 ELSE @]

dev_stdin_write(c) ==
  /\ stdin' = StdinPut(c)
  /\ rd' = WakeReaders

\* IRQ_KBD: cons_getc polls the keyboard, then takes one character.
KbdInterrupt ==
  LET in == cons_intr(kbd.bytes, shift, cons, hist)
      some == in.cons.rpos # in.cons.wpos
      full == some /\ stdin.wpos - stdin.rpos = STDIN_BUFSIZE
  IN  /\ kbd.bytes # <<>>
      /\ kbd' = [kbd EXCEPT !.bytes = <<>>]
      /\ shift' = in.shift
      /\ cons' = IF some THEN [in.cons EXCEPT !.rpos = (@ + 1) % CONSBUFSIZE] ELSE in.cons
      /\ IF some THEN dev_stdin_write(in.cons.buf[in.cons.rpos]) ELSE UNCHANGED <<stdin, rd>>
      /\ hist' = [in.hist EXCEPT !.over = @ \cup (IF full THEN {"stdin"} ELSE {})]
      /\ UNCHANGED <<killed, crt_pos>>

Smaller(a, b) == IF a < b THEN a ELSE b

\* The loop of dev_stdin_read: what is there is taken, then the reader sleeps
\* or is done.
ReadLoop(r, len) ==
  LET n == Smaller(len, stdin.wpos - stdin.rpos)
      taken == [i \in 1 .. n |-> stdin.buf[(stdin.rpos + i - 1) % STDIN_BUFSIZE]]
  IN
  /\ stdin' = [stdin EXCEPT !.rpos = @ + n]
  /\ rd' = [rd EXCEPT ![r] = IF n = len THEN Idle
                             ELSE [pc |-> "wait", flags |-> "WT_INTERRUPTED", left |-> len - n]]
  /\ hist' = [hist EXCEPT !.got = @ \o taken]
  /\ UNCHANGED <<kbd, shift, cons, killed, crt_pos>>

dev_stdin_read(r, len) == rd[r].pc = "user" /\ r \notin killed /\ ReadLoop(r, len)

\* After schedule(): on with the loop, or back with what was read so far.
Resume(r) ==
  /\ rd[r].pc = "ready"
  /\ IF rd[r].flags = "WT_KBD" THEN ReadLoop(r, rd[r].left)
     ELSE rd' = [rd EXCEPT ![r] = Idle] /\ UNCHANGED <<kbd, shift, cons, stdin, killed, crt_pos, hist>>

\* WT_KBD is interruptible; the wait_t stays linked until the reader runs.
Kill(r) ==
  /\ r \notin killed
  /\ killed' = killed \cup {r}
  /\ rd' = IF rd[r].pc = "wait" THEN [rd EXCEPT ![r].pc = "ready"] ELSE rd
  /\ UNCHANGED <<kbd, shift, cons, stdin, crt_pos, hist>>

-----------------------------------------------------------------------------
(* The screen                                                              *)

MutScroll(pos) == IF pos > CRT_SIZE THEN pos - CRT_COLS ELSE pos

Scroll(pos) == IF pos >= CRT_SIZE THEN pos - CRT_COLS ELSE pos

\* cga_putc: backspace, newline, carriage return, or a character.
cga_putc(c) ==
  /\ crt_pos' = Scroll(CASE c = "bs" -> IF crt_pos > 0 THEN crt_pos - 1 ELSE 0
                         [] c = "nl" -> (crt_pos + CRT_COLS) - (crt_pos % CRT_COLS)
                         [] c = "cr" -> crt_pos - (crt_pos % CRT_COLS)
                         [] c = "x" -> crt_pos + 1)
  /\ UNCHANGED <<kbd, shift, cons, stdin, rd, killed, hist>>

InputNext ==
  \/ \E k \in Keys : Press(k) \/ Let(k)
  \/ KbdInterrupt
  \/ \E r \in Readers, len \in Lengths : dev_stdin_read(r, len)
  \/ \E r \in Readers : Resume(r) \/ Kill(r)

\* The screen shares no state with the input: the kernel does not echo.
ScreenNext == \E c \in {"bs", "nl", "cr", "x"} : cga_putc(c)

ConsoleNext == InputNext \/ ScreenNext

ConsoleSpec == ConsoleInit /\ [][ConsoleNext]_vars

-----------------------------------------------------------------------------
(* Properties                                                              *)

\* No reader of dev_stdin_read sleeps while there are characters, although
\* several wake for one key and a kill may come in between; the ring of
\* stdin never holds more than it has room for.
StdinOk ==
  /\ stdin.wpos - stdin.rpos \in 0 .. STDIN_BUFSIZE
  /\ stdin.rpos < stdin.wpos => Asleep = {}

InStdin == [i \in 1 .. stdin.wpos - stdin.rpos |-> stdin.buf[(stdin.rpos + i - 1) % STDIN_BUFSIZE]]

InCons ==
  [i \in 1 .. (cons.wpos - cons.rpos) % CONSBUFSIZE |-> cons.buf[(cons.rpos + i - 1) % CONSBUFSIZE]]

\* Until a character finds a ring full, what the readers of dev_stdin_read
\* got, then the ring of stdin and then the one of cons_intr are what was
\* typed, in order.  After that no character comes twice or from nowhere; the
\* one written into a full ring of stdin overtakes those that wait there.
CharsInOrder ==
  LET all == hist.got \o InStdin \o InCons IN
  /\ hist.over = {} => all = [i \in 1 .. hist.chars |-> i]
  /\ IsInjective(all) /\ ToSet(all) \subseteq 1 .. hist.chars

\* Once kbd_proc_data has read every byte, no modifier is on whose keys are
\* all up (the left and the right ones differ in the E0 escape only), and no
\* escape is pending.
NoStickyModifier ==
  kbd.bytes = <<>> =>
    shift \ {"CAPSLOCK"} \subseteq UNION {shiftcode(k) : k \in kbd.held}

\* cga_putc leaves the cursor on the screen: the next character is stored
\* inside crt_buf.
CursorOnScreen == crt_pos \in 0 .. CRT_SIZE - 1

=============================================================================

------------------------------ MODULE Console ------------------------------
(***************************************************************************)
(* The console of console.c, as operators on the state k of the kernel.    *)
(* The fields they are about:                                              *)
(*   input        the line buffer: buf, a ring, and the indices r, w and e *)
(*   screen       what processes have written                              *)
(*   pos          the cursor                                               *)
(*   panic        what the kernel panicked about, or ""                    *)
(* A key is a string; "^D", "^U" and "^H" are control keys. The indices    *)
(* wrap around, as the unsigned integers of the code do.                   *)
(***************************************************************************)
EXTENDS Integers, Sequences, SequencesExt

CONSTANTS
  INPUT_BUF,  \* characters the line buffer holds
  IndexWrap,  \* the indices count modulo this
  ROWS, COLS  \* the screen

ASSUME ConsoleConstants ==
  /\ INPUT_BUF \in Nat \ {0} /\ IndexWrap \in Nat /\ IndexWrap > INPUT_BUF
  /\ IndexWrap % INPUT_BUF = 0
  /\ ROWS \in Nat /\ ROWS > 1 /\ COLS \in Nat \ {0}

NoInput == [buf |-> [i \in 0 .. (INPUT_BUF - 1) |-> ""], r |-> 0, w |-> 0, e |-> 0]

\* cgaputc(): the last row of the screen is never written to.
MoveTo(k, pos) ==
  IF pos > ROWS * COLS THEN [k EXCEPT !.panic = "pos under/overflow"]
  ELSE [k EXCEPT !.pos = IF pos \div COLS >= ROWS - 1 THEN pos - COLS ELSE pos]
Cgaputc(k, c) ==
  MoveTo(k, CASE c = "\n" -> k.pos + (COLS - (k.pos % COLS))
              [] c = "^H" -> IF k.pos > 0 THEN k.pos - 1 ELSE 0
              [] OTHER -> k.pos + 1)

Before(i) == (i - 1) % IndexWrap
After(i) == (i + 1) % IndexWrap
InBuf(input, i) == input.buf[i % INPUT_BUF]

\* Control-U: how far back the line that is being edited begins.
LineStart(input) ==
  LET n == (input.e - input.w) % IndexWrap
      ends == {j \in 1 .. n : InBuf(input, (input.e - j) % IndexWrap) = "\n"}
  IN  (input.e - (IF ends = {} THEN n ELSE Min(ends) - 1)) % IndexWrap

\* Faulty variant: a backspace goes on into a line that is complete.
ConsoleintrErases(k, c) ==
  LET input == k.input
      full == (input.e - input.r) % IndexWrap = INPUT_BUF
      e == After(input.e)
      ready == c \in {"\n", "^D"} \/ (e - input.r) % IndexWrap = INPUT_BUF
  IN  IF c = "^H"
      THEN IF input.e = input.r THEN k ELSE Cgaputc([k EXCEPT !.input.e = Before(@)], "^H")
      ELSE IF full THEN k
      ELSE Cgaputc([k EXCEPT !.input = [@ EXCEPT !.buf[input.e % INPUT_BUF] = c, !.e = e,
                                                 !.w = IF ready THEN e ELSE @]], c)

\* consoleintr() for one key. A reader is woken when a line is complete: consoleread()
\* can go on when r # w.
Consoleintr(k, c) ==
  LET input == k.input
      full == (input.e - input.r) % IndexWrap = INPUT_BUF
      e == After(input.e)
      ready == c \in {"\n", "^D"} \/ (e - input.r) % IndexWrap = INPUT_BUF
      back == (input.e - LineStart(input)) % IndexWrap
  IN  CASE c = "^U" -> FoldLeft(LAMBDA q, j : Cgaputc(q, "^H"),
                                [k EXCEPT !.input.e = LineStart(input)], [j \in 1 .. back |-> j])
        [] c = "^H" -> IF input.e = input.w THEN k
                       ELSE Cgaputc([k EXCEPT !.input.e = Before(@)], "^H")
        [] OTHER -> IF full THEN k
                    ELSE Cgaputc([k EXCEPT !.input = [@ EXCEPT !.buf[input.e % INPUT_BUF] = c, !.e = e,
                                                               !.w = IF ready THEN e ELSE @]], c)

\* consoleread() until it sleeps or returns, for a caller that asks for n characters and
\* has got some: it ends with a line, or with "^D", which is the end of the file. A "^D"
\* after other characters is left there, so that the next call returns nothing.
Consoleread(k, got, n) ==
  LET input == k.input
      char(j) == InBuf(input, (input.r + j - 1) % IndexWrap)
      m == Min({(input.w - input.r) % IndexWrap, n - Len(got)})
      ends == {j \in 1 .. m : char(j) \in {"\n", "^D"}}
      take(read, all, end) ==
        [k |-> [k EXCEPT !.input.r = (@ + read) % IndexWrap], got |-> all, end |-> end \/ Len(all) = n]
      chars(j) == got \o [i \in 1 .. j |-> char(i)]
      upto(j) == IF char(j) = "\n" THEN take(j, chars(j), TRUE)
                 ELSE take(IF chars(j - 1) = <<>> THEN 1 ELSE j - 1, chars(j - 1), TRUE)
  IN  IF ends = {} THEN take(m, chars(m), FALSE) ELSE upto(Min(ends))

\* consolewrite()
Consolewrite(k, cells) ==
  FoldLeft(LAMBDA q, c : Cgaputc([q EXCEPT !.screen = Append(@, c)], c), k, cells)

=============================================================================

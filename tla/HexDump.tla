------------------------------- MODULE HexDump -------------------------------
(***************************************************************************)
(* hexDump of utils.cpp, which prints a payload for the log, one line for  *)
(* each Width bytes: the offset, each byte in hex, and the bytes again as  *)
(* characters.  The characters of a line are collected in a buffer that    *)
(* the next line overwrites, and printed when that line begins.            *)
(*                                                                         *)
(* A byte in hex is the byte, a blank for a missing one is Blank.          *)
(***************************************************************************)
LOCAL INSTANCE Integers
LOCAL INSTANCE Sequences

CONSTANT Width      \* how many bytes a line shows: 16 in the code

StringEnd == 0
Dot == 46
Blank == -1

\* %s: what comes before the first NUL
Printed(buff) ==
  LET ends == {k \in 0 .. Width : buff[k] = StringEnd} \cup {Width + 1}
      end == CHOOSE k \in ends : \A other \in ends : k <= other
  IN  [k \in 1 .. end |-> buff[k - 1]]

Printable(c) == IF c < 32 \/ c > 126 THEN Dot ELSE c

\* variant: the string is ended only when the line is full
Buffered_NoEnd(buff, i, c) ==
  IF i % Width = Width - 1 THEN [buff EXCEPT ![i % Width] = Printable(c), ![Width] = StringEnd]
  ELSE [buff EXCEPT ![i % Width] = Printable(c)]

Buffered(buff, i, c) ==
  [buff EXCEPT ![i % Width] = Printable(c), ![(i % Width) + 1] = StringEnd]

(* The loop's iteration for the byte at i: a line that is full is printed   *)
(* when the next one begins.                                               *)
AddByte(st, i, c) ==
  LET full == i % Width = 0 /\ i # 0
  IN  [ out  |-> IF full THEN Append(st.out, <<st.line, Printed(st.buff)>>) ELSE st.out,
        line |-> IF full THEN <<c>> ELSE Append(st.line, c),
        buff |-> Buffered(st.buff, i, c) ]

Pad(line) == line \o [k \in 1 .. Width - Len(line) |-> Blank]

(* The lines that are printed for pc, each a pair of the hex column and the *)
(* characters; buff holds whatever was on the stack.                       *)
hexDump(pc, buff) ==
  LET dumped[k \in 0 .. Len(pc)] ==
        IF k = 0 THEN [out |-> <<>>, line |-> <<>>, buff |-> buff]
        ELSE AddByte(dumped[k - 1], k - 1, pc[k])
      end == dumped[Len(pc)]
  IN  IF pc = <<>> THEN <<>> ELSE Append(end.out, <<Pad(end.line), Printed(end.buff)>>)
=============================================================================

----------------------------- MODULE Base64Lines -----------------------------
(***************************************************************************)
(* The line breaks of the PEM and MIME variants of base64.cpp: inserted    *)
(* into an encoded text and removed before a text is decoded.  What the    *)
(* characters of a line mean is the matter of the module Base64.           *)
(* Positions count from 0, as in the code.                                 *)
(***************************************************************************)
LOCAL INSTANCE Integers
LOCAL INSTANCE Sequences

NL == "\n"

\* variant: the inserted character is counted twice
InsertBreak_CountsTwice(st, distance) ==
  IF st.pos >= Len(st.str) THEN st
  ELSE [ str |-> SubSeq(st.str, 1, st.pos) \o <<NL>> \o SubSeq(st.str, st.pos + 1, Len(st.str)),
         pos |-> st.pos + distance + 2 ]

(* A round of the loop, which is over when pos has reached the end.         *)
InsertBreak(st, distance) ==
  IF st.pos >= Len(st.str) THEN st
  ELSE [ str |-> SubSeq(st.str, 1, st.pos) \o <<NL>> \o SubSeq(st.str, st.pos + 1, Len(st.str)),
         pos |-> st.pos + distance + 1 ]

(* There are no more rounds than characters. *)
insert_linebreaks(str, distance) ==
  LET round[k \in 0 .. Len(str)] ==
        IF k = 0 THEN [str |-> str, pos |-> distance] ELSE InsertBreak(round[k - 1], distance)
  IN  round[Len(str)].str

FirstBreak(breaks) == CHOOSE b \in breaks : \A other \in breaks : b <= other

\* variant: the search goes on behind the place of what was erased
EraseBreak_StepsOver(st) ==
  LET breaks == {p \in st.pos .. Len(st.copy) - 1 : st.copy[p + 1] = NL}
      first == FirstBreak(breaks)
  IN  IF breaks = {} THEN st
      ELSE [ copy |-> SubSeq(st.copy, 1, first) \o SubSeq(st.copy, first + 2, Len(st.copy)),
             pos  |-> first + 1 ]

(* A round of the loop, which is over when no line break is found.          *)
EraseBreak(st) ==
  LET breaks == {p \in st.pos .. Len(st.copy) - 1 : st.copy[p + 1] = NL}
      first == FirstBreak(breaks)
  IN  IF breaks = {} THEN st
      ELSE [ copy |-> SubSeq(st.copy, 1, first) \o SubSeq(st.copy, first + 2, Len(st.copy)),
             pos  |-> first ]

remove_linebreaks(encoded_string) ==
  LET round[k \in 0 .. Len(encoded_string)] ==
        IF k = 0 THEN [copy |-> encoded_string, pos |-> 0] ELSE EraseBreak(round[k - 1])
  IN  round[Len(encoded_string)].copy
=============================================================================

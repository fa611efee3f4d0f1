---------------------------- MODULE MessageParse ----------------------------
(***************************************************************************)
(* WebsocketServer::messageParse and split: what becomes of one text that  *)
(* a client sends, before it is tried as JSON.  TcpTunnel and              *)
(* WebsocketServer take its outcomes from here: a callback is called with  *)
(* a payload, or the text is left to the JSON parser.                      *)
(*                                                                         *)
(* A text is a sequence of characters, a position in it counts from 0, as  *)
(* in the code.                                                            *)
(***************************************************************************)
LOCAL INSTANCE Integers
LOCAL INSTANCE Sequences

CONSTANTS
  C_BIN,        \* the text of the command BIN_DATA
  Commands      \* the texts of the other commands, which do nothing

npos == -1

find(s, c, from) ==
  LET at == {p \in from .. Len(s) - 1 : s[p + 1] = c}
  IN  IF at = {} THEN npos ELSE CHOOSE p \in at : \A q \in at : p <= q

substr(s, from, n) == SubSeq(s, from + 1, IF from + n < Len(s) THEN from + n ELSE Len(s))

-----------------------------------------------------------------------------
\* variant: the search goes on one character too far
Cut_SkipsOne(s, c, st) ==
  IF st.j = npos THEN st
  ELSE LET i == st.j + 1
           j == find(s, c, i + 1)
           found == Append(st.v, substr(s, st.i, st.j - st.i))
       IN  [v |-> IF j = npos THEN Append(found, substr(s, i, Len(s))) ELSE found, i |-> i, j |-> j]

(* A round of split's loop, which is over when no separator is left: the    *)
(* part from i up to the separator at j, and the rest if it is the last.    *)
Cut(s, c, st) ==
  IF st.j = npos THEN st
  ELSE LET i == st.j + 1
           j == find(s, c, i)
           found == Append(st.v, substr(s, st.i, st.j - st.i))
       IN  [v |-> IF j = npos THEN Append(found, substr(s, i, Len(s))) ELSE found, i |-> i, j |-> j]

(* There are no more rounds than characters. *)
split(s, c) ==
  LET round[k \in 0 .. Len(s)] ==
        IF k = 0 THEN [v |-> <<>>, i |-> 0, j |-> find(s, c, 0)] ELSE Cut(s, c, round[k - 1])
  IN  round[Len(s)].v

EndsQuoted(data) == substr(data, Len(data) - 2, 2) = <<"\"", "}">>

\* the end of a quoted member and its object is cut off
strip(data) ==
  IF Len(data) > 2 /\ EndsQuoted(data) THEN substr(data, 0, Len(data) - 2) ELSE data

\* variant: a command may stand anywhere in the first part
Known_Anywhere(text) ==
  \E c \in Commands, p \in 0 .. Len(text) : substr(text, p, Len(c)) = c

Known(text) == text \in Commands

(* What messageParse returns, and the callback it has called with its       *)
(* argument; both sides test rcv_callback, Linux calls the other one.      *)
Returns(answer, called) == [returned |-> answer, given |-> called]

messageParse(type, rcv_callback, send_callback, message) ==
  LET msg == split(message, ":")
      data == strip(msg[2])
  IN  CASE Len(msg) # 2 -> Returns("false", <<>>)
        [] Len(msg) = 2 /\ msg[1] # C_BIN -> Returns(IF Known(msg[1]) THEN "true" ELSE "false", <<>>)
        [] OTHER ->
             IF ~rcv_callback THEN Returns("true", <<>>)
             ELSE IF type = "windows" THEN Returns("true", <<"rcv_callback", data>>)
             ELSE IF send_callback THEN Returns("true", <<"send_callback", data>>)
             ELSE Returns("nullcall", <<>>)
=============================================================================

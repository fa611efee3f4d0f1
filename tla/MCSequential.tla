---------------------------- MODULE MCSequential ----------------------------
(* The codec's loops step by step, and the other functions by one call,     *)
(* each on all short arguments: byte strings that use each bit of each      *)
(* byte; texts that mix letters, both trailing characters and a character   *)
(* outside the alphabet; messages of up to five characters in which a       *)
(* command is one letter; texts with line breaks anywhere; payloads at the  *)
(* edges of what is printable; up to three options of which some repeat.    *)
EXTENDS Base64, SequentialCalls, SequencesExt

MCInputs == BoundedSeq({0, 27, 64, 144, 255}, 4)
MCTexts == BoundedSeq({65, 95, 61, 46, 10}, 5)

MCChars == {":", "\"", "{", "}", "b", "c", NL} \cup {ToString(p) : p \in 1 .. 12}
MCBin == <<"b">>
MCCommands == {<<"c">>}
MCMessages == BoundedSeq({":", "\"", "{", "}", "b", "c"}, 5)

MCDistances == {1, 2, 3, 4}
MCEncoded == {[p \in 1 .. n |-> ToString(p)] : n \in 0 .. 12}
MCBroken == BoundedSeq({"1", "2", NL}, 6)

MCPayloads == BoundedSeq({31, 32, 126, 127}, 7)

MCWords == {"x", "y"}
MCSizes == {8192, 0, -1}
MCOptions ==
  (TextOptions \X MCWords) \cup ({"buffer_size"} \X MCSizes) \cup (Switches \X {NoText}) \cup {Informs}
MCOptionLists == BoundedSeq(MCOptions, 3)

NoCall == [f |-> "none"]

(* Either the codec runs or one of the other functions is called. *)
SequentialInit ==
  \/ /\ Init
     /\ call = NoCall /\ result = NoResult
  \/ /\ url = 0 /\ input = <<>> /\ given = "bytes" /\ encoded = <<>>
     /\ Init
     /\ CallInit

SequentialNext ==
  \/ call = NoCall /\ Next /\ UNCHANGED callVars
  \/ CallNext /\ UNCHANGED vars

SequentialSpec == SequentialInit /\ [][SequentialNext]_<<vars, callVars>>
=============================================================================

------------------------------- MODULE Base64 -------------------------------
(***************************************************************************)
(* base64_encode and base64_decode of base64.cpp, through which every      *)
(* payload passes: broadcast by the side that received it, and decoded     *)
(* before it is queued on the other.                                       *)
(*                                                                         *)
(* A character is its code.  The bit operations are written as arithmetic: *)
(* a shift is a multiplication or division, a mask a remainder, and the    *)
(* cast of a sum to a char its remainder modulo 256.                       *)
(*                                                                         *)
(* A behaviour encodes one of Inputs and decodes what came out, or decodes *)
(* one of Texts, whatever a client sent.  An iteration of the decoder's    *)
(* loop is three steps, one for each byte it may append, since each reads  *)
(* characters that may be past the end of the string.                      *)
(***************************************************************************)
EXTENDS Integers, Sequences

CONSTANTS
  Inputs,     \* the byte strings that are encoded
  Texts       \* the strings that are decoded without having been encoded

Byte == 0 .. 255

ASSUME StringsAssumption == Inputs \cup Texts \subseteq Seq(Byte)

VARIABLES
  url,        \* base64_encode's parameter: 1 for the URL-safe alphabet, or 0
  input,      \* the bytes passed to base64_encode
  given,      \* "bytes" if encoded is what base64_encode returned, or "text"
  encoded,    \* ret of base64_encode and the argument of base64_decode
  decoded,    \* ret of base64_decode
  pos,        \* pos of the loop that runs
  pc          \* "encode", the byte that is decoded next, "returned" or "threw"

vars == <<url, input, given, encoded, decoded, pos, pc>>

NUL == 0      \* what s[s.length()] is

(* base64_chars[url] *)
base64_chars(u, i) ==
  IF i < 26 THEN 65 + i
  ELSE IF i < 52 THEN 97 + (i - 26)
  ELSE IF i < 62 THEN 48 + (i - 52)
  ELSE IF u = 1 THEN (IF i = 62 THEN 45 ELSE 95)
  ELSE IF i = 62 THEN 43 ELSE 47

trailing_char(u) == IF u = 1 THEN 46 ELSE 61

isTrailing(c) == c \in {61, 46}

\* variant: pos_of_char returns for every character
Alphabet_Unchecked == Byte

\* variant: only the standard alphabet is read
pos_of_char_Standard(c) ==
  IF c \in 65 .. 90 THEN c - 65
  ELSE IF c \in 97 .. 122 THEN (c - 97) + 26
  ELSE IF c \in 48 .. 57 THEN (c - 48) + 52
  ELSE IF c = 43 THEN 62
  ELSE 63

(* The characters pos_of_char does not throw for. *)
Alphabet == 65 .. 90 \cup 97 .. 122 \cup 48 .. 57 \cup {43, 45, 47, 95}

pos_of_char(c) ==
  IF c \in 65 .. 90 THEN c - 65
  ELSE IF c \in 97 .. 122 THEN (c - 97) + 26
  ELSE IF c \in 48 .. 57 THEN (c - 48) + 52
  ELSE IF c \in {43, 45} THEN 62
  ELSE 63

-----------------------------------------------------------------------------
ByteAt(s, i) == IF i < Len(s) THEN s[i + 1] ELSE 0

\* variant: the second trailing character is forgotten
Quantum_OneTrailing(u, s, i) ==
  LET b0 == ByteAt(s, i)
      b1 == ByteAt(s, i + 1)
      b2 == ByteAt(s, i + 2)
  IN  << base64_chars(u, b0 \div 4),
         base64_chars(u, ((b0 % 4) * 16) + (b1 \div 16)),
         base64_chars(u, ((b1 % 16) * 4) + (b2 \div 64)),
         IF i + 2 < Len(s) THEN base64_chars(u, b2 % 64) ELSE trailing_char(u) >>

(* The four characters for the bytes of s from i on, a missing byte being 0 *)
(* in the bits of the last character.                                      *)
Quantum(u, s, i) ==
  LET b0 == ByteAt(s, i)
      b1 == ByteAt(s, i + 1)
      b2 == ByteAt(s, i + 2)
  IN  << base64_chars(u, b0 \div 4),
         base64_chars(u, ((b0 % 4) * 16) + (b1 \div 16)),
         IF i + 1 < Len(s) THEN base64_chars(u, ((b1 % 16) * 4) + (b2 \div 64)) ELSE trailing_char(u),
         IF i + 2 < Len(s) THEN base64_chars(u, b2 % 64) ELSE trailing_char(u) >>

-----------------------------------------------------------------------------
Init ==
  /\ url \in {0, 1}
  /\ decoded = <<>>
  /\ pos = 0
  /\ \/ /\ given = "bytes" /\ pc = "encode"
        /\ input \in Inputs /\ encoded = <<>>
     \/ /\ given = "text" /\ pc = "first"
        /\ encoded \in Texts /\ input = <<>>

EncodeQuantum ==
  /\ pc = "encode"
  /\ pos < Len(input)
  /\ encoded' = encoded \o Quantum(url, input, pos)
  /\ pos' = pos + 3
  /\ UNCHANGED <<url, input, given, decoded, pc>>

EncodeReturns ==
  /\ pc = "encode"
  /\ pos >= Len(input)
  /\ pc' = "first"
  /\ pos' = 0
  /\ UNCHANGED <<url, input, given, encoded, decoded>>

-----------------------------------------------------------------------------
(* base64_decode with remove_linebreaks = false, as the program calls it.   *)

CharAt(i) == IF i < Len(encoded) THEN encoded[i + 1] ELSE NUL
Code(i) == pos_of_char(CharAt(i))

Throws ==
  /\ pc' = "threw"
  /\ UNCHANGED <<pos, decoded>>

Yields(byte) == decoded' = Append(decoded, byte % 256)

NextQuantum == pos' = pos + 4 /\ pc' = "first"

DecodeFirst ==
  /\ pc = "first"
  /\ pos < Len(encoded)
  /\ IF {CharAt(pos), CharAt(pos + 1)} \subseteq Alphabet
     THEN /\ Yields((Code(pos) * 4) + ((Code(pos + 1) % 64) \div 16))
          /\ pc' = "second" /\ pos' = pos
     ELSE Throws
  /\ UNCHANGED <<url, input, given, encoded>>

DecodeSecond ==
  /\ pc = "second"
  /\ \/ isTrailing(CharAt(pos + 2)) /\ NextQuantum /\ UNCHANGED decoded
     \/ /\ CharAt(pos + 2) \in Alphabet
        /\ Yields(((Code(pos + 1) % 16) * 16) + (Code(pos + 2) \div 4))
        /\ pc' = "third" /\ pos' = pos
     \/ CharAt(pos + 2) \notin Alphabet /\ ~isTrailing(CharAt(pos + 2)) /\ Throws
  /\ UNCHANGED <<url, input, given, encoded>>

DecodeThird ==
  /\ pc = "third"
  /\ \/ isTrailing(CharAt(pos + 3)) /\ NextQuantum /\ UNCHANGED decoded
     \/ /\ CharAt(pos + 3) \in Alphabet
        /\ Yields(((Code(pos + 2) % 4) * 64) + Code(pos + 3))
        /\ NextQuantum
     \/ CharAt(pos + 3) \notin Alphabet /\ ~isTrailing(CharAt(pos + 3)) /\ Throws
  /\ UNCHANGED <<url, input, given, encoded>>

DecodeReturns ==
  /\ pc = "first"
  /\ pos >= Len(encoded)
  /\ pc' = "returned"
  /\ UNCHANGED <<url, input, given, encoded, decoded, pos>>

-----------------------------------------------------------------------------
Next ==
  \/ EncodeQuantum \/ EncodeReturns
  \/ DecodeFirst \/ DecodeSecond \/ DecodeThird \/ DecodeReturns

Spec == Init /\ [][Next]_vars

-----------------------------------------------------------------------------
TypeOK ==
  /\ url \in {0, 1}
  /\ {input, encoded, decoded} \subseteq Seq(Byte)
  /\ given \in {"bytes", "text"}
  /\ pos \in Nat
  /\ pc \in {"encode", "first", "second", "third", "returned", "threw"}

(* What was encoded decodes to the bytes it was made from, with either      *)
(* alphabet and for every length modulo 3: bytes cross the tunnel unchanged *)
(* (base64_encode, base64_decode).                                         *)
RoundTrip ==
  given = "bytes" =>
    /\ pc # "threw"
    /\ pc = "returned" => decoded = input

(* The decoder never reads past the NUL that ends the string, whatever the  *)
(* string is: it may read the NUL, and throws then.                        *)
ReadsInBounds ==
  /\ pc = "first" /\ pos < Len(encoded) => pos + 1 <= Len(encoded)
  /\ pc = "second" => pos + 2 <= Len(encoded)
  /\ pc = "third" => pos + 3 <= Len(encoded)

(* The characters of the first k groups of three bytes, and nothing else.  *)
IsEncoding(k) ==
  /\ Len(encoded) = 4 * k
  /\ \A j \in 0 .. k - 1, i \in 1 .. 4 : encoded[(4 * j) + i] = Quantum(url, input, 3 * j)[i]

Groups == (Len(input) + 2) \div 3     \* len_encoded, in quanta

EncodeInv ==
  given = "bytes" =>
    \/ /\ pc = "encode"
       /\ pos % 3 = 0 /\ pos \div 3 <= Groups
       /\ IsEncoding(pos \div 3)
       /\ decoded = <<>>
    \/ pc # "encode" /\ IsEncoding(Groups)

(* The first n bytes of the input have been decoded. *)
Decoded(n) ==
  /\ n <= Len(input) /\ Len(decoded) = n
  /\ \A i \in 1 .. n : decoded[i] = input[i]

DecodeInv ==
  given = "bytes" /\ pc # "encode" =>
    /\ pos % 4 = 0
    /\ \/ pc = "first" /\ pos \div 4 < Groups /\ Decoded(3 * (pos \div 4))
       \/ pc \in {"first", "returned"} /\ pos \div 4 = Groups /\ Decoded(Len(input))
       \/ pc = "second" /\ Decoded((3 * (pos \div 4)) + 1)
       \/ pc = "third" /\ Decoded((3 * (pos \div 4)) + 2)

(* A step is made only if the characters before were of the alphabet.      *)
TextInv ==
  /\ pc = "encode" => given = "bytes"
  /\ pc \in {"second", "third"} => CharAt(pos + 1) \in Alphabet
  /\ pc = "third" => CharAt(pos + 2) \in Alphabet

(* The inductive invariant of both loops: after each iteration the encoder  *)
(* has written the groups, and the decoder the bytes, of what is behind pos. *)
CodecInv == TypeOK /\ EncodeInv /\ DecodeInv /\ TextInv
=============================================================================

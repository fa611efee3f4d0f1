-------------------------- MODULE SequentialProofs --------------------------
(***************************************************************************)
(* Proofs about the functions that keep no state between two calls, for    *)
(* all their arguments.  base64: the invariant of the two loops holds, so   *)
(* decoding what was encoded gives the bytes back and the decoder reads     *)
(* nothing behind the end of its string.  The other functions return what   *)
(* they promise; each of their loops is taken as the sequence of its        *)
(* states, and what the loop keeps true is shown to hold in each of them.   *)
(***************************************************************************)
EXTENDS Base64, SequentialCalls, SequenceLemmas

-----------------------------------------------------------------------------
(* The codec. *)
(* pos_of_char inverts both tables. *)
LEMMA PosOfChar ==
  ASSUME NEW u \in {0, 1}, NEW i \in 0 .. 63
  PROVE  /\ base64_chars(u, i) \in Alphabet
         /\ pos_of_char(base64_chars(u, i)) = i
<1>1. CASE i \in 0 .. 25
  BY <1>1 DEF base64_chars, pos_of_char, Alphabet
<1>2. CASE i \in 26 .. 51
  BY <1>2 DEF base64_chars, pos_of_char, Alphabet
<1>3. CASE i \in 52 .. 61
  BY <1>3 DEF base64_chars, pos_of_char, Alphabet
<1>4. CASE i = 62
  BY <1>4 DEF base64_chars, pos_of_char, Alphabet
<1>5. CASE i = 63
  BY <1>5 DEF base64_chars, pos_of_char, Alphabet
<1> QED
  BY <1>1, <1>2, <1>3, <1>4, <1>5

LEMMA SextetOf == \A c \in Alphabet : pos_of_char(c) \in 0 .. 63
BY DEF Alphabet, pos_of_char

LEMMA Characters ==
  /\ Alphabet \subseteq 1 .. 255
  /\ \A c \in Alphabet : ~isTrailing(c) /\ pos_of_char(c) \in 0 .. 63
  /\ \A u \in {0, 1} : trailing_char(u) \in 0 .. 255 /\ isTrailing(trailing_char(u))
<1>1. Alphabet \subseteq 1 .. 255
  BY DEF Alphabet
<1>2. \A c \in Alphabet : ~isTrailing(c)
  BY DEF Alphabet, isTrailing
<1>3. \A c \in Alphabet : pos_of_char(c) \in 0 .. 63
  BY SextetOf
<1>4. \A u \in {0, 1} : trailing_char(u) \in 0 .. 255 /\ isTrailing(trailing_char(u))
  BY DEF trailing_char, isTrailing
<1> QED
  BY <1>1, <1>2, <1>3, <1>4

LEMMA Element ==
  ASSUME NEW S, NEW s \in Seq(S), NEW i \in Nat, i < Len(s)
  PROVE  s[i + 1] \in S
OBVIOUS

LEMMA ByteAtType ==
  ASSUME NEW s \in Seq(Byte), NEW i \in Nat
  PROVE  ByteAt(s, i) \in Byte
<1>1. CASE i < Len(s)
  <2>1. s[i + 1] \in Byte
    BY <1>1, Element
  <2> QED
    BY <1>1, <2>1 DEF ByteAt
<1>2. CASE ~(i < Len(s))
  BY <1>2 DEF ByteAt, Byte
<1> QED
  BY <1>1, <1>2

LEMMA FourCharacters ==
  ASSUME NEW S, NEW x1 \in S, NEW x2 \in S, NEW x3 \in S, NEW x4 \in S
  PROVE  <<x1, x2, x3, x4>> \in Seq(S) /\ Len(<<x1, x2, x3, x4>>) = 4
OBVIOUS

(* The four groups of six bits of the bytes from i on.                      *)
Sextet1(s, i) == ByteAt(s, i) \div 4
Sextet2(s, i) == ((ByteAt(s, i) % 4) * 16) + (ByteAt(s, i + 1) \div 16)
Sextet3(s, i) == ((ByteAt(s, i + 1) % 16) * 4) + (ByteAt(s, i + 2) \div 64)
Sextet4(s, i) == ByteAt(s, i + 2) % 64

LEMMA Sextets ==
  ASSUME NEW s \in Seq(Byte), NEW i \in Nat
  PROVE  /\ Sextet1(s, i) \in 0 .. 63 /\ Sextet2(s, i) \in 0 .. 63
         /\ Sextet3(s, i) \in 0 .. 63 /\ Sextet4(s, i) \in 0 .. 63
<1> DEFINE a == ByteAt(s, i)
           b == ByteAt(s, i + 1)
           c == ByteAt(s, i + 2)
<1>1. a \in Byte /\ b \in Byte /\ c \in Byte
  BY ByteAtType
<1>2. /\ Sextet1(s, i) = a \div 4
      /\ Sextet2(s, i) = ((a % 4) * 16) + (b \div 16)
      /\ Sextet3(s, i) = ((b % 16) * 4) + (c \div 64)
      /\ Sextet4(s, i) = c % 64
  BY DEF Sextet1, Sextet2, Sextet3, Sextet4
<1> HIDE DEF a, b, c
<1>3. /\ a \div 4 \in 0 .. 63 /\ c % 64 \in 0 .. 63
      /\ ((a % 4) * 16) + (b \div 16) \in 0 .. 63
      /\ ((b % 16) * 4) + (c \div 64) \in 0 .. 63
  BY <1>1 DEF Byte
<1> QED
  BY <1>2, <1>3, Zenon

(* The bytes that are put together from the sextets again.                  *)
LEMMA SextetsJoined ==
  ASSUME NEW s \in Seq(Byte), NEW i \in Nat
  PROVE  /\ ((Sextet1(s, i) * 4) + ((Sextet2(s, i) % 64) \div 16)) % 256 = ByteAt(s, i)
         /\ (((Sextet2(s, i) % 16) * 16) + (Sextet3(s, i) \div 4)) % 256 = ByteAt(s, i + 1)
         /\ (((Sextet3(s, i) % 4) * 64) + Sextet4(s, i)) % 256 = ByteAt(s, i + 2)
<1> DEFINE a == ByteAt(s, i)
           b == ByteAt(s, i + 1)
           c == ByteAt(s, i + 2)
<1>1. a \in 0 .. 255 /\ b \in 0 .. 255 /\ c \in 0 .. 255
  BY ByteAtType DEF Byte
<1>2. /\ Sextet1(s, i) = a \div 4
      /\ Sextet2(s, i) = ((a % 4) * 16) + (b \div 16)
      /\ Sextet3(s, i) = ((b % 16) * 4) + (c \div 64)
      /\ Sextet4(s, i) = c % 64
  BY DEF Sextet1, Sextet2, Sextet3, Sextet4
<1> HIDE DEF a, b, c
<1>3. (((a \div 4) * 4) + (((((a % 4) * 16) + (b \div 16)) % 64) \div 16)) % 256 = a
  BY <1>1
<1>4. ((((((a % 4) * 16) + (b \div 16)) % 16) * 16)
         + ((((b % 16) * 4) + (c \div 64)) \div 4)) % 256 = b
  BY <1>1
<1>5. ((((((b % 16) * 4) + (c \div 64)) % 4) * 64) + (c % 64)) % 256 = c
  BY <1>1
<1> QED
  BY <1>2, <1>3, <1>4, <1>5 DEF a, b, c

(* The characters of one group, and what pos_of_char makes of them.         *)
LEMMA QuantumCharacters ==
  ASSUME NEW u \in {0, 1}, NEW s \in Seq(Byte), NEW i \in Nat, NEW q, q = Quantum(u, s, i)
  PROVE  /\ q \in Seq(Byte) /\ Len(q) = 4
         /\ q[1] \in Alphabet /\ pos_of_char(q[1]) = Sextet1(s, i)
         /\ q[2] \in Alphabet /\ pos_of_char(q[2]) = Sextet2(s, i)
         /\ i + 1 < Len(s) => q[3] \in Alphabet /\ pos_of_char(q[3]) = Sextet3(s, i)
         /\ ~(i + 1 < Len(s)) => isTrailing(q[3])
         /\ i + 2 < Len(s) => q[4] \in Alphabet /\ pos_of_char(q[4]) = Sextet4(s, i)
         /\ ~(i + 2 < Len(s)) => isTrailing(q[4])
<1> DEFINE x1 == base64_chars(u, Sextet1(s, i))
           x2 == base64_chars(u, Sextet2(s, i))
           x3 == IF i + 1 < Len(s) THEN base64_chars(u, Sextet3(s, i)) ELSE trailing_char(u)
           x4 == IF i + 2 < Len(s) THEN base64_chars(u, Sextet4(s, i)) ELSE trailing_char(u)
<1>1. q = <<x1, x2, x3, x4>>
  BY DEF Quantum, Sextet1, Sextet2, Sextet3, Sextet4
<1>2. x1 \in Alphabet /\ pos_of_char(x1) = Sextet1(s, i)
  BY Sextets, PosOfChar
<1>3. x2 \in Alphabet /\ pos_of_char(x2) = Sextet2(s, i)
  BY Sextets, PosOfChar
<1>4. i + 1 < Len(s) => x3 \in Alphabet /\ pos_of_char(x3) = Sextet3(s, i)
  BY Sextets, PosOfChar
<1>5. i + 2 < Len(s) => x4 \in Alphabet /\ pos_of_char(x4) = Sextet4(s, i)
  BY Sextets, PosOfChar
<1>6. trailing_char(u) \in Byte /\ isTrailing(trailing_char(u)) /\ Alphabet \subseteq Byte
  <2>1. Alphabet \subseteq Byte
    BY Characters DEF Byte
  <2>2. trailing_char(u) \in 0 .. 255 /\ isTrailing(trailing_char(u))
    BY Characters, Zenon
  <2> QED
    BY <2>1, <2>2 DEF Byte
<1>7. /\ ~(i + 1 < Len(s)) => x3 = trailing_char(u)
      /\ ~(i + 2 < Len(s)) => x4 = trailing_char(u)
  OBVIOUS
<1> HIDE DEF x1, x2, x3, x4
<1>8. x1 \in Byte /\ x2 \in Byte /\ x3 \in Byte /\ x4 \in Byte
  BY <1>2, <1>3, <1>4, <1>5, <1>6, <1>7
<1>9. q \in Seq(Byte) /\ Len(q) = 4
  BY <1>1, <1>8, FourCharacters
<1>10. q[1] = x1 /\ q[2] = x2 /\ q[3] = x3 /\ q[4] = x4
  BY <1>1
<1>11. /\ ~(i + 1 < Len(s)) => isTrailing(x3)
       /\ ~(i + 2 < Len(s)) => isTrailing(x4)
  BY <1>6, <1>7, Zenon
<1> QED
  BY <1>2, <1>3, <1>4, <1>5, <1>9, <1>10, <1>11, Zenon

(* What the decoder makes of the four characters of one group.             *)
LEMMA QuantumDecodes ==
  ASSUME NEW u \in {0, 1}, NEW s \in Seq(Byte), NEW i \in Nat, i < Len(s),
         NEW q, q = Quantum(u, s, i)
  PROVE  /\ ((pos_of_char(q[1]) * 4) + ((pos_of_char(q[2]) % 64) \div 16)) % 256 = s[i + 1]
         /\ i + 1 < Len(s) =>
              (((pos_of_char(q[2]) % 16) * 16) + (pos_of_char(q[3]) \div 4)) % 256 = s[i + 2]
         /\ i + 2 < Len(s) =>
              (((pos_of_char(q[3]) % 4) * 64) + pos_of_char(q[4])) % 256 = s[i + 3]
<1>1. /\ pos_of_char(q[1]) = Sextet1(s, i) /\ pos_of_char(q[2]) = Sextet2(s, i)
      /\ i + 1 < Len(s) => pos_of_char(q[3]) = Sextet3(s, i)
      /\ i + 2 < Len(s) => pos_of_char(q[4]) = Sextet4(s, i)
  BY QuantumCharacters, Zenon
<1>2. i + 2 < Len(s) => i + 1 < Len(s)
  OBVIOUS
<1>3. /\ ByteAt(s, i) = s[i + 1]
      /\ i + 1 < Len(s) => ByteAt(s, i + 1) = s[i + 2]
      /\ i + 2 < Len(s) => ByteAt(s, i + 2) = s[i + 3]
  BY DEF ByteAt
<1>4. /\ ((Sextet1(s, i) * 4) + ((Sextet2(s, i) % 64) \div 16)) % 256 = ByteAt(s, i)
      /\ (((Sextet2(s, i) % 16) * 16) + (Sextet3(s, i) \div 4)) % 256 = ByteAt(s, i + 1)
      /\ (((Sextet3(s, i) % 4) * 64) + Sextet4(s, i)) % 256 = ByteAt(s, i + 2)
  BY SextetsJoined
<1> QED
  BY <1>1, <1>2, <1>3, <1>4, Zenon

-----------------------------------------------------------------------------
(* Single steps of the two loops.                                           *)

LEMMA CharAtType ==
  ASSUME TypeOK, NEW i \in Nat
  PROVE  /\ CharAt(i) \in Byte
         /\ CharAt(i) \in Alphabet => i < Len(encoded) /\ Code(i) \in 0 .. 63
<1>1. encoded \in Seq(Byte)
  BY DEF TypeOK
<1>2. CASE i < Len(encoded)
  <2>1. encoded[i + 1] \in Byte
    BY <1>1, <1>2, Element
  <2>2. CharAt(i) = encoded[i + 1] /\ Code(i) = pos_of_char(CharAt(i))
    BY <1>2 DEF CharAt, Code
  <2> QED
    BY <1>2, <2>1, <2>2, SextetOf, Zenon
<1>3. CASE ~(i < Len(encoded))
  <2>1. CharAt(i) = 0
    BY <1>3 DEF CharAt, NUL
  <2>2. 0 \notin Alphabet /\ 0 \in Byte
    BY DEF Alphabet, Byte
  <2> QED
    BY <2>1, <2>2
<1> QED
  BY <1>2, <1>3

(* A byte is appended; those before it stay.                                *)
LEMMA YieldsAppends ==
  ASSUME TypeOK, NEW n \in Int, Yields(n)
  PROVE  /\ decoded' \in Seq(Byte)
         /\ Len(decoded') = Len(decoded) + 1
         /\ decoded'[Len(decoded) + 1] = n % 256
         /\ \A i \in 1 .. Len(decoded) : decoded'[i] = decoded[i]
<1>1. decoded \in Seq(Byte)
  BY DEF TypeOK
<1>2. n % 256 \in Byte
  BY DEF Byte
<1> QED
  BY <1>1, <1>2 DEF Yields

LEMMA DecodedMore ==
  ASSUME TypeOK, NEW m \in Nat, Decoded(m), NEW n \in Int, Yields(n),
         m < Len(input), n % 256 = input[m + 1], UNCHANGED input
  PROVE  Decoded(m + 1)'
<1>1. /\ Len(decoded') = m + 1 /\ decoded'[m + 1] = input[m + 1]
      /\ \A i \in 1 .. m : decoded'[i] = input[i]
  BY YieldsAppends DEF Decoded
<1> QED
  BY <1>1 DEF Decoded, TypeOK

(* The types of the expressions the decoder casts to a byte.                *)
LEMMA CastTypes ==
  ASSUME TypeOK, pos \in Nat
  PROVE  /\ CharAt(pos) \in Alphabet /\ CharAt(pos + 1) \in Alphabet =>
              (Code(pos) * 4) + ((Code(pos + 1) % 64) \div 16) \in Int
         /\ CharAt(pos + 1) \in Alphabet /\ CharAt(pos + 2) \in Alphabet =>
              ((Code(pos + 1) % 16) * 16) + (Code(pos + 2) \div 4) \in Int
         /\ CharAt(pos + 2) \in Alphabet /\ CharAt(pos + 3) \in Alphabet =>
              ((Code(pos + 2) % 4) * 64) + Code(pos + 3) \in Int
<1>1. /\ CharAt(pos) \in Alphabet => Code(pos) \in 0 .. 63
      /\ CharAt(pos + 1) \in Alphabet => Code(pos + 1) \in 0 .. 63
      /\ CharAt(pos + 2) \in Alphabet => Code(pos + 2) \in 0 .. 63
      /\ CharAt(pos + 3) \in Alphabet => Code(pos + 3) \in 0 .. 63
  BY CharAtType
<1> QED
  BY <1>1

-----------------------------------------------------------------------------
(* One lemma for each part of the invariant.                                *)

LEMMA TypeStep ==
  ASSUME CodecInv, Next
  PROVE  TypeOK'
<1>1. TypeOK /\ TextInv
  BY DEF CodecInv
<1> USE <1>1
<1>2. CASE EncodeQuantum
  <2>1. Quantum(url, input, pos) \in Seq(Byte)
    BY QuantumCharacters DEF TypeOK
  <2> QED
    BY <1>2, <2>1 DEF EncodeQuantum, TypeOK
<1>3. CASE EncodeReturns
  BY <1>3 DEF EncodeReturns, TypeOK
<1>4. CASE DecodeFirst
  <2>1. decoded' \in Seq(Byte)
    BY <1>4, CastTypes, YieldsAppends DEF DecodeFirst, Throws, TypeOK
  <2> QED
    BY <1>4, <2>1 DEF DecodeFirst, Throws, TypeOK
<1>5. CASE DecodeSecond
  <2>1. decoded' \in Seq(Byte)
    BY <1>5, CastTypes, YieldsAppends DEF DecodeSecond, Throws, TypeOK, TextInv
  <2> QED
    BY <1>5, <2>1 DEF DecodeSecond, Throws, NextQuantum, TypeOK
<1>6. CASE DecodeThird
  <2>1. decoded' \in Seq(Byte)
    BY <1>6, CastTypes, YieldsAppends DEF DecodeThird, Throws, TypeOK, TextInv
  <2> QED
    BY <1>6, <2>1 DEF DecodeThird, Throws, NextQuantum, TypeOK
<1>7. CASE DecodeReturns
  BY <1>7 DEF DecodeReturns, TypeOK
<1> QED
  BY <1>2, <1>3, <1>4, <1>5, <1>6, <1>7 DEF Next

LEMMA TextStep ==
  ASSUME CodecInv, Next
  PROVE  TextInv'
<1>1. TypeOK /\ TextInv
  BY DEF CodecInv
<1>2. CASE EncodeQuantum \/ EncodeReturns \/ DecodeReturns
  BY <1>1, <1>2 DEF EncodeQuantum, EncodeReturns, DecodeReturns, TextInv
<1>3. CASE DecodeFirst
  BY <1>1, <1>3 DEF DecodeFirst, Throws, TextInv, CharAt
<1>4. CASE DecodeSecond
  BY <1>1, <1>4 DEF DecodeSecond, Throws, NextQuantum, TextInv, CharAt
<1>5. CASE DecodeThird
  BY <1>1, <1>5 DEF DecodeThird, Throws, NextQuantum, TextInv, CharAt
<1> QED
  BY <1>2, <1>3, <1>4, <1>5 DEF Next

(* The encoder appends the characters of one more group.                    *)
LEMMA EncodingGrows ==
  ASSUME TypeOK, NEW k \in Nat, pos = 3 * k, IsEncoding(k), EncodeQuantum
  PROVE  IsEncoding(k + 1)'
<1> DEFINE q == Quantum(url, input, pos)
<1>1. q \in Seq(Byte) /\ Len(q) = 4
  BY QuantumCharacters DEF TypeOK
<1>2. encoded' = encoded \o q /\ UNCHANGED <<url, input>>
  BY DEF EncodeQuantum
<1>3. encoded \in Seq(Byte) /\ Len(encoded) = 4 * k
  BY DEF TypeOK, IsEncoding
<1> HIDE DEF q
<1>4. /\ Len(encoded') = Len(encoded) + 4
      /\ \A i \in 1 .. Len(encoded) : encoded'[i] = encoded[i]
      /\ \A i \in 1 .. 4 : encoded'[Len(encoded) + i] = q[i]
  <2>1. encoded \in Seq(Byte) /\ q \in Seq(Byte)
    BY <1>1, <1>3
  <2>2. Len(encoded \o q) = Len(encoded) + Len(q)
    BY <2>1
  <2>3. \A i \in 1 .. Len(encoded) : (encoded \o q)[i] = encoded[i]
    BY <2>1
  <2>4. \A i \in 1 .. Len(q) : (encoded \o q)[Len(encoded) + i] = q[i]
    BY <2>1
  <2> QED
    BY <1>1, <1>2, <2>2, <2>3, <2>4
<1>5. Len(encoded') = 4 * (k + 1)
  BY <1>3, <1>4
<1>6. ASSUME NEW j \in 0 .. k, NEW i \in 1 .. 4
      PROVE  encoded'[(4 * j) + i] = Quantum(url, input, 3 * j)[i]
  <2>1. CASE j < k
    <3>1. (4 * j) + i \in 1 .. Len(encoded)
      BY <1>3, <2>1
    <3>2. encoded'[(4 * j) + i] = encoded[(4 * j) + i]
      BY <1>4, <3>1
    <3>3. j \in 0 .. k - 1
      BY <2>1
    <3>4. encoded[(4 * j) + i] = Quantum(url, input, 3 * j)[i]
      BY <3>3 DEF IsEncoding
    <3> QED
      BY <3>2, <3>4
  <2>2. CASE j = k
    <3>1. encoded'[(4 * k) + i] = q[i]
      BY <1>3, <1>4
    <3> QED
      BY <2>2, <3>1 DEF q
  <2> QED
    BY <2>1, <2>2
<1>7. \A j \in 0 .. (k + 1) - 1, i \in 1 .. 4 : encoded'[(4 * j) + i] = Quantum(url, input, 3 * j)[i]
  <2>1. (k + 1) - 1 = k
    OBVIOUS
  <2> QED
    BY <1>6, <2>1
<1> QED
  BY <1>2, <1>5, <1>7 DEF IsEncoding

LEMMA EncodeStep ==
  ASSUME CodecInv, Next
  PROVE  EncodeInv'
<1>1. TypeOK /\ EncodeInv /\ TextInv
  BY DEF CodecInv
<1>2. CASE EncodeQuantum
  <2>1. given = "bytes" /\ pc = "encode" /\ decoded = <<>>
    BY <1>1, <1>2 DEF EncodeQuantum, TextInv, EncodeInv
  <2>2. PICK k \in Nat : pos = 3 * k /\ k = pos \div 3 /\ k <= Groups
    BY <1>1, <2>1 DEF EncodeInv, TypeOK
  <2>3. IsEncoding(k)
    BY <1>1, <2>1, <2>2 DEF EncodeInv
  <2>4. IsEncoding(k + 1)'
    BY <1>1, <1>2, <2>2, <2>3, EncodingGrows
  <2>5. pos' = 3 * (k + 1) /\ pos' % 3 = 0 /\ pos' \div 3 = k + 1
    BY <1>2, <2>2 DEF EncodeQuantum
  <2>6. k + 1 <= Groups
    BY <1>1, <1>2, <2>2 DEF EncodeQuantum, Groups, TypeOK
  <2>7. Groups' = Groups /\ pc' = pc /\ decoded' = decoded
    BY <1>2 DEF EncodeQuantum, Groups
  <2> QED
    BY <2>1, <2>4, <2>5, <2>6, <2>7 DEF EncodeInv
<1>3. CASE EncodeReturns
  <2>1. given = "bytes" /\ pc = "encode"
    BY <1>1, <1>3 DEF EncodeReturns, TextInv
  <2>2. pos \div 3 = Groups
    BY <1>1, <1>3, <2>1 DEF EncodeReturns, EncodeInv, Groups, TypeOK
  <2>3. IsEncoding(Groups)
    BY <1>1, <2>1, <2>2 DEF EncodeInv
  <2> QED
    BY <1>3, <2>3 DEF EncodeReturns, EncodeInv, IsEncoding, Groups
<1>4. CASE DecodeFirst \/ DecodeSecond \/ DecodeThird \/ DecodeReturns
  <2>1. pc # "encode" /\ pc' # "encode" /\ UNCHANGED <<url, input, given, encoded>>
    BY <1>4 DEF DecodeFirst, DecodeSecond, DecodeThird, DecodeReturns, Throws, NextQuantum
  <2> QED
    BY <1>1, <2>1 DEF EncodeInv, IsEncoding, Groups
<1> QED
  BY <1>2, <1>3, <1>4 DEF Next

-----------------------------------------------------------------------------
(* The decoder, on what the encoder has made.                               *)

(* The characters of group j are those the encoder wrote for it.            *)
LEMMA GroupRead ==
  ASSUME TypeOK, IsEncoding(Groups), NEW j \in Nat, j < Groups, pos = 4 * j,
         NEW q, q = Quantum(url, input, 3 * j)
  PROVE  /\ CharAt(pos) = q[1] /\ CharAt(pos + 1) = q[2]
         /\ CharAt(pos + 2) = q[3] /\ CharAt(pos + 3) = q[4]
         /\ 3 * j < Len(input)
<1>1. Groups \in Nat /\ 3 * j < Len(input)
  BY DEF Groups, TypeOK
<1>2. Len(encoded) = 4 * Groups /\ j \in 0 .. Groups - 1
  BY <1>1 DEF IsEncoding
<1>3. \A i \in 1 .. 4 : encoded[(4 * j) + i] = q[i]
  BY <1>2 DEF IsEncoding
<1>4. /\ encoded[pos + 1] = q[1] /\ encoded[pos + 2] = q[2]
      /\ encoded[pos + 3] = q[3] /\ encoded[pos + 4] = q[4]
  BY <1>3
<1>5. pos < Len(encoded) /\ pos + 1 < Len(encoded) /\ pos + 2 < Len(encoded) /\ pos + 3 < Len(encoded)
  BY <1>1, <1>2
<1>6. (pos + 1) + 1 = pos + 2 /\ (pos + 2) + 1 = pos + 3 /\ (pos + 3) + 1 = pos + 4
  OBVIOUS
<1> QED
  BY <1>1, <1>4, <1>5, <1>6 DEF CharAt

(* The group the decoder is in, and how much it has decoded.                *)
LEMMA GroupOfPos ==
  ASSUME CodecInv, given = "bytes", pc \in {"first", "second", "third"},
         pc = "first" => pos < Len(encoded)
  PROVE  \E j \in Nat :
           /\ pos = 4 * j /\ j < Groups
           /\ pc = "first" => Decoded(3 * j)
           /\ pc = "second" => Decoded((3 * j) + 1)
           /\ pc = "third" => Decoded((3 * j) + 2)
<1>1. TypeOK /\ IsEncoding(Groups) /\ DecodeInv
  BY DEF CodecInv, EncodeInv
<1> DEFINE j == pos \div 4
<1>2. pos % 4 = 0
  BY <1>1 DEF DecodeInv
<1>3. j \in Nat /\ pos = 4 * j
  BY <1>1, <1>2 DEF TypeOK
<1>4. Groups \in Nat /\ Len(encoded) = 4 * Groups
  BY <1>1 DEF Groups, IsEncoding, TypeOK
<1>5. CASE pc = "first"
  <2>1. j < Groups
    BY <1>3, <1>4, <1>5
  <2> QED
    BY <1>1, <1>3, <1>5, <2>1 DEF DecodeInv
<1>6. CASE pc = "second"
  <2>1. Decoded((3 * j) + 1)
    BY <1>1, <1>6 DEF DecodeInv
  <2>2. j < Groups
    BY <1>1, <1>3, <2>1 DEF Decoded, Groups, TypeOK
  <2> QED
    BY <1>3, <1>6, <2>1, <2>2
<1>7. CASE pc = "third"
  <2>1. Decoded((3 * j) + 2)
    BY <1>1, <1>7 DEF DecodeInv
  <2>2. j < Groups
    BY <1>1, <1>3, <2>1 DEF Decoded, Groups, TypeOK
  <2> QED
    BY <1>3, <1>7, <2>1, <2>2
<1> QED
  BY <1>5, <1>6, <1>7

LEMMA DecodeFirstStep ==
  ASSUME CodecInv, DecodeFirst
  PROVE  DecodeInv'
<1>1. TypeOK /\ EncodeInv /\ pc = "first" /\ pos < Len(encoded) /\ UNCHANGED <<url, input, given, encoded>>
  BY DEF CodecInv, DecodeFirst
<1>2. SUFFICES ASSUME given = "bytes"
               PROVE  DecodeInv'
  BY <1>1 DEF DecodeInv
<1>3. IsEncoding(Groups)
  BY <1>1, <1>2 DEF EncodeInv
<1>4. PICK j \in Nat : pos = 4 * j /\ j < Groups /\ Decoded(3 * j)
  BY <1>1, <1>2, GroupOfPos
<1> DEFINE q == Quantum(url, input, 3 * j)
<1>5. CharAt(pos) = q[1] /\ CharAt(pos + 1) = q[2] /\ 3 * j < Len(input)
  BY <1>1, <1>3, <1>4, GroupRead
<1>6. /\ CharAt(pos) \in Alphabet /\ CharAt(pos + 1) \in Alphabet
      /\ ((Code(pos) * 4) + ((Code(pos + 1) % 64) \div 16)) % 256 = input[(3 * j) + 1]
  <2>1. q[1] \in Alphabet /\ q[2] \in Alphabet
    <3>1. url \in {0, 1} /\ input \in Seq(Byte) /\ 3 * j \in Nat
      BY <1>1 DEF TypeOK
    <3> QED
      BY <3>1, QuantumCharacters, Zenon
  <2>2. ((pos_of_char(q[1]) * 4) + ((pos_of_char(q[2]) % 64) \div 16)) % 256 = input[(3 * j) + 1]
    BY <1>1, <1>5, QuantumDecodes DEF TypeOK
  <2> QED
    BY <1>5, <2>1, <2>2, Zenon DEF Code
<1>7. /\ Yields((Code(pos) * 4) + ((Code(pos + 1) % 64) \div 16))
      /\ pc' = "second" /\ pos' = pos
  BY <1>6 DEF DecodeFirst
<1>8. Decoded((3 * j) + 1)'
  BY <1>1, <1>4, <1>5, <1>6, <1>7, CastTypes, DecodedMore DEF TypeOK
<1>9. pos' % 4 = 0 /\ pos' \div 4 = j
  BY <1>4, <1>7
<1> QED
  BY <1>7, <1>8, <1>9 DEF DecodeInv

LEMMA DecodeSecondStep ==
  ASSUME CodecInv, DecodeSecond
  PROVE  DecodeInv'
<1>1. /\ TypeOK /\ EncodeInv /\ TextInv /\ pc = "second"
      /\ UNCHANGED <<url, input, given, encoded>>
  BY DEF CodecInv, DecodeSecond
<1>2. SUFFICES ASSUME given = "bytes"
               PROVE  DecodeInv'
  BY <1>1 DEF DecodeInv
<1>3. IsEncoding(Groups)
  BY <1>1, <1>2 DEF EncodeInv
<1>4. PICK j \in Nat : pos = 4 * j /\ j < Groups /\ Decoded((3 * j) + 1)
  BY <1>1, <1>2, GroupOfPos
<1> DEFINE q == Quantum(url, input, 3 * j)
<1>5. CharAt(pos + 1) = q[2] /\ CharAt(pos + 2) = q[3] /\ 3 * j < Len(input)
  BY <1>1, <1>3, <1>4, GroupRead
<1>6. CASE (3 * j) + 1 < Len(input)
  <2>1. q[2] \in Alphabet /\ q[3] \in Alphabet
    <3>1. url \in {0, 1} /\ input \in Seq(Byte) /\ 3 * j \in Nat
      BY <1>1 DEF TypeOK
    <3> QED
      BY <1>6, <3>1, QuantumCharacters, Zenon
  <2>2. (((pos_of_char(q[2]) % 16) * 16) + (pos_of_char(q[3]) \div 4)) % 256 = input[(3 * j) + 2]
    BY <1>1, <1>5, <1>6, QuantumDecodes DEF TypeOK
  <2>3. /\ CharAt(pos + 1) \in Alphabet /\ CharAt(pos + 2) \in Alphabet
        /\ (((Code(pos + 1) % 16) * 16) + (Code(pos + 2) \div 4)) % 256 = input[(3 * j) + 2]
    BY <1>5, <2>1, <2>2, Zenon DEF Code
  <2>4. /\ Yields(((Code(pos + 1) % 16) * 16) + (Code(pos + 2) \div 4))
        /\ pc' = "third" /\ pos' = pos
    BY <2>3, Characters DEF DecodeSecond
  <2>5. Decoded((3 * j) + 2)'
    <3>1. ((3 * j) + 1) + 1 = (3 * j) + 2
      OBVIOUS
    <3> QED
      BY <1>1, <1>4, <1>6, <2>3, <2>4, <3>1, CastTypes, DecodedMore DEF TypeOK
  <2>6. pos' % 4 = 0 /\ pos' \div 4 = j
    BY <1>4, <2>4
  <2> QED
    BY <2>4, <2>5, <2>6 DEF DecodeInv
<1>7. CASE ~((3 * j) + 1 < Len(input))
  <2>1. isTrailing(CharAt(pos + 2))
    <3>1. url \in {0, 1} /\ input \in Seq(Byte) /\ 3 * j \in Nat
      BY <1>1 DEF TypeOK
    <3>2. isTrailing(q[3])
      BY <1>7, <3>1, QuantumCharacters, Zenon
    <3> QED
      BY <1>5, <3>2, Zenon
  <2>2. NextQuantum /\ UNCHANGED decoded
    BY <2>1, Characters DEF DecodeSecond
  <2>3. (3 * j) + 1 = Len(input) /\ Groups = j + 1
    <3> DEFINE n == Len(input)
    <3>1. j \in Nat /\ n \in Nat /\ 3 * j < n /\ ~((3 * j) + 1 < n)
      BY <1>1, <1>5, <1>7 DEF TypeOK
    <3> HIDE DEF n
    <3>2. n = (3 * j) + 1 /\ (n + 2) \div 3 = j + 1
      BY <3>1
    <3> QED
      BY <3>2 DEF Groups, n
  <2>4. pos' % 4 = 0 /\ pos' \div 4 = Groups'
    BY <1>1, <1>4, <2>2, <2>3 DEF NextQuantum, Groups
  <2>5. Decoded(Len(input))'
    BY <1>1, <1>4, <2>2, <2>3 DEF Decoded
  <2> QED
    BY <2>2, <2>4, <2>5 DEF DecodeInv, NextQuantum
<1> QED
  BY <1>6, <1>7

LEMMA DecodeThirdStep ==
  ASSUME CodecInv, DecodeThird
  PROVE  DecodeInv'
<1>1. /\ TypeOK /\ EncodeInv /\ TextInv /\ pc = "third"
      /\ UNCHANGED <<url, input, given, encoded>>
  BY DEF CodecInv, DecodeThird
<1>2. SUFFICES ASSUME given = "bytes"
               PROVE  DecodeInv'
  BY <1>1 DEF DecodeInv
<1>3. IsEncoding(Groups)
  BY <1>1, <1>2 DEF EncodeInv
<1>4. PICK j \in Nat : pos = 4 * j /\ j < Groups /\ Decoded((3 * j) + 2)
  BY <1>1, <1>2, GroupOfPos
<1> DEFINE q == Quantum(url, input, 3 * j)
<1>5. CharAt(pos + 2) = q[3] /\ CharAt(pos + 3) = q[4] /\ 3 * j < Len(input)
  BY <1>1, <1>3, <1>4, GroupRead
<1>6. url \in {0, 1} /\ input \in Seq(Byte) /\ 3 * j \in Nat
  BY <1>1 DEF TypeOK
<1>7. (3 * j) + 2 <= Len(input) /\ (3 * j) + 1 < Len(input)
  BY <1>1, <1>4 DEF Decoded, TypeOK
<1>8. NextQuantum
  <2>1. CASE (3 * j) + 2 < Len(input)
    <3>1. q[4] \in Alphabet
      BY <1>6, <2>1, QuantumCharacters, Zenon
    <3> QED
      BY <1>5, <3>1, Characters DEF DecodeThird
  <2>2. CASE ~((3 * j) + 2 < Len(input))
    <3>1. isTrailing(q[4])
      BY <1>6, <2>2, QuantumCharacters, Zenon
    <3>2. isTrailing(CharAt(pos + 3))
      BY <1>5, <3>1, Zenon
    <3> QED
      BY <3>2, Characters DEF DecodeThird
  <2> QED
    BY <2>1, <2>2
<1>9. pos' % 4 = 0 /\ pos' \div 4 = j + 1 /\ pc' = "first" /\ Groups' = Groups
  BY <1>1, <1>4, <1>8 DEF NextQuantum, Groups
<1>10. CASE (3 * j) + 2 < Len(input)
  <2>1. q[3] \in Alphabet /\ q[4] \in Alphabet
    BY <1>6, <1>7, <1>10, QuantumCharacters, Zenon
  <2>2. (((pos_of_char(q[3]) % 4) * 64) + pos_of_char(q[4])) % 256 = input[(3 * j) + 3]
    BY <1>5, <1>6, <1>10, QuantumDecodes
  <2>3. /\ CharAt(pos + 2) \in Alphabet /\ CharAt(pos + 3) \in Alphabet
        /\ (((Code(pos + 2) % 4) * 64) + Code(pos + 3)) % 256 = input[(3 * j) + 3]
    BY <1>5, <2>1, <2>2, Zenon DEF Code
  <2>4. Yields(((Code(pos + 2) % 4) * 64) + Code(pos + 3))
    BY <2>3, Characters DEF DecodeThird
  <2>5. Decoded((3 * j) + 3)'
    <3>1. ((3 * j) + 2) + 1 = (3 * j) + 3
      OBVIOUS
    <3> QED
      BY <1>1, <1>4, <1>10, <2>3, <2>4, <3>1, CastTypes, DecodedMore DEF TypeOK
  <2>6. CASE j + 1 < Groups
    <3>1. Decoded(3 * (j + 1))'
      BY <2>5
    <3> QED
      BY <1>9, <2>6, <3>1 DEF DecodeInv
  <2>7. CASE ~(j + 1 < Groups)
    <3>1. j + 1 = Groups /\ (3 * j) + 3 = Len(input)
      BY <1>4, <1>6, <1>10, <2>7 DEF Groups
    <3>2. Decoded(Len(input))'
      BY <1>1, <2>5, <3>1 DEF Decoded
    <3> QED
      BY <1>9, <3>1, <3>2 DEF DecodeInv
  <2> QED
    BY <2>6, <2>7
<1>11. CASE ~((3 * j) + 2 < Len(input))
  <2>1. isTrailing(CharAt(pos + 3))
    <3>1. isTrailing(q[4])
      BY <1>6, <1>11, QuantumCharacters, Zenon
    <3> QED
      BY <1>5, <3>1, Zenon
  <2>2. UNCHANGED decoded
    BY <2>1, Characters DEF DecodeThird
  <2>3. (3 * j) + 2 = Len(input) /\ Groups = j + 1
    BY <1>6, <1>7, <1>11 DEF Groups
  <2>4. Decoded(Len(input))'
    BY <1>1, <1>4, <2>2, <2>3 DEF Decoded
  <2> QED
    BY <1>9, <2>3, <2>4 DEF DecodeInv
<1> QED
  BY <1>10, <1>11

LEMMA DecodeStep ==
  ASSUME CodecInv, Next
  PROVE  DecodeInv'
<1>1. TypeOK /\ EncodeInv /\ DecodeInv /\ TextInv
  BY DEF CodecInv
<1>2. CASE EncodeQuantum
  BY <1>2 DEF EncodeQuantum, DecodeInv
<1>3. CASE EncodeReturns
  <2>1. decoded = <<>> /\ pos' = 0 /\ pc' = "first" /\ UNCHANGED <<input, decoded>>
    BY <1>1, <1>3 DEF EncodeReturns, EncodeInv, TextInv
  <2>2. CASE Groups = 0
    <3>1. Len(input) = 0
      BY <1>1, <2>2 DEF Groups, TypeOK
    <3> QED
      BY <2>1, <2>2, <3>1 DEF DecodeInv, Decoded, Groups
  <2>3. CASE Groups # 0
    <3>1. Groups \in Nat /\ 0 < Groups /\ 0 <= Len(input)
      BY <1>1, <2>3 DEF Groups, TypeOK
    <3> QED
      BY <2>1, <3>1 DEF DecodeInv, Decoded, Groups
  <2> QED
    BY <2>2, <2>3
<1>4. CASE DecodeFirst
  BY <1>4, DecodeFirstStep
<1>5. CASE DecodeSecond
  BY <1>5, DecodeSecondStep
<1>6. CASE DecodeThird
  BY <1>6, DecodeThirdStep
<1>7. CASE DecodeReturns
  <2>1. SUFFICES ASSUME given = "bytes"
                 PROVE  DecodeInv'
    BY <1>7 DEF DecodeReturns, DecodeInv
  <2>2. pc = "first" /\ pos >= Len(encoded) /\ IsEncoding(Groups) /\ Groups \in Nat
    BY <1>1, <1>7, <2>1 DEF DecodeReturns, EncodeInv, Groups, TypeOK
  <2>3. ~(pos \div 4 < Groups)
    BY <1>1, <2>2 DEF IsEncoding, TypeOK
  <2>4. pos % 4 = 0 /\ pos \div 4 = Groups /\ Decoded(Len(input))
    BY <1>1, <2>1, <2>2, <2>3 DEF DecodeInv
  <2> QED
    BY <1>7, <2>4 DEF DecodeReturns, DecodeInv, Decoded, Groups
<1> QED
  BY <1>2, <1>3, <1>4, <1>5, <1>6, <1>7 DEF Next

-----------------------------------------------------------------------------
(* For all byte strings and all texts, after every iteration of both loops: *)
(* the encoder has written the characters, and the decoder the bytes, of    *)
(* what lies behind pos (base64_encode, base64_decode).                     *)
THEOREM CodecInvariant == Spec => []CodecInv
<1>1. Init => CodecInv
  <2> SUFFICES ASSUME Init PROVE CodecInv
    OBVIOUS
  <2>1. TypeOK
    <3>1. Inputs \subseteq Seq(Byte) /\ Texts \subseteq Seq(Byte) /\ <<>> \in Seq(Byte)
      BY StringsAssumption
    <3>2. input \in Seq(Byte) /\ encoded \in Seq(Byte) /\ decoded \in Seq(Byte)
      BY <3>1 DEF Init
    <3> QED
      BY <3>2 DEF Init, TypeOK
  <2>2. EncodeInv
    <3>1. CASE given = "bytes"
      <4>1. pc = "encode" /\ pos = 0 /\ encoded = <<>> /\ decoded = <<>>
        BY <3>1 DEF Init
      <4>2. Groups \in Nat
        BY <2>1 DEF Groups, TypeOK
      <4> QED
        BY <4>1, <4>2 DEF EncodeInv, IsEncoding
    <3> QED
      BY <3>1 DEF EncodeInv
  <2>3. DecodeInv /\ TextInv
    BY DEF Init, DecodeInv, TextInv
  <2> QED
    BY <2>1, <2>2, <2>3 DEF CodecInv
<1>2. CodecInv /\ [Next]_vars => CodecInv'
  <2>1. ASSUME CodecInv, Next PROVE CodecInv'
    BY <2>1, TypeStep, TextStep, EncodeStep, DecodeStep DEF CodecInv
  <2>2. ASSUME CodecInv, UNCHANGED vars PROVE CodecInv'
    BY <2>2 DEF vars, CodecInv, TypeOK, EncodeInv, DecodeInv, TextInv, IsEncoding, Decoded,
      Groups, CharAt
  <2> QED
    BY <2>1, <2>2
<1> QED
  BY <1>1, <1>2, PTL DEF Spec

(* Whatever bytes one side receives, the other side writes: decoding what   *)
(* was encoded throws nothing and gives the same bytes back.               *)
THEOREM RoundTripHolds == Spec => []RoundTrip
<1>1. CodecInv => RoundTrip
  <2> SUFFICES ASSUME CodecInv, given = "bytes" PROVE pc # "threw" /\ (pc = "returned" => decoded = input)
    BY DEF RoundTrip
  <2>1. pc # "threw"
    BY DEF CodecInv, DecodeInv
  <2>2. ASSUME pc = "returned" PROVE decoded = input
    <3>1. Decoded(Len(input)) /\ decoded \in Seq(Byte) /\ input \in Seq(Byte)
      BY <2>2 DEF CodecInv, DecodeInv, TypeOK
    <3> QED
      BY <3>1 DEF Decoded
  <2> QED
    BY <2>1, <2>2
<1> QED
  BY <1>1, CodecInvariant, PTL

(* Whatever text a client sends, no character behind the NUL that ends it   *)
(* is read (decode, which tests pos against the length only once a group).  *)
THEOREM DecoderStaysInBounds == Spec => []ReadsInBounds
<1>1. CodecInv => ReadsInBounds
  <2> SUFFICES ASSUME CodecInv PROVE ReadsInBounds
    OBVIOUS
  <2>1. TypeOK /\ TextInv
    BY DEF CodecInv
  <2>2. /\ pc \in {"second", "third"} => pos + 1 < Len(encoded)
        /\ pc = "third" => pos + 2 < Len(encoded)
    BY <2>1, CharAtType DEF TextInv, TypeOK
  <2> QED
    BY <2>1, <2>2 DEF ReadsInBounds, TypeOK
<1> QED
  BY <1>1, CodecInvariant, PTL

-----------------------------------------------------------------------------
(* What a call has returned is what its function makes of its arguments.    *)
CallInv ==
  /\ call \in Parses \cup Breaks \cup Removes \cup Dumps \cup CommandLines \cup Settings
  /\ Returned("messageParse") =>
       value = messageParse(call.type, call.rcv, call.send, call.message)
  /\ Returned("insert_linebreaks") => value = insert_linebreaks(call.text, call.distance)
  /\ Returned("remove_linebreaks") => value = remove_linebreaks(call.text)
  /\ Returned("hexDump") => value = hexDump(call.bytes, [k \in 0 .. Width |-> call.stack])
  /\ Returned("set_option") => value = CalledWith(call.given)
  /\ Returned("set_options") => value = set_options(call.given)

LEMMA CallInvariant == CallSpec => []CallInv
<1>1. CallInit => CallInv
  BY DEF CallInit, CallInv, Returned, Is, NoResult
<1>2. CallInv /\ [CallNext]_callVars => CallInv'
  <2> SUFFICES ASSUME CallInv, [CallNext]_callVars PROVE CallInv'
    OBVIOUS
  <2>1. CASE UNCHANGED callVars
    BY <2>1 DEF CallInv, Returned, Is, value, callVars, NoResult
  <2>2. CASE CallNext
    <3>1. call' = call
      BY <2>2 DEF CallNext, Return
    <3>2. ASSUME NEW name, NEW v, Return(name, v)
          PROVE  Is(name) /\ result' # NoResult /\ value' = v
      BY <3>2 DEF Return, value, NoResult, Is
    <3> QED
      BY <2>2, <3>1, <3>2 DEF CallNext, CallInv, Returned, Is
  <2> QED
    BY <2>1, <2>2
<1> QED
  BY <1>1, <1>2, PTL DEF CallSpec

(* The arguments of each function. *)
LEMMA Arguments ==
  ASSUME CallInv
  PROVE  /\ Is("messageParse") => call \in Parses
         /\ Is("insert_linebreaks") => call \in Breaks
         /\ Is("remove_linebreaks") => call \in Removes
         /\ Is("hexDump") => call \in Dumps
         /\ Is("set_options") => call \in CommandLines
         /\ Is("set_option") => call \in Settings
BY DEF CallInv, Is, Parses, Breaks, Removes, Dumps, CommandLines, Settings

-----------------------------------------------------------------------------
(* The options. *)
AnOption == OptionsWith(Words)
Names == TextOptions \cup Switches \cup {"buffer_size", "help"}
Sizes == {UnsignedInt(n) : n \in Int} \cup {0, DefaultSize}
Records ==
  [texts : [TextOptions -> Words \cup {NoText}], buffer_size : Sizes, settings : SUBSET Names]

LEMMA OptionFacts ==
  ASSUME NEW opt \in AnOption
  PROVE  /\ opt[1] \in Names
         /\ opt[1] \in TextOptions => opt[2] \in Words
         /\ opt[1] = "buffer_size" => opt[2] \in Int
         /\ opt[1] = "fork" => opt[2] = NoText
BY DEF AnOption, OptionsWith, Names, TextOptions, Switches, Informs

LEMMA ReadOptionType ==
  ASSUME NEW opts \in Records, NEW opt \in AnOption
  PROVE  ReadOption(opts, opt) \in Records /\ set_option(opts, opt) \in Records
<1>1. ASSUME NEW o \in Records PROVE ReadOption(o, opt) \in Records
  <2>1. Bits(opt[1]) \subseteq Names
    BY OptionFacts DEF Bits, Names, Switches
  <2>2. opt[1] = "buffer_size" => UnsignedInt(opt[2]) \in Sizes
    BY OptionFacts DEF Sizes
  <2>3. opt[1] \in TextOptions => opt[2] \in Words
    BY OptionFacts
  <2>4. o.settings \cup Bits(opt[1]) \in SUBSET Names
    BY <2>1 DEF Records
  <2>5. (IF opt[1] = "buffer_size" THEN UnsignedInt(opt[2]) ELSE o.buffer_size) \in Sizes
    BY <2>2 DEF Records
  <2>6. (IF opt[1] \in TextOptions THEN [o.texts EXCEPT ![opt[1]] = opt[2]] ELSE o.texts)
           \in [TextOptions -> Words \cup {NoText}]
    BY <2>3 DEF Records
  <2> QED
    BY <2>4, <2>5, <2>6 DEF ReadOption, Records
<1>2. [opts EXCEPT !.buffer_size = DefaultSize] \in Records
  BY DEF Records, Sizes
<1> QED
  BY <1>1, <1>2 DEF set_option

(* The settings after each of the calls, and after each of the words.       *)
LEMMA CalledRounds ==
  ASSUME NEW calls \in Seq(AnOption)
  PROVE  \E f : /\ f[0] = NoOptions
                /\ \A k \in 1 .. Len(calls) : f[k] = set_option(f[k - 1], calls[k])
                /\ CalledWith(calls) = f[Len(calls)]
<1> DEFINE n == Len(calls)
           Value(f, k) == IF k = 0 THEN NoOptions ELSE set_option(f[k - 1], calls[k])
           body == [k \in 1 .. n |-> [o \in Records |-> set_option(o, calls[k])]]
<1>1. n \in Nat /\ NoOptions \in Records
  BY DEF NoOptions, Records, Sizes
<1>2. body \in [1 .. n -> [Records -> Records]]
  BY ReadOptionType
<1>3. PICK g \in [0 .. n -> Records] : Rounds(g, NoOptions, body, n)
  <2> HIDE DEF body, n
  <2> QED
    BY <1>1, <1>2, LoopExists
<1>4. g = [k \in 0 .. n |-> Value(g, k)]
  <2>1. ASSUME NEW k \in 0 .. n PROVE g[k] = Value(g, k)
    BY <1>1, <1>3, <2>1 DEF Rounds
  <2> QED
    BY <2>1
<1> DEFINE h == CHOOSE f : f = [k \in 0 .. n |-> Value(f, k)]
<1>5. h = [k \in 0 .. n |-> Value(h, k)]
  BY <1>4
<1>6. CalledWith(calls) = h[n]
  BY DEF CalledWith
<1> HIDE DEF h
<1>7. h[0] = NoOptions /\ \A k \in 1 .. n : h[k] = set_option(h[k - 1], calls[k])
  BY <1>1, <1>5
<1> QED
  BY <1>6, <1>7

LEMMA ReadRounds ==
  ASSUME NEW words \in Seq(AnOption)
  PROVE  \E f : /\ f[0] = [NoOptions EXCEPT !.buffer_size = DefaultSize]
                /\ \A k \in 1 .. Len(words) : f[k] = ReadOption(f[k - 1], words[k])
                /\ ReadAll(words) = f[Len(words)]
<1> DEFINE n == Len(words)
           start == [NoOptions EXCEPT !.buffer_size = DefaultSize]
           Value(f, k) == IF k = 0 THEN start ELSE ReadOption(f[k - 1], words[k])
           body == [k \in 1 .. n |-> [o \in Records |-> ReadOption(o, words[k])]]
<1>1. n \in Nat /\ start \in Records
  BY DEF NoOptions, Records, Sizes
<1>2. body \in [1 .. n -> [Records -> Records]]
  BY ReadOptionType
<1>3. PICK g \in [0 .. n -> Records] : Rounds(g, start, body, n)
  <2> HIDE DEF body, n, start
  <2> QED
    BY <1>1, <1>2, LoopExists
<1>4. g = [k \in 0 .. n |-> Value(g, k)]
  <2>1. ASSUME NEW k \in 0 .. n PROVE g[k] = Value(g, k)
    BY <1>1, <1>3, <2>1 DEF Rounds
  <2> QED
    BY <2>1
<1> DEFINE h == CHOOSE f : f = [k \in 0 .. n |-> Value(f, k)]
<1>5. h = [k \in 0 .. n |-> Value(h, k)]
  BY <1>4
<1>6. ReadAll(words) = h[n]
  BY DEF ReadAll
<1> HIDE DEF h, start
<1>7. h[0] = start /\ \A k \in 1 .. n : h[k] = ReadOption(h[k - 1], words[k])
  BY <1>1, <1>5
<1> QED
  BY <1>6, <1>7 DEF start

(* What was given last for an option, among the first k.                    *)
GivenAt(list, k, name) == {j \in 1 .. k : list[j][1] = name}
LastIn(list, at, default) ==
  IF at = {} THEN default ELSE list[CHOOSE j \in at : \A other \in at : other <= j][2]
LastOf(list, k, name, default) == LastIn(list, GivenAt(list, k, name), default)
Implied(list, k) == {s \in {"stay_alive"} : LastOf(list, k, "fork", "no") # "no"}

LEMMA LastOfStep ==
  ASSUME NEW list, NEW k \in Nat, NEW name, NEW default
  PROVE  LastOf(list, k + 1, name, default) =
           IF list[k + 1][1] = name THEN list[k + 1][2] ELSE LastOf(list, k, name, default)
<1>1. CASE list[k + 1][1] = name
  <2>1. k + 1 \in GivenAt(list, k + 1, name)
        /\ \A other \in GivenAt(list, k + 1, name) : other \in Nat /\ other <= k + 1
    BY <1>1 DEF GivenAt
  <2> DEFINE at == GivenAt(list, k + 1, name)
  <2> HIDE DEF at
  <2>2. k + 1 \in at /\ \A other \in at : other \in Nat /\ other <= k + 1
    BY <2>1 DEF at
  <2>3. (CHOOSE j \in at : \A other \in at : other <= j) = k + 1
    BY <2>2
  <2>4. LastIn(list, at, default) = list[k + 1][2]
    BY <2>2, <2>3 DEF LastIn
  <2> QED
    BY <1>1, <2>4 DEF LastOf, at
<1>2. CASE list[k + 1][1] # name
  <2>1. GivenAt(list, k + 1, name) = GivenAt(list, k, name)
    BY <1>2 DEF GivenAt
  <2> QED
    BY <1>2, <2>1 DEF LastOf
<1> QED
  BY <1>1, <1>2

(* What the first k options have set, but for the size of the buffer.       *)
SetBy(list, k, opts) ==
  /\ \A o \in TextOptions :
       /\ opts.texts[o] = LastOf(list, k, o, NoText)
       /\ opts.texts[o] # NoText <=> o \in opts.settings
  /\ opts.settings = {list[j][1] : j \in 1 .. k}
                       \cup Implied(list, k)

LEMMA SetByNone ==
  ASSUME NEW list, NEW opts \in Records, opts.texts = NoOptions.texts, opts.settings = {}
  PROVE  SetBy(list, 0, opts)
<1>1. \A name, default : LastOf(list, 0, name, default) = default
  BY DEF LastOf, GivenAt, LastIn
<1>2. Implied(list, 0) = {}
  BY <1>1 DEF Implied
<1>3. {list[j][1] : j \in 1 .. 0} = {}
  <2>1. 1 .. 0 = {}
    OBVIOUS
  <2> QED
    BY <2>1
<1>4. \A o \in TextOptions : opts.texts[o] = NoText
  BY DEF NoOptions
<1>5. \A o \in TextOptions : LastOf(list, 0, o, NoText) = NoText
  BY <1>1
<1> QED
  BY <1>2, <1>3, <1>4, <1>5 DEF SetBy

LEMMA SetByOneMore ==
  ASSUME NEW list \in Seq(AnOption), NEW k \in 0 .. Len(list) - 1, NEW opts \in Records,
         NEW before, SetBy(list, k, before), before \in Records,
         opts.texts = before.texts, opts.settings = before.settings
  PROVE  SetBy(list, k + 1, ReadOption(opts, list[k + 1]))
<1> DEFINE opt == list[k + 1]
           after == ReadOption(opts, opt)
           bits == Bits(opt[1])
<1>1. opt \in AnOption /\ k \in Nat
  OBVIOUS
<1>2. /\ after.settings = before.settings \cup bits
      /\ after.texts = IF opt[1] \in TextOptions THEN [before.texts EXCEPT ![opt[1]] = opt[2]]
                       ELSE before.texts
  BY DEF ReadOption
<1>3. bits = IF opt[1] = "fork" THEN {"fork", "stay_alive"} ELSE {opt[1]}
  BY DEF Bits
<1>4. \A name, default :
        LastOf(list, k + 1, name, default) =
          IF opt[1] = name THEN opt[2] ELSE LastOf(list, k, name, default)
  BY <1>1, LastOfStep
<1>5. {list[j][1] : j \in 1 .. (k + 1)} = {list[j][1] : j \in 1 .. k} \cup {opt[1]}
  <2>1. 1 .. (k + 1) = (1 .. k) \cup {k + 1}
    BY <1>1
  <2> QED
    BY <2>1
<1>6. /\ opt[1] \in TextOptions => opt[2] # NoText
      /\ opt[1] = "fork" => opt[2] # "no"
  BY <1>1, OptionFacts, CallsAssumption DEF NoText
<1>7. before.texts \in [TextOptions -> Words \cup {NoText}]
  BY DEF Records
<1> HIDE DEF opt, after, bits
<1>8. ASSUME NEW o \in TextOptions
      PROVE  /\ after.texts[o] = LastOf(list, k + 1, o, NoText)
             /\ after.texts[o] # NoText <=> o \in after.settings
  <2>1. before.texts[o] = LastOf(list, k, o, NoText) /\ (before.texts[o] # NoText <=> o \in before.settings)
    BY DEF SetBy
  <2>2. o # "fork" /\ o # "stay_alive"
    BY DEF TextOptions
  <2>3. CASE o = opt[1]
    BY <1>2, <1>3, <1>4, <1>6, <1>7, <2>2, <2>3
  <2>4. CASE o # opt[1]
    BY <1>2, <1>3, <1>4, <1>7, <2>1, <2>2, <2>4
  <2> QED
    BY <2>3, <2>4
<1>9. after.settings = {list[j][1] : j \in 1 .. (k + 1)}
                         \cup Implied(list, k + 1)
  <2>1. before.settings = {list[j][1] : j \in 1 .. k}
                         \cup Implied(list, k)
    BY DEF SetBy
  <2>2. CASE opt[1] = "fork"
    <3>1. Implied(list, k + 1) = {"stay_alive"} /\ Implied(list, k) \subseteq {"stay_alive"}
      BY <1>4, <1>6, <2>2 DEF Implied
    <3> QED
      BY <1>2, <1>3, <1>5, <2>1, <2>2, <3>1
  <2>3. CASE opt[1] # "fork"
    <3>1. Implied(list, k + 1) = Implied(list, k)
      BY <1>4, <2>3 DEF Implied
    <3> QED
      BY <1>2, <1>3, <1>5, <2>1, <2>3, <3>1
  <2> QED
    BY <2>2, <2>3
<1>10. SetBy(list, k + 1, after)
  BY <1>8, <1>9 DEF SetBy
<1> QED
  BY <1>10 DEF after, opt

(* The buffer size after the first k calls of set_option. *)
SizeAfter(calls, k) ==
  IF k = 0 THEN 0
  ELSE IF calls[k][1] = "buffer_size" THEN UnsignedInt(calls[k][2])
  ELSE DefaultSize

(* The calls of set_option, and the words of set_options, one after the     *)
(* other.                                                                  *)
LEMMA CalledSets ==
  ASSUME NEW calls \in Seq(AnOption)
  PROVE  /\ SetBy(calls, Len(calls), CalledWith(calls))
         /\ CalledWith(calls).buffer_size = SizeAfter(calls, Len(calls))
<1> DEFINE n == Len(calls)
<1>1. PICK f : /\ f[0] = NoOptions
               /\ \A k \in 1 .. n : f[k] = set_option(f[k - 1], calls[k])
               /\ CalledWith(calls) = f[n]
  BY CalledRounds
<1> DEFINE A == {k \in Nat : k <= n => /\ f[k] \in Records /\ SetBy(calls, k, f[k])
                                       /\ f[k].buffer_size = SizeAfter(calls, k)}
<1>2. 0 \in A
  <2>1. NoOptions \in Records /\ NoOptions.settings = {} /\ NoOptions.buffer_size = 0
    BY DEF NoOptions, Records, Sizes
  <2>2. SizeAfter(calls, 0) = 0
    BY DEF SizeAfter
  <2> QED
    BY <1>1, <2>1, <2>2, SetByNone
<1>3. ASSUME NEW k \in Nat, k \in A PROVE k + 1 \in A
  <2> SUFFICES ASSUME k + 1 <= n
               PROVE  /\ f[k + 1] \in Records /\ SetBy(calls, k + 1, f[k + 1])
                      /\ f[k + 1].buffer_size = SizeAfter(calls, k + 1)
    OBVIOUS
  <2>1. k \in 0 .. n - 1 /\ f[k] \in Records /\ SetBy(calls, k, f[k]) /\ calls[k + 1] \in AnOption
    BY <1>3
  <2>2. f[k + 1] = set_option(f[k], calls[k + 1])
    BY <1>1, <2>1
  <2> DEFINE opts == [f[k] EXCEPT !.buffer_size = DefaultSize]
  <2>3. opts \in Records /\ opts.texts = f[k].texts /\ opts.settings = f[k].settings
    BY <2>1 DEF Records, Sizes
  <2>6. opts.buffer_size = DefaultSize
    BY <2>1 DEF Records
  <2> HIDE DEF opts
  <2>4. SetBy(calls, k + 1, ReadOption(opts, calls[k + 1]))
    BY <2>1, <2>3, SetByOneMore
  <2>5. set_option(f[k], calls[k + 1]) = ReadOption(opts, calls[k + 1])
    BY DEF set_option, opts
  <2>7. ReadOption(opts, calls[k + 1]).buffer_size = SizeAfter(calls, k + 1)
    BY <2>1, <2>6 DEF ReadOption, SizeAfter
  <2>8. ReadOption(opts, calls[k + 1]) \in Records
    BY <2>1, <2>3, ReadOptionType
  <2> QED
    BY <2>2, <2>4, <2>5, <2>7, <2>8
<1>4. n \in A
  <2> HIDE DEF A
  <2> QED
    BY <1>2, <1>3, SetInduction
<1> QED
  BY <1>1, <1>4

LEMMA ReadSets ==
  ASSUME NEW words \in Seq(AnOption)
  PROVE  /\ SetBy(words, Len(words), ReadAll(words))
         /\ ReadAll(words).buffer_size = UnsignedInt(LastOf(words, Len(words), "buffer_size", DefaultSize))
<1> DEFINE n == Len(words)
           start == [NoOptions EXCEPT !.buffer_size = DefaultSize]
           Sized(k, opts) ==
             opts.buffer_size = UnsignedInt(LastOf(words, k, "buffer_size", DefaultSize))
<1>1. PICK f : /\ f[0] = start
               /\ \A k \in 1 .. n : f[k] = ReadOption(f[k - 1], words[k])
               /\ ReadAll(words) = f[n]
  BY ReadRounds
<1> DEFINE A == {k \in Nat : k <= n => f[k] \in Records /\ SetBy(words, k, f[k]) /\ Sized(k, f[k])}
<1>2. 0 \in A
  <2>1. /\ start \in Records /\ start.texts = NoOptions.texts /\ start.settings = {}
        /\ start.buffer_size = DefaultSize
    BY DEF NoOptions, Records, Sizes
  <2> HIDE DEF start
  <2>2. SetBy(words, 0, start)
    BY <2>1, SetByNone
  <2>3. LastOf(words, 0, "buffer_size", DefaultSize) = DefaultSize
    BY DEF LastOf, LastIn, GivenAt
  <2>4. Sized(0, start)
    BY <2>1, <2>3, CallsAssumption
  <2> QED
    BY <1>1, <2>1, <2>2, <2>4
<1>3. ASSUME NEW k \in Nat, k \in A PROVE k + 1 \in A
  <2> SUFFICES ASSUME k + 1 <= n
               PROVE  f[k + 1] \in Records /\ SetBy(words, k + 1, f[k + 1]) /\ Sized(k + 1, f[k + 1])
    OBVIOUS
  <2>1. /\ k \in 0 .. n - 1 /\ f[k] \in Records /\ SetBy(words, k, f[k]) /\ Sized(k, f[k])
        /\ words[k + 1] \in AnOption
    BY <1>3
  <2>2. f[k + 1] = ReadOption(f[k], words[k + 1])
    <3>1. k + 1 \in 1 .. n /\ (k + 1) - 1 = k
      BY <2>1
    <3> HIDE DEF n
    <3> QED
      BY <1>1, <3>1
  <2>3. f[k + 1] \in Records
    BY <2>1, <2>2, ReadOptionType
  <2>4. SetBy(words, k + 1, f[k + 1])
    BY <2>1, <2>2, SetByOneMore
  <2>5. LastOf(words, k + 1, "buffer_size", DefaultSize) =
          IF words[k + 1][1] = "buffer_size" THEN words[k + 1][2]
          ELSE LastOf(words, k, "buffer_size", DefaultSize)
    BY LastOfStep
  <2>6. f[k + 1].buffer_size =
          IF words[k + 1][1] = "buffer_size" THEN UnsignedInt(words[k + 1][2]) ELSE f[k].buffer_size
    BY <2>2 DEF ReadOption
  <2>7. Sized(k + 1, f[k + 1])
    BY <2>1, <2>5, <2>6
  <2> QED
    BY <2>3, <2>4, <2>7
<1>4. n \in A
  <2> HIDE DEF A
  <2> QED
    BY <1>2, <1>3, SetInduction
<1> QED
  BY <1>1, <1>4

(* The properties speak of all the options that are given. *)
LEMMA GivenLast ==
  ASSUME call.given \in Seq(AnOption)
  PROVE  \A name, default :
           LastGiven(name, default) = LastOf(call.given, Len(call.given), name, default)
<1> SUFFICES ASSUME NEW name, NEW default
             PROVE  LastGiven(name, default) = LastOf(call.given, Len(call.given), name, default)
  OBVIOUS
<1> DEFINE at == {k \in DOMAIN call.given : call.given[k][1] = name}
<1>1. at = GivenAt(call.given, Len(call.given), name)
  BY DEF GivenAt
<1>2. LastGiven(name, default) = LastIn(call.given, at, default)
  BY Zenon DEF LastGiven, LastIn
<1> HIDE DEF at
<1> QED
  BY <1>1, <1>2 DEF LastOf

(* The last argument of each text option counts, whatever the options and   *)
(* their order, and so does that of --buffer-size on the command line; the  *)
(* calls of set_option keep a buffer size only if it is set last            *)
(* (set_option, set_options).                                              *)
THEOREM LastArgumentHolds == CallSpec => []LastArgumentWins
<1>1. CallInv => LastArgumentWins
  <2> SUFFICES ASSUME CallInv PROVE LastArgumentWins
    OBVIOUS
  <2> DEFINE list == call.given
             Agrees(opts) ==
               /\ \A o \in TextOptions : opts.texts[o] = LastGiven(o, NoText)
               /\ opts.settings = {list[k][1] : k \in DOMAIN list}
                                    \cup {s \in {"stay_alive"} : LastGiven("fork", "no") # "no"}
  <2>1. ASSUME NEW opts, list \in Seq(AnOption), SetBy(list, Len(list), opts)
        PROVE  /\ Agrees(opts)
               /\ Missing(opts) <=> \E o \in Required : opts.texts[o] = NoText
    <3>1. DOMAIN list = 1 .. Len(list)
      BY <2>1
    <3>2. \A name, default : LastGiven(name, default) = LastOf(list, Len(list), name, default)
      BY <2>1, GivenLast
    <3>3. Agrees(opts)
      BY <2>1, <3>1, <3>2 DEF SetBy, Implied
    <3>4. \A o \in Required : opts.texts[o] # NoText <=> o \in opts.settings
      BY <2>1 DEF SetBy, Required, TextOptions
    <3> HIDE DEF Agrees
    <3> QED
      BY <3>3, <3>4 DEF Missing
  <2>2. ASSUME Returned("set_option") PROVE Agrees(value) /\ value.buffer_size = SizeLeft
    <3>1. list \in Seq(AnOption) /\ value = CalledWith(list)
      BY <2>2, Arguments, CallsAssumption DEF CallInv, Settings, Returned, AnOption
    <3>2. SizeAfter(list, Len(list)) = SizeLeft
      <4>1. list = <<>> <=> Len(list) = 0
        BY <3>1
      <4> QED
        BY <4>1 DEF SizeAfter, SizeLeft
    <3> HIDE DEF list, Agrees
    <3> QED
      BY <2>1, <3>1, <3>2, CalledSets
  <2>3. ASSUME Returned("set_options"), value.exit # "exit(0)"
        PROVE  /\ Agrees(value.options)
               /\ value.options.buffer_size = SizeAsked
               /\ value.exit = "no" <=> \A o \in Required : value.options.texts[o] # NoText
    <3>1. list \in Seq(AnOption) /\ value = set_options(list)
      BY <2>3, Arguments, CallsAssumption DEF CallInv, CommandLines, Returned, AnOption
    <3> DEFINE opts == ReadAll(list)
    <3>2. value.options = opts /\ (value.exit = "no" <=> ~Missing(opts))
      BY <2>3, <3>1 DEF set_options
    <3>3. /\ SetBy(list, Len(list), opts)
          /\ opts.buffer_size = UnsignedInt(LastOf(list, Len(list), "buffer_size", DefaultSize))
      BY <3>1, ReadSets
    <3>4. LastOf(list, Len(list), "buffer_size", DefaultSize) = LastGiven("buffer_size", DefaultSize)
      BY <3>1, GivenLast
    <3> HIDE DEF opts, list, Agrees
    <3>5. Agrees(opts) /\ (Missing(opts) <=> \E o \in Required : opts.texts[o] = NoText)
      BY <2>1, <3>1, <3>3
    <3> QED
      BY <3>2, <3>3, <3>4, <3>5 DEF SizeAsked, list
  <2> QED
    BY <2>2, <2>3 DEF LastArgumentWins
<1> QED
  BY <1>1, CallInvariant, PTL

-----------------------------------------------------------------------------
(* Texts.  A colon is a character. *)
Letters == Chars \cup {":"}
Text == Seq(Letters)

LEMMA FindFacts ==
  ASSUME NEW s \in Text, NEW c, NEW from \in Nat
  PROVE  \/ /\ find(s, c, from) = npos
            /\ \A p \in from .. Len(s) - 1 : s[p + 1] # c
         \/ /\ find(s, c, from) \in from .. Len(s) - 1
            /\ s[find(s, c, from) + 1] = c
            /\ \A p \in from .. find(s, c, from) - 1 : s[p + 1] # c
<1> DEFINE at == {p \in from .. Len(s) - 1 : s[p + 1] = c}
           first == CHOOSE p \in at : \A q \in at : p <= q
<1>1. find(s, c, from) = IF at = {} THEN npos ELSE first
  BY DEF find
<1>2. at \subseteq Nat
  OBVIOUS
<1>3. CASE at = {}
  BY <1>1, <1>3
<1>4. CASE at # {}
  <2>1. first \in at /\ \A q \in at : first <= q
    <3> HIDE DEF at
    <3> QED
      BY <1>2, <1>4, LeastExists
  <2> HIDE DEF first
  <2>2. first \in from .. Len(s) - 1 /\ s[first + 1] = c
    BY <2>1
  <2>3. ASSUME NEW p \in from .. first - 1 PROVE s[p + 1] # c
    BY <2>1, <2>2
  <2> QED
    BY <1>1, <1>4, <2>2, <2>3
<1> QED
  BY <1>3, <1>4

LEMMA SubstrType ==
  ASSUME NEW s \in Text, NEW from \in Nat, NEW n \in Int
  PROVE  substr(s, from, n) \in Text
BY DEF substr, Text

(* The states of split's loop. *)
SplitStates == [v : Seq(Text), i : Nat, j : Nat \cup {npos}]

LEMMA CutType ==
  ASSUME NEW s \in Text, NEW c, NEW st \in SplitStates
  PROVE  Cut(s, c, st) \in SplitStates
<1>1. CASE st.j = npos
  BY <1>1 DEF Cut
<1>2. CASE st.j # npos
  <2> DEFINE i == st.j + 1
             j == find(s, c, i)
             found == Append(st.v, substr(s, st.i, st.j - st.i))
  <2>1. st.v \in Seq(Text) /\ st.i \in Nat /\ st.j \in Nat /\ Len(s) \in Nat
    BY <1>2 DEF SplitStates, Text
  <2>2. i \in Nat /\ j \in Nat \cup {npos}
    <3>1. i \in Nat
      BY <2>1
    <3> HIDE DEF i
    <3>2. j = npos \/ j \in i .. Len(s) - 1
      BY <3>1, FindFacts
    <3> HIDE DEF j
    <3> QED
      BY <3>1, <3>2
  <2>3. found \in Seq(Text) /\ substr(s, i, Len(s)) \in Text
    <3>1. substr(s, st.i, st.j - st.i) \in Text
      BY <2>1, SubstrType
    <3>2. substr(s, i, Len(s)) \in Text
      BY <2>1, <2>2, SubstrType
    <3> QED
      BY <2>1, <3>1, <3>2
  <2>4. Cut(s, c, st) =
          [v |-> IF j = npos THEN Append(found, substr(s, i, Len(s))) ELSE found, i |-> i, j |-> j]
    BY <1>2 DEF Cut
  <2> HIDE DEF i, j, found
  <2> QED
    BY <2>2, <2>3, <2>4 DEF SplitStates
<1> QED
  BY <1>1, <1>2

LEMMA SplitRounds ==
  ASSUME NEW s \in Text, NEW c
  PROVE  \E f : /\ f[0] = [v |-> <<>>, i |-> 0, j |-> find(s, c, 0)]
                /\ \A k \in 1 .. Len(s) : f[k] = Cut(s, c, f[k - 1])
                /\ split(s, c) = f[Len(s)].v
<1> DEFINE n == Len(s)
           start == [v |-> <<>>, i |-> 0, j |-> find(s, c, 0)]
           Value(f, k) == IF k = 0 THEN start ELSE Cut(s, c, f[k - 1])
           body == [k \in 1 .. n |-> [st \in SplitStates |-> Cut(s, c, st)]]
<1>1. n \in Nat /\ start \in SplitStates
  <2>1. find(s, c, 0) = npos \/ find(s, c, 0) \in 0 .. Len(s) - 1
    BY FindFacts
  <2>2. Len(s) \in Nat /\ <<>> \in Seq(Text)
    BY DEF Text
  <2> QED
    BY <2>1, <2>2 DEF SplitStates
<1>2. body \in [1 .. n -> [SplitStates -> SplitStates]]
  BY CutType
<1>3. PICK g \in [0 .. n -> SplitStates] : Rounds(g, start, body, n)
  <2> HIDE DEF body, n, start
  <2> QED
    BY <1>1, <1>2, LoopExists
<1>4. g = [k \in 0 .. n |-> Value(g, k)]
  <2>1. ASSUME NEW k \in 0 .. n PROVE g[k] = Value(g, k)
    <3>1. g[0] = start
      BY <1>3 DEF Rounds
    <3>2. ASSUME k # 0 PROVE g[k] = Cut(s, c, g[k - 1])
      <4>1. k \in 1 .. n /\ k - 1 \in 0 .. n
        BY <1>1, <2>1, <3>2
      <4>2. g[k] = body[k][g[k - 1]] /\ g[k - 1] \in SplitStates
        BY <1>3, <4>1 DEF Rounds
      <4> QED
        BY <4>1, <4>2
    <3> QED
      BY <3>1, <3>2
  <2> QED
    BY <2>1
<1> DEFINE h == CHOOSE f : f = [k \in 0 .. n |-> Value(f, k)]
<1>5. h = [k \in 0 .. n |-> Value(h, k)]
  BY <1>4
<1>6. split(s, c) = h[n].v
  BY DEF split
<1> HIDE DEF h, start
<1>7. h[0] = start /\ \A k \in 1 .. n : h[k] = Cut(s, c, h[k - 1])
  BY <1>1, <1>5
<1> QED
  BY <1>6, <1>7 DEF start

(* The parts that are joined, one after the other. *)
Link(k, joined, part) == IF k = 1 THEN part ELSE joined \o <<":">> \o part

LEMMA LinkType ==
  ASSUME NEW k, NEW joined \in Text, NEW part \in Text
  PROVE  Link(k, joined, part) \in Text
<1>1. <<":">> \in Text
  BY DEF Text, Letters
<1> QED
  BY <1>1 DEF Link, Text

LEMMA JoinRounds ==
  ASSUME NEW parts \in Seq(Text)
  PROVE  \E f : /\ f[0] = <<>>
                /\ \A k \in 1 .. Len(parts) : f[k] = Link(k, f[k - 1], parts[k])
                /\ \A k \in 0 .. Len(parts) : f[k] \in Text
                /\ WithColons(parts) = f[Len(parts)]
<1> DEFINE n == Len(parts)
           Value(f, k) == IF k = 0 THEN <<>>
                          ELSE IF k = 1 THEN parts[1]
                          ELSE f[k - 1] \o <<":">> \o parts[k]
           body == [k \in 1 .. n |-> [t \in Text |-> Link(k, t, parts[k])]]
<1>1. n \in Nat /\ <<>> \in Text
  BY DEF Text
<1>2. body \in [1 .. n -> [Text -> Text]]
  BY LinkType
<1>3. PICK g \in [0 .. n -> Text] : Rounds(g, <<>>, body, n)
  <2> HIDE DEF body, n
  <2> QED
    BY <1>1, <1>2, LoopExists
<1>4. g = [k \in 0 .. n |-> Value(g, k)]
  <2>1. ASSUME NEW k \in 0 .. n PROVE g[k] = Value(g, k)
    <3>1. g[0] = <<>>
      BY <1>3 DEF Rounds
    <3>2. ASSUME k # 0 PROVE g[k] = Link(k, g[k - 1], parts[k])
      <4>1. k \in 1 .. n /\ k - 1 \in 0 .. n
        BY <1>1, <2>1, <3>2
      <4>2. g[k] = body[k][g[k - 1]] /\ g[k - 1] \in Text
        BY <1>3, <4>1 DEF Rounds
      <4> QED
        BY <4>1, <4>2
    <3> QED
      BY <3>1, <3>2 DEF Link
  <2> QED
    BY <2>1
<1> DEFINE h == CHOOSE f : f = [k \in 0 .. n |-> Value(f, k)]
<1>5. h = [k \in 0 .. n |-> Value(h, k)]
  BY <1>4
<1>6. WithColons(parts) = h[n]
  BY DEF WithColons
<1> HIDE DEF h
<1>7. h[0] = <<>> /\ \A k \in 1 .. n : h[k] = Link(k, h[k - 1], parts[k])
  BY <1>1, <1>5 DEF Link
<1> DEFINE A == {k \in Nat : k <= n => h[k] \in Text}
<1>8. 0 \in A
  BY <1>1, <1>7
<1>9. ASSUME NEW k \in Nat, k \in A PROVE k + 1 \in A
  <2> SUFFICES ASSUME k + 1 <= n PROVE h[k + 1] \in Text
    OBVIOUS
  <2>1. k + 1 \in 1 .. n /\ (k + 1) - 1 = k /\ h[k] \in Text /\ parts[k + 1] \in Text
    BY <1>9
  <2>2. h[k + 1] = Link(k + 1, h[k], parts[k + 1])
    <3> HIDE DEF n, A
    <3> QED
      BY <1>7, <2>1
  <2> QED
    BY <2>1, <2>2, LinkType
<1>10. \A k \in Nat : k \in A
  <2> HIDE DEF A
  <2> QED
    BY <1>8, <1>9, SetInduction
<1> QED
  BY <1>6, <1>7, <1>10

LEMMA WithColonsAppend ==
  ASSUME NEW v \in Seq(Text), NEW part \in Text
  PROVE  /\ WithColons(v) \in Text
         /\ WithColons(Append(v, part)) =
              IF v = <<>> THEN part ELSE WithColons(v) \o <<":">> \o part
<1> DEFINE n == Len(v)
           longer == Append(v, part)
<1>1. /\ n \in Nat /\ longer \in Seq(Text) /\ Len(longer) = n + 1 /\ longer[n + 1] = part
      /\ \A k \in 1 .. n : longer[k] = v[k]
  OBVIOUS
<1>2. v = <<>> <=> n = 0
  OBVIOUS
<1> HIDE DEF longer
<1>3. PICK f : /\ f[0] = <<>>
               /\ \A k \in 1 .. n : f[k] = Link(k, f[k - 1], v[k])
               /\ \A k \in 0 .. n : f[k] \in Text
               /\ WithColons(v) = f[n]
  BY JoinRounds
<1>4. PICK g : /\ g[0] = <<>>
               /\ \A k \in 1 .. Len(longer) : g[k] = Link(k, g[k - 1], longer[k])
               /\ \A k \in 0 .. Len(longer) : g[k] \in Text
               /\ WithColons(longer) = g[Len(longer)]
  BY <1>1, JoinRounds
<1> HIDE DEF n
<1> DEFINE A == {k \in Nat : k <= n => f[k] = g[k]}
<1>5. 0 \in A
  BY <1>3, <1>4
<1>6. ASSUME NEW k \in Nat, k \in A PROVE k + 1 \in A
  <2> SUFFICES ASSUME k + 1 <= n PROVE f[k + 1] = g[k + 1]
    OBVIOUS
  <2>1. /\ k + 1 \in 1 .. n /\ k + 1 \in 1 .. Len(longer) /\ (k + 1) - 1 = k
        /\ f[k] = g[k] /\ longer[k + 1] = v[k + 1]
    BY <1>1, <1>6
  <2>2. f[k + 1] = Link(k + 1, f[k], v[k + 1])
    BY <1>3, <2>1
  <2>3. g[k + 1] = Link(k + 1, g[k], longer[k + 1])
    BY <1>4, <2>1
  <2> QED
    BY <2>1, <2>2, <2>3
<1>7. \A k \in Nat : k \in A
  <2> HIDE DEF A
  <2> QED
    BY <1>5, <1>6, SetInduction
<1>8. f[n] = g[n]
  BY <1>1, <1>7
<1>9. g[n + 1] = Link(n + 1, g[n], part)
  <2>1. n + 1 \in 1 .. Len(longer) /\ (n + 1) - 1 = n
    BY <1>1
  <2> QED
    BY <1>1, <1>4, <2>1
<1>10. n + 1 = 1 <=> v = <<>>
  BY <1>1, <1>2
<1>11. WithColons(v) \in Text
  <2>1. n \in 0 .. n
    BY <1>1
  <2> QED
    BY <1>3, <2>1
<1> QED
  BY <1>1, <1>3, <1>4, <1>8, <1>9, <1>10, <1>11 DEF Link, longer

(* What split's loop keeps true: the parts so far, each followed by a colon, *)
(* are the text up to i, and the next colon is at j; when there is none,     *)
(* the parts are the text.                                                  *)
SplitInv(s, k, st) ==
  /\ st \in SplitStates
  /\ \A q \in DOMAIN st.v : NoColon(st.v[q])
  /\ st.v = <<>> => st.i = 0
  /\ st.v # <<>> => ~NoColon(s)
  /\ st.j = npos => IF st.v = <<>> THEN NoColon(s) ELSE WithColons(st.v) = s
  /\ st.j # npos =>
       /\ st.i \in 0 .. st.j /\ k <= st.j /\ st.j < Len(s)
       /\ s[st.j + 1] = ":"
       /\ \A p \in st.i .. st.j - 1 : s[p + 1] # ":"
       /\ st.v # <<>> => WithColons(st.v) \o <<":">> = SubSeq(s, 1, st.i)

LEMMA SplitStarts ==
  ASSUME NEW s \in Text
  PROVE  SplitInv(s, 0, [v |-> <<>>, i |-> 0, j |-> find(s, ":", 0)])
<1> DEFINE j == find(s, ":", 0)
<1>1. /\ j = npos \/ j \in 0 .. Len(s) - 1
      /\ j = npos => \A p \in 0 .. Len(s) - 1 : s[p + 1] # ":"
      /\ j # npos => s[j + 1] = ":" /\ \A p \in 0 .. j - 1 : s[p + 1] # ":"
  BY FindFacts DEF npos
<1> HIDE DEF j
<1>2. Len(s) \in Nat /\ DOMAIN s = 1 .. Len(s) /\ <<>> \in Seq(Text) /\ DOMAIN <<>> = {}
  BY DEF Text
<1>3. j = npos => NoColon(s)
  <2> SUFFICES ASSUME j = npos, NEW q \in DOMAIN s PROVE s[q] # ":"
    BY DEF NoColon
  <2>1. q - 1 \in 0 .. Len(s) - 1 /\ (q - 1) + 1 = q
    BY <1>2
  <2> QED
    BY <1>1, <2>1
<1>4. j \in Nat \cup {npos} /\ (j # npos => j \in Nat /\ j < Len(s))
  BY <1>1, <1>2
<1> DEFINE st == [v |-> <<>>, i |-> 0, j |-> j]
<1>5. st.v = <<>> /\ st.i = 0 /\ st.j = j /\ st \in SplitStates
  BY <1>2, <1>4 DEF SplitStates
<1> HIDE DEF st
<1>6. SplitInv(s, 0, st)
  BY <1>1, <1>2, <1>3, <1>4, <1>5 DEF SplitInv
<1> QED
  BY <1>6 DEF st, j

LEMMA SplitGoesOn ==
  ASSUME NEW s \in Text, NEW k \in Nat, NEW st, SplitInv(s, k, st)
  PROVE  SplitInv(s, k + 1, Cut(s, ":", st))
<1>1. CASE st.j = npos
  <2>1. Cut(s, ":", st) = st
    BY <1>1 DEF Cut
  <2> QED
    BY <1>1, <2>1 DEF SplitInv
<1>2. CASE st.j # npos
  <2> DEFINE i == st.j + 1
             j == find(s, ":", i)
             n == Len(s)
             part == substr(s, st.i, st.j - st.i)
             rest == substr(s, i, n)
             found == Append(st.v, part)
             v == IF j = npos THEN Append(found, rest) ELSE found
  <2>1. /\ st.v \in Seq(Text) /\ st.i \in Nat /\ st.j \in Nat /\ n \in Nat
        /\ st.i <= st.j /\ k <= st.j /\ st.j < n
        /\ s[i] = ":" /\ \A p \in st.i .. st.j - 1 : s[p + 1] # ":"
        /\ st.v # <<>> => WithColons(st.v) \o <<":">> = SubSeq(s, 1, st.i)
        /\ st.v = <<>> => st.i = 0
        /\ \A q \in DOMAIN st.v : NoColon(st.v[q])
    BY <1>2 DEF SplitInv, SplitStates, Text
  <2>2. Cut(s, ":", st) = [v |-> v, i |-> i, j |-> j]
    BY <1>2 DEF Cut
  <2>3. Cut(s, ":", st) \in SplitStates
    BY CutType DEF SplitInv
  <2>4. i \in 1 .. n /\ i = st.j + 1
    BY <2>1
  <2>5. /\ j = npos => \A p \in i .. n - 1 : s[p + 1] # ":"
        /\ j # npos => j \in i .. n - 1 /\ s[j + 1] = ":" /\ \A p \in i .. j - 1 : s[p + 1] # ":"
    <3> HIDE DEF i
    <3>1. i \in Nat
      BY <2>4
    <3> QED
      BY <3>1, FindFacts DEF npos
  <2>6. part = SubSeq(s, st.i + 1, st.j) /\ rest = SubSeq(s, i + 1, n)
    <3>1. st.i + (st.j - st.i) = st.j /\ ~(i + n < n)
      BY <2>1, <2>4
    <3> QED
      BY <2>1, <3>1 DEF substr
  <2> HIDE DEF i, j, part, rest
  <2>7. /\ part \in Text /\ Len(part) = st.j - st.i
        /\ \A p \in 1 .. st.j - st.i : part[p] = s[st.i + p]
    <3> DEFINE a == st.i
               b == st.j
    <3>1. a \in Nat /\ b \in Nat /\ a <= b /\ b <= Len(s) /\ s \in Seq(Letters)
      BY <2>1 DEF Text
    <3>2. part = SubSeq(s, a + 1, b)
      BY <2>6
    <3> HIDE DEF a, b
    <3>3. part \in Text /\ Len(part) = b - a /\ \A p \in 1 .. b - a : part[p] = s[a + p]
      BY <3>1, <3>2, SubSeqFacts DEF Text
    <3> QED
      BY <3>3 DEF a, b
  <2>8. /\ rest \in Text /\ Len(rest) = n - i
        /\ \A p \in 1 .. n - i : rest[p] = s[i + p]
    <3>1. i \in Nat /\ n \in Nat /\ i <= n /\ n <= Len(s) /\ s \in Seq(Letters)
      BY <2>1, <2>4 DEF Text
    <3> HIDE DEF n
    <3> QED
      BY <2>6, <3>1, SubSeqFacts DEF Text
  <2>9. NoColon(part)
    <3> SUFFICES ASSUME NEW q \in 1 .. Len(part) PROVE part[q] # ":"
      BY <2>7 DEF NoColon, Text
    <3>1. q \in 1 .. st.j - st.i
      BY <2>7
    <3>2. st.i + q - 1 \in st.i .. st.j - 1 /\ (st.i + q - 1) + 1 = st.i + q
      <4> DEFINE a == st.i
                 b == st.j
      <4>1. a \in Nat /\ b \in Nat /\ q \in 1 .. b - a
        BY <2>1, <3>1
      <4> HIDE DEF a, b
      <4>2. a + q - 1 \in a .. b - 1 /\ (a + q - 1) + 1 = a + q
        BY <4>1
      <4> QED
        BY <4>2 DEF a, b
    <3> QED
      BY <2>1, <2>7, <3>1, <3>2
  <2>10. j = npos => NoColon(rest)
    <3> SUFFICES ASSUME j = npos, NEW q \in 1 .. Len(rest) PROVE rest[q] # ":"
      BY <2>8 DEF NoColon, Text
    <3>1. q \in 1 .. n - i
      BY <2>8
    <3>2. i + q - 1 \in i .. n - 1 /\ (i + q - 1) + 1 = i + q
      <4>1. i \in Nat /\ n \in Nat /\ q \in 1 .. n - i
        BY <2>1, <2>4, <3>1
      <4> HIDE DEF n
      <4> QED
        BY <4>1
    <3> QED
      BY <2>5, <2>8, <3>1, <3>2
  <2>11. ~NoColon(s)
    BY <2>1, <2>4 DEF NoColon, Text
  <2>12. found \in Seq(Text) /\ found # <<>> /\ \A q \in DOMAIN found : NoColon(found[q])
    <3>1. /\ found \in Seq(Text) /\ Len(found) = Len(st.v) + 1 /\ DOMAIN found = 1 .. Len(st.v) + 1
          /\ found[Len(st.v) + 1] = part /\ \A q \in 1 .. Len(st.v) : found[q] = st.v[q]
          /\ Len(st.v) \in Nat /\ DOMAIN st.v = 1 .. Len(st.v)
      BY <2>1, <2>7
    <3> HIDE DEF found
    <3>2. found # <<>>
      BY <3>1
    <3>3. ASSUME NEW q \in DOMAIN found PROVE NoColon(found[q])
      <4>1. q \in DOMAIN st.v \/ q = Len(st.v) + 1
        BY <3>1
      <4> QED
        BY <2>1, <2>9, <3>1, <4>1
    <3> QED
      BY <3>1, <3>2, <3>3
  <2>13. WithColons(found) = SubSeq(s, 1, st.j)
    <3>1. WithColons(found) = IF st.v = <<>> THEN part ELSE WithColons(st.v) \o <<":">> \o part
      BY <2>1, <2>7, WithColonsAppend
    <3>2. CASE st.v = <<>>
      <4>1. st.i + 1 = 1
        BY <2>1, <3>2
      <4> HIDE DEF found
      <4> QED
        BY <2>6, <3>1, <3>2, <4>1
    <3>3. CASE st.v # <<>>
      <4>1. SubSeq(s, 1, st.i) \o SubSeq(s, st.i + 1, st.j) = SubSeq(s, 1, st.j)
        <5>1. st.i \in 1 - 1 .. Len(s) /\ st.j \in st.i .. Len(s) /\ 1 \in 1 .. Len(s) + 1
          BY <2>1
        <5> QED
          BY <5>1, ConcatAdjacentSubSeq DEF Text
      <4> QED
        BY <2>1, <2>6, <3>1, <3>3, <4>1
    <3> QED
      BY <3>2, <3>3
  <2>14. WithColons(found) \o <<":">> = SubSeq(s, 1, i)
    <3>1. SubSeq(s, 1, i) = SubSeq(s, 1, i - 1) \o <<s[i]>>
      <4>1. 1 \in 1 .. Len(s) /\ i \in 1 .. Len(s)
        BY <2>1, <2>4
      <4> QED
        BY <4>1, SubSeqRecursiveSecond DEF Text
    <3>2. i - 1 = st.j
      BY <2>1, <2>4
    <3> HIDE DEF found
    <3> QED
      BY <2>1, <2>13, <3>1, <3>2
  <2>15. WithColons(Append(found, rest)) = s
    <3>1. WithColons(Append(found, rest)) = WithColons(found) \o <<":">> \o rest
      <4> HIDE DEF found
      <4> QED
        BY <2>8, <2>12, WithColonsAppend
    <3>2. SubSeq(s, 1, i) \o SubSeq(s, i + 1, n) = SubSeq(s, 1, n)
      <4>1. i \in 1 - 1 .. Len(s) /\ n \in i .. Len(s) /\ 1 \in 1 .. Len(s) + 1
        BY <2>1, <2>4
      <4> QED
        BY <4>1, ConcatAdjacentSubSeq DEF Text
    <3>3. SubSeq(s, 1, n) = s
      BY SubSeqFull DEF Text
    <3> QED
      BY <2>6, <2>14, <3>1, <3>2, <3>3
  <2> HIDE DEF found
  <2>16. v # <<>> /\ \A q \in DOMAIN v : NoColon(v[q])
    <3>1. CASE j = npos
      BY <2>8, <2>10, <2>12, <3>1
    <3>2. CASE j # npos
      BY <2>12, <3>2
    <3> QED
      BY <3>1, <3>2
  <2>17. /\ j = npos => WithColons(v) = s
         /\ j # npos => WithColons(v) \o <<":">> = SubSeq(s, 1, i)
    BY <2>14, <2>15
  <2>18. j # npos => i \in 0 .. j /\ k + 1 <= j /\ j < n
    <3> DEFINE b == st.j
    <3>1. b \in Nat /\ k <= b /\ i = b + 1 /\ n \in Nat /\ (j # npos => j \in i .. n - 1)
      BY <2>1, <2>4, <2>5
    <3> HIDE DEF b, n
    <3> QED
      BY <3>1
  <2> DEFINE next == Cut(s, ":", st)
  <2> HIDE DEF v
  <2>19. next.v = v /\ next.i = i /\ next.j = j
    BY <2>2
  <2> HIDE DEF next
  <2>20. SplitInv(s, k + 1, next)
    BY <2>3, <2>5, <2>11, <2>16, <2>17, <2>18, <2>19 DEF SplitInv, next
  <2> QED
    BY <2>20 DEF next
<1> QED
  BY <1>1, <1>2

LEMMA SplitEnds ==
  ASSUME NEW s \in Text
  PROVE  LET parts == split(s, ":")
         IN  /\ parts \in Seq(Text) /\ \A q \in DOMAIN parts : NoColon(parts[q])
             /\ NoColon(s) <=> parts = <<>>
             /\ parts # <<>> => WithColons(parts) = s
<1> DEFINE n == Len(s)
<1>1. PICK f : /\ f[0] = [v |-> <<>>, i |-> 0, j |-> find(s, ":", 0)]
               /\ \A k \in 1 .. n : f[k] = Cut(s, ":", f[k - 1])
               /\ split(s, ":") = f[n].v
  BY SplitRounds
<1>2. n \in Nat
  BY DEF Text
<1> HIDE DEF n
<1> DEFINE A == {k \in Nat : k <= n => SplitInv(s, k, f[k])}
<1>3. 0 \in A
  BY <1>1, SplitStarts
<1>4. ASSUME NEW k \in Nat, k \in A PROVE k + 1 \in A
  <2> SUFFICES ASSUME k + 1 <= n PROVE SplitInv(s, k + 1, f[k + 1])
    OBVIOUS
  <2>1. SplitInv(s, k, f[k]) /\ k + 1 \in 1 .. n /\ (k + 1) - 1 = k
    BY <1>2, <1>4
  <2>2. f[k + 1] = Cut(s, ":", f[k])
    BY <1>1, <2>1
  <2> HIDE DEF A
  <2> QED
    BY <2>1, <2>2, SplitGoesOn
<1>5. \A k \in Nat : k \in A
  <2> HIDE DEF A
  <2> QED
    BY <1>3, <1>4, SetInduction
<1>6. SplitInv(s, n, f[n])
  BY <1>2, <1>5
<1>7. f[n].j = npos
  <2> SUFFICES ASSUME f[n].j # npos PROVE FALSE
    OBVIOUS
  <2>1. f[n].j \in Nat /\ n <= f[n].j /\ f[n].j < Len(s)
    BY <1>6 DEF SplitInv, SplitStates
  <2> QED
    BY <1>2, <2>1 DEF n
<1> QED
  BY <1>1, <1>6, <1>7 DEF SplitInv, SplitStates

(* A received text is split at its colons and nothing of it is lost         *)
(* (split).                                                                *)
THEOREM PartsHold == CallSpec => []PartsAreTheText
<1>1. CallInv => PartsAreTheText
  <2> SUFFICES ASSUME CallInv, Returned("messageParse") PROVE PartsAreTheText
    BY DEF PartsAreTheText
  <2>1. call.message \in Text
    BY Arguments, CallsAssumption, SeqMonotonic DEF Parses, Returned, Text, Letters
  <2> DEFINE s == call.message
             parts == split(s, ":")
  <2> HIDE DEF s
  <2>2. /\ \A q \in DOMAIN parts : NoColon(parts[q])
        /\ NoColon(s) <=> parts = <<>>
        /\ parts # <<>> => WithColons(parts) = s
    BY <2>1, SplitEnds DEF s
  <2> QED
    BY <2>2 DEF PartsAreTheText, s
<1> QED
  BY <1>1, CallInvariant, PTL

-----------------------------------------------------------------------------
(* A text with one colon. *)
LEMMA OneColon ==
  ASSUME NEW a \in Text, NEW b \in Text, NEW s, s = a \o <<":">> \o b
  PROVE  Around(Letters, s, a, ":", b)
<1>1. a \in Seq(Letters) /\ b \in Seq(Letters) /\ ":" \in Letters
  BY DEF Text, Letters
<1> QED
  BY <1>1, ConcatThree

(* What comes before the colon, and what comes after it. *)
LEMMA AroundColon ==
  ASSUME NEW a \in Text, NEW b \in Text, NEW s, Around(Letters, s, a, ":", b)
  PROVE  /\ SubSeq(s, 1, Len(a)) = a
         /\ SubSeq(s, Len(a) + 2, Len(s)) = b
<1> DEFINE n == Len(a)
           m == Len(s)
           before == SubSeq(s, 0 + 1, n)
           after == SubSeq(s, (n + 1) + 1, m)
<1>1. /\ s \in Seq(Letters) /\ n \in Nat /\ Len(b) \in Nat /\ m = n + 1 + Len(b)
      /\ \A q \in 1 .. n : s[q] = a[q]
      /\ \A q \in 1 .. Len(b) : s[(n + 1) + q] = b[q]
  BY DEF Around
<1>2. a \in Seq(Letters) /\ b \in Seq(Letters) /\ m = Len(s) /\ n = Len(a)
  BY DEF Text
<1> HIDE DEF n, m
<1>3. /\ before \in Seq(Letters) /\ Len(before) = n - 0
      /\ \A p \in 1 .. n - 0 : before[p] = s[0 + p]
  <2>1. s \in Seq(Letters) /\ 0 \in Nat /\ n \in Nat /\ 0 <= n /\ n <= Len(s)
    BY <1>1, <1>2
  <2> QED
    BY <2>1, SubSeqFacts, Zenon
<1>4. /\ after \in Seq(Letters) /\ Len(after) = m - (n + 1)
      /\ \A p \in 1 .. m - (n + 1) : after[p] = s[(n + 1) + p]
  <2> DEFINE c == n + 1
  <2>1. s \in Seq(Letters) /\ c \in Nat /\ m \in Nat /\ c <= m /\ m <= Len(s)
    BY <1>1, <1>2
  <2> HIDE DEF c
  <2>2. /\ SubSeq(s, c + 1, m) \in Seq(Letters) /\ Len(SubSeq(s, c + 1, m)) = m - c
        /\ \A p \in 1 .. m - c : SubSeq(s, c + 1, m)[p] = s[c + p]
    BY <2>1, SubSeqFacts, Zenon
  <2> QED
    BY <2>2 DEF c
<1> HIDE DEF before, after
<1>5. before = a
  <2>1. n - 0 = n /\ \A p \in 1 .. n : 0 + p = p
    BY <1>1
  <2>2. Len(before) = n /\ \A p \in 1 .. n : before[p] = a[p]
    BY <1>1, <1>3, <2>1
  <2> QED
    BY <1>2, <1>3, <2>2, SeqEqual
<1>6. after = b
  <2>1. m - (n + 1) = Len(b)
    BY <1>1
  <2>2. Len(after) = Len(b) /\ \A p \in 1 .. Len(after) : after[p] = b[p]
    BY <1>1, <1>4, <2>1
  <2> QED
    BY <1>2, <1>4, <2>2, SeqEqual
<1>7. 0 + 1 = 1 /\ (n + 1) + 1 = n + 2
  BY <1>1
<1> QED
  BY <1>5, <1>6, <1>7 DEF before, after, n, m

LEMMA FindColon ==
  ASSUME NEW s \in Text, NEW n \in Nat, n < Len(s), s[n + 1] = ":",
         \A q \in 1 .. Len(s) : s[q] = ":" => q = n + 1
  PROVE  find(s, ":", 0) = n /\ find(s, ":", n + 1) = npos
<1>1. Len(s) \in Nat /\ n + 1 \in Nat
  BY DEF Text
<1>2. find(s, ":", 0) = n
  <2> DEFINE j == find(s, ":", 0)
  <2>1. \/ j = npos /\ \A p \in 0 .. Len(s) - 1 : s[p + 1] # ":"
        \/ j \in 0 .. Len(s) - 1 /\ s[j + 1] = ":"
    BY FindFacts
  <2> HIDE DEF j
  <2>2. n \in 0 .. Len(s) - 1
    BY <1>1
  <2>3. j \in 0 .. Len(s) - 1 /\ s[j + 1] = ":"
    BY <2>1, <2>2
  <2>4. j + 1 \in 1 .. Len(s) /\ j \in Nat
    BY <1>1, <2>3
  <2>5. j + 1 = n + 1
    BY <2>3, <2>4
  <2>6. j = n
    BY <2>4, <2>5
  <2> QED
    BY <2>6 DEF j
<1>3. find(s, ":", n + 1) = npos
  <2> DEFINE c == n + 1
             j == find(s, ":", c)
  <2>1. c \in Nat /\ c = n + 1
    BY <1>1
  <2> HIDE DEF c
  <2>2. j = npos \/ (j \in c .. Len(s) - 1 /\ s[j + 1] = ":")
    BY <2>1, FindFacts
  <2> HIDE DEF j
  <2>3. ASSUME j \in c .. Len(s) - 1, s[j + 1] = ":" PROVE FALSE
    <3>1. j + 1 \in 1 .. Len(s) /\ j + 1 # n + 1
      BY <1>1, <2>1, <2>3
    <3> QED
      BY <2>3, <3>1
  <2>4. j = npos
    BY <2>2, <2>3
  <2> QED
    BY <2>4 DEF c, j
<1> QED
  BY <1>2, <1>3

LEMMA PairAppended ==
  ASSUME NEW S, NEW a \in S, NEW b \in S
  PROVE  Append(Append(<<>>, a), b) = <<a, b>>
<1>1. Append(Append(<<>>, a), b) \in Seq(S) /\ <<a, b>> \in Seq(S)
  OBVIOUS
<1>2. /\ Len(Append(Append(<<>>, a), b)) = 2 /\ Len(<<a, b>>) = 2
      /\ Append(Append(<<>>, a), b)[1] = a /\ Append(Append(<<>>, a), b)[2] = b
  OBVIOUS
<1>3. \A p \in 1 .. 2 : Append(Append(<<>>, a), b)[p] = <<a, b>>[p]
  BY <1>2
<1> QED
  BY <1>1, <1>2, <1>3, SeqEqual

(* It is split into two parts. *)
LEMMA SplitOnce ==
  ASSUME NEW a \in Text, NEW b \in Text, NoColon(a), NoColon(b),
         NEW s, Around(Letters, s, a, ":", b)
  PROVE  split(s, ":") = <<a, b>>
<1> DEFINE n == Len(a)
<1>1. /\ s \in Text /\ Len(a) \in Nat /\ Len(b) \in Nat /\ Len(s) = Len(a) + 1 + Len(b)
      /\ s[Len(a) + 1] = ":"
      /\ \A q \in 1 .. Len(a) : s[q] = a[q]
      /\ \A q \in 1 .. Len(b) : s[(Len(a) + 1) + q] = b[q]
  BY DEF Around, Text
<1>2. n \in Nat /\ n < Len(s) /\ s[n + 1] = ":" /\ Len(s) \in Nat /\ Len(s) # 0
  BY <1>1
<1>3. SubSeq(s, 1, n) = a /\ SubSeq(s, n + 2, Len(s)) = b
  <2>1. SubSeq(s, 1, Len(a)) = a /\ SubSeq(s, Len(a) + 2, Len(s)) = b
    BY AroundColon, Zenon
  <2> QED
    BY <2>1
<1>4. find(s, ":", 0) = n /\ find(s, ":", n + 1) = npos
  <2>1. DOMAIN a = 1 .. Len(a) /\ DOMAIN b = 1 .. Len(b)
    BY DEF Text
  <2>2. ASSUME NEW q \in 1 .. Len(s), s[q] = ":" PROVE q = n + 1
    <3>1. CASE q <= n
      <4>1. q \in 1 .. Len(a)
        BY <3>1
      <4> QED
        BY <1>1, <2>1, <2>2, <4>1 DEF NoColon
    <3>2. CASE q > n + 1
      <4>1. q - (Len(a) + 1) \in 1 .. Len(b) /\ (Len(a) + 1) + (q - (Len(a) + 1)) = q
        BY <1>1, <3>2
      <4>2. s[q] = b[q - (Len(a) + 1)]
        BY <1>1, <4>1
      <4> QED
        BY <2>1, <2>2, <4>1, <4>2 DEF NoColon
    <3> QED
      BY <1>2, <3>1, <3>2
  <2> HIDE DEF n
  <2> QED
    BY <1>1, <1>2, <2>2, FindColon
<1> HIDE DEF n
<1> DEFINE start == [v |-> <<>>, i |-> 0, j |-> n]
           done == [v |-> <<a, b>>, i |-> n + 1, j |-> npos]
<1>5. Cut(s, ":", start) = done
  <2>1. n # npos
    BY <1>2 DEF npos
  <2>2. substr(s, 0, n - 0) = a
    <3>1. 0 + 1 = 1 /\ n - 0 = n /\ 0 + (n - 0) = n /\ n < Len(s)
      BY <1>2
    <3> QED
      BY <1>3, <3>1 DEF substr
  <2>3. substr(s, n + 1, Len(s)) = b
    <3>1. (n + 1) + 1 = n + 2 /\ ~((n + 1) + Len(s) < Len(s))
      BY <1>2
    <3> QED
      BY <1>3, <3>1 DEF substr
  <2>4. Append(Append(<<>>, a), b) = <<a, b>>
    BY PairAppended
  <2> QED
    BY <1>4, <2>1, <2>2, <2>3, <2>4 DEF Cut
<1>6. Cut(s, ":", done) = done
  BY DEF Cut
<1>7. PICK f : /\ f[0] = [v |-> <<>>, i |-> 0, j |-> find(s, ":", 0)]
               /\ \A k \in 1 .. Len(s) : f[k] = Cut(s, ":", f[k - 1])
               /\ split(s, ":") = f[Len(s)].v
  <2>1. s \in Text
    BY <1>1
  <2> QED
    BY <2>1, SplitRounds, Zenon
<1> DEFINE A == {k \in Nat : k <= Len(s) => f[k] = IF k = 0 THEN start ELSE done}
<1>8. 0 \in A
  BY <1>4, <1>7
<1>9. ASSUME NEW k \in Nat, k \in A PROVE k + 1 \in A
  <2> HIDE DEF start, done
  <2> SUFFICES ASSUME k + 1 <= Len(s) PROVE f[k + 1] = done
    OBVIOUS
  <2>1. k + 1 \in 1 .. Len(s) /\ (k + 1) - 1 = k
    BY <1>2
  <2>2. f[k + 1] = Cut(s, ":", f[k])
    BY <1>7, <2>1
  <2>3. f[k] = start \/ f[k] = done
    BY <1>2, <1>9
  <2> QED
    BY <1>5, <1>6, <2>2, <2>3
<1>10. f[Len(s)] = done
  <2> HIDE DEF start, done
  <2>1. \A k \in Nat : k \in A
    <3> HIDE DEF A
    <3> QED
      BY <1>8, <1>9, SetInduction
  <2>2. Len(s) \in Nat /\ Len(s) # 0
    BY <1>2
  <2> QED
    BY <2>1, <2>2
<1> QED
  BY <1>7, <1>10

-----------------------------------------------------------------------------
(* The payload. *)
LEMMA TwoParts ==
  ASSUME NEW parts \in Seq(Text), Len(parts) = 2
  PROVE  WithColons(parts) = parts[1] \o <<":">> \o parts[2]
<1> DEFINE a == parts[1]
           b == parts[2]
           one == Append(<<>>, a)
<1>1. a \in Text /\ b \in Text
  OBVIOUS
<1>2. parts = <<a, b>>
  OBVIOUS
<1> HIDE DEF a, b
<1>3. one \in Seq(Text) /\ one # <<>> /\ <<>> \in Seq(Text)
  BY <1>1
<1>4. WithColons(one) = a
  BY <1>1, <1>3, WithColonsAppend
<1>5. Append(one, b) = <<a, b>>
  BY <1>1, PairAppended
<1> HIDE DEF one
<1>6. WithColons(Append(one, b)) = WithColons(one) \o <<":">> \o b
  BY <1>1, <1>3, WithColonsAppend
<1> QED
  BY <1>2, <1>4, <1>5, <1>6 DEF a, b

QuoteAndBrace == <<"\"", "}">>

LEMMA StripFacts ==
  ASSUME NEW data \in Text
  PROVE  strip(data) =
           IF \E n \in 1 .. Len(data) : data = SubSeq(data, 1, n) \o QuoteAndBrace
           THEN SubSeq(data, 1, Len(data) - 2) ELSE data
<1> DEFINE Wide == Letters \cup {"\"", "}"}
           m == Len(data)
           tail == SubSeq(data, (m - 2) + 1, m)
<1>1. data \in Seq(Wide) /\ m \in Nat /\ QuoteAndBrace \in Seq(Wide) /\ Len(QuoteAndBrace) = 2
  <2>1. data \in Seq(Letters) /\ Letters \subseteq Wide
    BY DEF Text
  <2>2. data \in Seq(Wide)
    BY <2>1, SeqMonotonic
  <2>3. QuoteAndBrace \in Seq(Wide) /\ Len(QuoteAndBrace) = 2
    BY DEF QuoteAndBrace
  <2>4. m \in Nat
    BY LenProperties DEF Text
  <2> HIDE DEF Wide
  <2> QED
    BY <2>2, <2>3, <2>4
<1>2. m = Len(data)
  OBVIOUS
<1> HIDE DEF Wide, m
<1>3. strip(data) = IF m > 2 /\ tail = QuoteAndBrace THEN SubSeq(data, 1, m - 2) ELSE data
  <2>1. m > 2 => /\ substr(data, m - 2, 2) = tail
                 /\ substr(data, 0, m - 2) = SubSeq(data, 1, m - 2)
    <3> SUFFICES ASSUME m > 2 PROVE substr(data, m - 2, 2) = tail /\ substr(data, 0, m - 2) = SubSeq(data, 1, m - 2)
      OBVIOUS
    <3>1. ~((m - 2) + 2 < m) /\ 0 + (m - 2) < m /\ 0 + 1 = 1 /\ 0 + (m - 2) = m - 2
      BY <1>1
    <3> QED
      BY <1>2, <3>1 DEF substr
  <2> HIDE DEF tail
  <2> QED
    BY <1>2, <2>1 DEF strip, EndsQuoted, QuoteAndBrace
<1>4. ASSUME m > 2
      PROVE  /\ tail \in Seq(Wide) /\ Len(tail) = 2
             /\ SubSeq(data, 1, m - 2) \o tail = data
             /\ SubSeq(data, 1, m - 2) \in Seq(Wide) /\ Len(SubSeq(data, 1, m - 2)) = m - 2
  <2> DEFINE c == m - 2
  <2>1. c \in Nat /\ m \in Nat /\ c <= m /\ m <= Len(data) /\ m - c = 2 /\ 0 \in Nat /\ 0 <= c /\ c - 0 = c
        /\ c <= Len(data)
    BY <1>1, <1>2, <1>4
  <2>2. c \in 1 - 1 .. Len(data) /\ m \in c .. Len(data) /\ 1 \in 1 .. Len(data) + 1
    BY <1>1, <1>2, <1>4
  <2> HIDE DEF c
  <2>3. SubSeq(data, c + 1, m) \in Seq(Wide) /\ Len(SubSeq(data, c + 1, m)) = m - c
    BY <1>1, <2>1, SubSeqFacts
  <2>4. SubSeq(data, 0 + 1, c) \in Seq(Wide) /\ Len(SubSeq(data, 0 + 1, c)) = c - 0 /\ 0 + 1 = 1
    BY <1>1, <2>1, SubSeqFacts
  <2>5. SubSeq(data, 1, c) \o SubSeq(data, c + 1, m) = SubSeq(data, 1, m)
    BY <1>1, <2>2, ConcatAdjacentSubSeq
  <2>6. SubSeq(data, 1, m) = data
    BY <1>1, <1>2, SubSeqFull
  <2> QED
    BY <2>1, <2>3, <2>4, <2>5, <2>6 DEF c
<1> HIDE DEF tail
<1>5. ASSUME m > 2, tail = QuoteAndBrace
      PROVE  \E n \in 1 .. Len(data) : data = SubSeq(data, 1, n) \o QuoteAndBrace
  <2>1. m - 2 \in 1 .. Len(data)
    BY <1>1, <1>2, <1>5
  <2> QED
    BY <1>4, <1>5, <2>1
<1>6. ASSUME NEW n \in 1 .. Len(data), data = SubSeq(data, 1, n) \o QuoteAndBrace
      PROVE  m > 2 /\ tail = QuoteAndBrace
  <2> DEFINE front == SubSeq(data, 1, n)
  <2>1. n \in Nat /\ 0 \in Nat /\ 0 <= n /\ n <= Len(data) /\ n - 0 = n /\ 0 + 1 = 1 /\ n # 0
    BY <1>1, <1>2
  <2>2. front \in Seq(Wide) /\ Len(front) = n
    <3>1. SubSeq(data, 0 + 1, n) \in Seq(Wide) /\ Len(SubSeq(data, 0 + 1, n)) = n - 0
      BY <1>1, <2>1, SubSeqFacts
    <3> QED
      BY <2>1, <3>1
  <2>3. data = front \o QuoteAndBrace
    BY <1>6
  <2>4. m = n + 2
    <3> HIDE DEF front
    <3>1. Len(front \o QuoteAndBrace) = Len(front) + Len(QuoteAndBrace)
      BY <1>1, <2>2, ConcatProperties
    <3> QED
      BY <1>1, <1>2, <2>2, <2>3, <3>1
  <2>5. m > 2 /\ m - 2 = n
    BY <2>1, <2>4
  <2>6. front \o tail = data /\ tail \in Seq(Wide)
    BY <1>4, <2>5
  <2> HIDE DEF front
  <2>7. tail = QuoteAndBrace
    BY <1>1, <2>2, <2>3, <2>6, ConcatSimplifications
  <2> QED
    BY <2>5, <2>7
<1> QED
  BY <1>2, <1>3, <1>5, <1>6

(* What messageParse returns and gives, in terms of the parts. *)
LEMMA ParseFacts ==
  ASSUME NEW type, NEW rcv, NEW send, NEW message
  PROVE  LET msg == split(message, ":")
             answer == messageParse(type, rcv, send, message)
         IN  /\ answer.returned # "false" =>
                  Len(msg) = 2 /\ (msg[1] = C_BIN \/ msg[1] \in Commands)
             /\ answer.given # <<>> =>
                  Len(msg) = 2 /\ msg[1] = C_BIN /\ answer.given[2] = strip(msg[2])
             /\ Len(msg) = 2 /\ msg[1] = C_BIN /\ rcv /\ answer.returned # "nullcall" =>
                  answer.given # <<>>
<1> DEFINE msg == split(message, ":")
           data == strip(msg[2])
           answer == messageParse(type, rcv, send, message)
           called == IF ~rcv THEN Returns("true", <<>>)
                     ELSE IF type = "windows" THEN Returns("true", <<"rcv_callback", data>>)
                     ELSE IF send THEN Returns("true", <<"send_callback", data>>)
                     ELSE Returns("nullcall", <<>>)
<1>1. CASE Len(msg) # 2
  <2>1. answer = Returns("false", <<>>)
    BY <1>1 DEF messageParse
  <2> QED
    BY <1>1, <2>1 DEF Returns
<1>2. CASE Len(msg) = 2 /\ msg[1] # C_BIN
  <2>1. answer = Returns(IF Known(msg[1]) THEN "true" ELSE "false", <<>>)
    BY <1>2 DEF messageParse
  <2> QED
    BY <1>2, <2>1 DEF Returns, Known
<1>3. CASE Len(msg) = 2 /\ msg[1] = C_BIN
  <2>1. answer = called
    BY <1>3 DEF messageParse
  <2> HIDE DEF answer, msg, data
  <2>2. /\ called.given # <<>> => called.given[2] = data
        /\ rcv /\ called.returned # "nullcall" => called.given # <<>>
    BY DEF Returns
  <2> QED
    BY <1>3, <2>1, <2>2 DEF answer, msg, data
<1> QED
  BY <1>1, <1>2, <1>3

(* A callback is given the payload, and all of it, for BIN_DATA only, and a  *)
(* text that is not one command with one colon is left alone                 *)
(* (messageParse).                                                          *)
THEOREM PayloadHolds == CallSpec => []PayloadIsExact
<1>1. CallInv => PayloadIsExact
  <2> SUFFICES ASSUME CallInv, Returned("messageParse") PROVE PayloadIsExact
    BY DEF PayloadIsExact
  <2> DEFINE s == call.message
             IsText(command, rest) == s = command \o <<":">> \o rest /\ NoColon(rest)
             payload == SubSeq(s, Len(C_BIN) + 2, Len(s))
             quoted == \E n \in 1 .. Len(payload) : payload = SubSeq(payload, 1, n) \o <<"\"", "}">>
             parts == split(s, ":")
  <2>1. s \in Text /\ C_BIN \in Text /\ NoColon(C_BIN)
    <3>1. s \in Text
      BY Arguments, CallsAssumption, SeqMonotonic DEF Parses, Returned, Text, Letters
    <3>2. C_BIN \in Text
      BY CallsAssumption, SeqMonotonic DEF Text, Letters
    <3>3. NoColon(C_BIN)
      BY CallsAssumption DEF NoColon
    <3> QED
      BY <3>1, <3>2, <3>3
  <2>2. value = messageParse(call.type, call.rcv, call.send, s)
    BY DEF CallInv
  <2>3. /\ value.returned # "false" =>
             Len(parts) = 2 /\ (parts[1] = C_BIN \/ parts[1] \in Commands)
        /\ value.given # <<>> =>
             Len(parts) = 2 /\ parts[1] = C_BIN /\ value.given[2] = strip(parts[2])
        /\ Len(parts) = 2 /\ parts[1] = C_BIN /\ call.rcv /\ value.returned # "nullcall" =>
             value.given # <<>>
    BY <2>2, ParseFacts
  <2> HIDE DEF s, parts
  <2>4. ASSUME Len(parts) = 2
        PROVE  /\ parts[1] \in Text /\ parts[2] \in Text
               /\ IsText(parts[1], parts[2])
               /\ SubSeq(s, Len(parts[1]) + 2, Len(s)) = parts[2]
    <3>1. /\ parts \in Seq(Text) /\ \A q \in DOMAIN parts : NoColon(parts[q])
          /\ parts # <<>> => WithColons(parts) = s
      BY <2>1, SplitEnds DEF parts
    <3>2. parts # <<>> /\ 1 \in DOMAIN parts /\ 2 \in DOMAIN parts
      BY <2>4, <3>1
    <3>3. parts[1] \in Text /\ parts[2] \in Text
      BY <2>4, <3>1
    <3>4. s = parts[1] \o <<":">> \o parts[2]
      BY <2>4, <3>1, <3>2, TwoParts
    <3>5. SubSeq(s, Len(parts[1]) + 2, Len(s)) = parts[2]
      <4> DEFINE first == parts[1]
                 second == parts[2]
      <4>1. first \in Text /\ second \in Text
        BY <3>3
      <4>2. s = first \o <<":">> \o second
        BY <3>4
      <4> HIDE DEF first, second
      <4>3. SubSeq(s, 1, Len(first)) = first /\ SubSeq(s, Len(first) + 2, Len(s)) = second
        <5>1. Around(Letters, s, first, ":", second)
          BY <4>1, <4>2, OneColon
        <5> QED
          BY <4>1, <5>1, AroundColon, Zenon
      <4> QED
        BY <4>3 DEF first, second
    <3> QED
      BY <3>1, <3>2, <3>3, <3>4, <3>5
  <2>5. ASSUME value.returned # "false"
        PROVE  \E command \in Commands \cup {C_BIN} :
                 IsText(command, SubSeq(s, Len(command) + 2, Len(s)))
    BY <2>3, <2>4, <2>5
  <2>6. ASSUME value.given # <<>>
        PROVE  /\ IsText(C_BIN, payload)
               /\ value.given[2] = IF quoted THEN SubSeq(payload, 1, Len(payload) - 2) ELSE payload
    <3>1. IsText(C_BIN, payload) /\ payload \in Text /\ value.given[2] = strip(payload)
      BY <2>3, <2>4, <2>6
    <3> HIDE DEF payload
    <3> QED
      BY <3>1, StripFacts DEF QuoteAndBrace
  <2>7. ASSUME IsText(C_BIN, payload), call.rcv, value.returned # "nullcall"
        PROVE  value.given # <<>>
    <3>1. payload \in Text
      <4>1. s \in Seq(Letters) /\ Len(s) \in Nat /\ Len(C_BIN) \in Nat
        BY <2>1 DEF Text
      <4>2. \A q \in Len(C_BIN) + 2 .. Len(s) : s[q] \in Letters
        BY <4>1
      <4> QED
        BY <4>1, <4>2, SubSeqProperties DEF Text
    <3> HIDE DEF payload
    <3>2. parts = <<C_BIN, payload>>
      <4>1. C_BIN \in Text /\ s = C_BIN \o <<":">> \o payload /\ NoColon(C_BIN) /\ NoColon(payload)
        BY <2>1, <2>7
      <4>2. Around(Letters, s, C_BIN, ":", payload)
        BY <3>1, <4>1, OneColon
      <4> QED
        BY <3>1, <4>1, <4>2, SplitOnce DEF parts
    <3>3. Len(parts) = 2 /\ parts[1] = C_BIN
      BY <3>2
    <3> QED
      BY <2>3, <2>7, <3>3
  <2> HIDE DEF IsText, payload, quoted
  <2>8. /\ value.returned # "false" =>
             \E command \in Commands \cup {C_BIN} :
               IsText(command, SubSeq(s, Len(command) + 2, Len(s)))
        /\ value.given # <<>> =>
             /\ IsText(C_BIN, payload)
             /\ value.given[2] = IF quoted THEN SubSeq(payload, 1, Len(payload) - 2) ELSE payload
        /\ IsText(C_BIN, payload) /\ call.rcv /\ value.returned # "nullcall" => value.given # <<>>
    BY <2>5, <2>6, <2>7
  <2> QED
    BY <2>8 DEF PayloadIsExact, IsText, payload, quoted, s
<1> QED
  BY <1>1, CallInvariant, PTL

-----------------------------------------------------------------------------
(* The line breaks.  A text may hold some.                                  *)
Broke == Chars \cup {NL}
Plain == Chars \ {NL}
InsertStates == [str : Seq(Broke), pos : Nat]

(* The text with a break at place. *)
WithBreak(s, place) == SubSeq(s, 1, place) \o <<NL>> \o SubSeq(s, place + 1, Len(s))

LEMMA WithBreakFacts ==
  ASSUME NEW s \in Seq(Broke), NEW place \in Nat, place < Len(s)
  PROVE  LET longer == WithBreak(s, place)
         IN  /\ longer \in Seq(Broke) /\ Len(longer) = Len(s) + 1 /\ longer[place + 1] = NL
             /\ \A q \in 1 .. place : longer[q] = s[q]
             /\ \A q \in place + 1 .. Len(s) : longer[q + 1] = s[q]
             /\ Keep(longer, Plain) = Keep(s, Plain)
<1> DEFINE n == Len(s)
           before == SubSeq(s, 0 + 1, place)
           after == SubSeq(s, place + 1, n)
           longer == before \o <<NL>> \o after
<1>1. n \in Nat /\ 0 \in Nat /\ 0 <= place /\ place <= n /\ n <= Len(s) /\ place <= Len(s) /\ 0 + 1 = 1 /\ place - 0 = place
  OBVIOUS
<1> HIDE DEF n
<1>2. /\ before \in Seq(Broke) /\ Len(before) = place - 0
      /\ \A q \in 1 .. place - 0 : before[q] = s[0 + q]
  BY <1>1, SubSeqFacts
<1>3. /\ after \in Seq(Broke) /\ Len(after) = n - place
      /\ \A q \in 1 .. n - place : after[q] = s[place + q]
  BY <1>1, SubSeqFacts
<1>4. NL \in Broke /\ NL \notin Plain
  BY DEF Broke, Plain
<1>5. before \o after = s
  <2>1. 1 \in 1 .. Len(s) + 1 /\ place \in 1 - 1 .. Len(s) /\ n \in place .. Len(s)
    BY <1>1
  <2>2. SubSeq(s, 1, place) \o SubSeq(s, place + 1, n) = SubSeq(s, 1, n)
    BY <2>1, ConcatAdjacentSubSeq
  <2>3. SubSeq(s, 1, n) = s
    BY SubSeqFull DEF n
  <2> QED
    BY <1>1, <2>2, <2>3
<1>6. WithBreak(s, place) = longer
  BY <1>1 DEF WithBreak, n
<1> HIDE DEF before, after
<1>7. Around(Broke, longer, before, NL, after)
  BY <1>2, <1>3, <1>4, ConcatThree
<1>8. Keep(longer, Plain) = Keep(s, Plain)
  BY <1>2, <1>3, <1>4, <1>5, KeepWithout
<1> HIDE DEF longer
<1>9. /\ longer \in Seq(Broke) /\ Len(longer) = n + 1 /\ longer[place + 1] = NL
      /\ \A q \in 1 .. place : longer[q] = before[q]
      /\ \A q \in 1 .. n - place : longer[(place + 1) + q] = after[q]
  <2>1. Len(before) = place /\ Len(after) = n - place /\ place + 1 + (n - place) = n + 1
    BY <1>1, <1>2, <1>3
  <2> QED
    BY <1>7, <2>1 DEF Around
<1>10. \A q \in 1 .. place : longer[q] = s[q]
  <2>1. \A q \in 1 .. place : q \in 1 .. place - 0 /\ 0 + q = q
    BY <1>1
  <2> QED
    BY <1>2, <1>9, <2>1
<1>11. ASSUME NEW q \in place + 1 .. n PROVE longer[q + 1] = s[q]
  <2>1. q - place \in 1 .. n - place /\ (place + 1) + (q - place) = q + 1 /\ place + (q - place) = q
    BY <1>1
  <2> QED
    BY <1>3, <1>9, <2>1
<1> QED
  BY <1>6, <1>8, <1>9, <1>10, <1>11 DEF n

LEMMA InsertRounds ==
  ASSUME NEW text \in Seq(Broke), NEW d \in Nat
  PROVE  \E f : /\ f[0] = [str |-> text, pos |-> d]
                /\ \A k \in 1 .. Len(text) : f[k] = InsertBreak(f[k - 1], d)
                /\ insert_linebreaks(text, d) = f[Len(text)].str
<1> DEFINE n == Len(text)
           start == [str |-> text, pos |-> d]
           Value(f, k) == IF k = 0 THEN start ELSE InsertBreak(f[k - 1], d)
           body == [k \in 1 .. n |-> [st \in InsertStates |-> InsertBreak(st, d)]]
<1>1. n \in Nat /\ start \in InsertStates
  BY DEF InsertStates
<1>2. body \in [1 .. n -> [InsertStates -> InsertStates]]
  <2>1. ASSUME NEW st \in InsertStates PROVE InsertBreak(st, d) \in InsertStates
    <3>1. st.str \in Seq(Broke) /\ st.pos \in Nat /\ Len(st.str) \in Nat
      BY DEF InsertStates
    <3>2. CASE st.pos >= Len(st.str)
      BY <3>2 DEF InsertBreak
    <3>3. CASE st.pos < Len(st.str)
      <4>1. WithBreak(st.str, st.pos) \in Seq(Broke) /\ st.pos + d + 1 \in Nat
        BY <3>1, <3>3, WithBreakFacts
      <4>2. InsertBreak(st, d) = [str |-> WithBreak(st.str, st.pos), pos |-> st.pos + d + 1]
        BY <3>1, <3>3 DEF InsertBreak, WithBreak
      <4> QED
        BY <4>1, <4>2 DEF InsertStates
    <3> QED
      BY <3>1, <3>2, <3>3
  <2> QED
    BY <2>1
<1>3. PICK g \in [0 .. n -> InsertStates] : Rounds(g, start, body, n)
  <2> HIDE DEF body, n, start
  <2> QED
    BY <1>1, <1>2, LoopExists
<1>4. g = [k \in 0 .. n |-> Value(g, k)]
  <2>1. ASSUME NEW k \in 0 .. n PROVE g[k] = Value(g, k)
    <3>1. g[0] = start
      BY <1>3 DEF Rounds
    <3>2. ASSUME k # 0 PROVE g[k] = InsertBreak(g[k - 1], d)
      <4>1. k \in 1 .. n /\ k - 1 \in 0 .. n
        BY <1>1, <2>1, <3>2
      <4>2. g[k] = body[k][g[k - 1]] /\ g[k - 1] \in InsertStates
        BY <1>3, <4>1 DEF Rounds
      <4> QED
        BY <4>1, <4>2
    <3> QED
      BY <3>1, <3>2
  <2> QED
    BY <2>1
<1> DEFINE h == CHOOSE f : f = [k \in 0 .. n |-> Value(f, k)]
<1>5. h = [k \in 0 .. n |-> Value(h, k)]
  BY <1>4
<1>6. insert_linebreaks(text, d) = h[n].str
  BY DEF insert_linebreaks
<1> HIDE DEF h, start
<1>7. h[0] = start /\ \A k \in 1 .. n : h[k] = InsertBreak(h[k - 1], d)
  BY <1>1, <1>5
<1> QED
  BY <1>6, <1>7 DEF start

(* What insert_linebreaks' loop keeps true: up to the break at pos - d the  *)
(* lines are full, and the text behind it is not empty and has no break.    *)
InsertInv(text, d, k, st) ==
  /\ st.str \in Seq(Broke) /\ st.pos \in Nat /\ d <= st.pos
  /\ (st.pos + 1) % (d + 1) = 0
  /\ \A p \in 1 .. Len(st.str) : st.str[p] = NL <=> p % (d + 1) = 0 /\ p <= st.pos - d
  /\ st.str # <<>> => Len(st.str) > st.pos - d
  /\ Keep(st.str, Plain) = text
  /\ Len(st.str) <= st.pos \/ Len(st.str) - st.pos <= Len(text) - k

LEMMA InsertStarts ==
  ASSUME NEW text \in Seq(Plain), NEW d \in Nat \ {0}
  PROVE  InsertInv(text, d, 0, [str |-> text, pos |-> d])
<1>1. text \in Seq(Broke) /\ Keep(text, Plain) = text /\ Len(text) \in Nat
  <2>1. Plain \subseteq Broke
    BY DEF Plain, Broke
  <2> QED
    BY <2>1, SeqMonotonic, KeepAll
<1>2. (d + 1) % (d + 1) = 0
  <2> DEFINE m == d + 1
  <2>1. m \in Nat \ {0} /\ m \in Int
    OBVIOUS
  <2> HIDE DEF m
  <2>2. m = m * 1 + 0 /\ 0 \in 0 .. m - 1
    BY <2>1
  <2>3. m % m = 0
    BY <2>1, <2>2, DivisionUnique
  <2> QED
    BY <2>3 DEF m
<1>3. \A p \in 1 .. Len(text) : text[p] # NL /\ ~(p <= d - d)
  BY DEF Plain
<1>4. text # <<>> => Len(text) > d - d
  OBVIOUS
<1> DEFINE st == [str |-> text, pos |-> d]
<1>5. st.str = text /\ st.pos = d
  OBVIOUS
<1> HIDE DEF st
<1>6. InsertInv(text, d, 0, st)
  BY <1>1, <1>2, <1>3, <1>4, <1>5 DEF InsertInv
<1> QED
  BY <1>6 DEF st

LEMMA InsertGoesOn ==
  ASSUME NEW text \in Seq(Plain), NEW d \in Nat \ {0}, NEW k \in Nat, NEW st,
         InsertInv(text, d, k, st)
  PROVE  InsertInv(text, d, k + 1, InsertBreak(st, d))
<1> DEFINE s == st.str
           place == st.pos
           n == Len(st.str)
           m == d + 1
           longer == WithBreak(s, place)
<1>1. s \in Seq(Broke) /\ place \in Nat /\ n \in Nat /\ Len(text) \in Nat /\ m \in Nat \ {0} /\ d <= place
  BY DEF InsertInv
<1>2. CASE place >= n
  <2>1. InsertBreak(st, d) = st
    BY <1>2 DEF InsertBreak
  <2> QED
    BY <1>1, <1>2, <2>1 DEF InsertInv
<1>3. CASE place < n
  <2>1. InsertBreak(st, d) = [str |-> longer, pos |-> place + d + 1]
    BY <1>1, <1>3 DEF InsertBreak, WithBreak
  <2>2. /\ longer \in Seq(Broke) /\ Len(longer) = n + 1 /\ longer[place + 1] = NL
        /\ \A q \in 1 .. place : longer[q] = s[q]
        /\ \A q \in place + 1 .. n : longer[q + 1] = s[q]
        /\ Keep(longer, Plain) = Keep(s, Plain)
    BY <1>1, <1>3, WithBreakFacts
  <2>3. /\ (place + 1) % m = 0
        /\ \A p \in 1 .. n : s[p] = NL <=> p % m = 0 /\ p <= place - d
        /\ Keep(s, Plain) = text
        /\ n <= place \/ n - place <= Len(text) - k
    BY DEF InsertInv
  <2> HIDE DEF s, place, n, m, longer
  <2>4. m = d + 1
    BY DEF m
  <2>5. ((place + 1) + m) % m = 0
    <3> DEFINE a == place + 1
    <3>1. a \in Nat /\ a % m = 0
      BY <1>1, <2>3
    <3> HIDE DEF a
    <3>2. (a + m) % m = 0
      BY <1>1, <3>1, NextMultiple
    <3> QED
      BY <3>2 DEF a
  <2>6. ASSUME NEW p \in 1 .. n + 1
        PROVE  longer[p] = NL <=> p % m = 0 /\ p <= place + 1
    <3>1. CASE p <= place
      <4>1. p \in 1 .. n /\ p \in 1 .. place
        BY <1>1, <1>3, <3>1
      <4>2. longer[p] = NL <=> p % m = 0 /\ p <= place - d
        BY <2>2, <2>3, <4>1
      <4>3. ASSUME p > place - d PROVE p % m # 0
        <5> DEFINE a == place - d
        <5>1. a \in Nat /\ p \in Nat /\ a < p /\ p < a + m /\ a + m = place + 1
          BY <1>1, <2>4, <3>1, <4>3
        <5> HIDE DEF a
        <5>2. a % m = 0
          BY <1>1, <2>3, <5>1, NextMultiple
        <5> QED
          BY <1>1, <5>1, <5>2, BetweenMultiples
      <4>4. p <= place + 1 /\ (p <= place - d \/ p > place - d)
        BY <1>1, <3>1
      <4> QED
        BY <4>2, <4>3, <4>4
    <3>2. CASE p = place + 1
      BY <1>1, <2>2, <2>3, <3>2
    <3>3. CASE p > place + 1
      <4>1. p - 1 \in place + 1 .. n /\ p - 1 \in 1 .. n /\ (p - 1) + 1 = p /\ ~(p - 1 <= place - d)
            /\ ~(p <= place + 1)
        BY <1>1, <3>3
      <4>2. longer[p] = s[p - 1] /\ s[p - 1] # NL
        BY <2>2, <2>3, <4>1
      <4> QED
        BY <4>1, <4>2
    <3> QED
      BY <1>1, <3>1, <3>2, <3>3
  <2> DEFINE next == InsertBreak(st, d)
  <2>7. next.str = longer /\ next.pos = place + d + 1
    BY <2>1
  <2> HIDE DEF next
  <2>8. /\ place + d + 1 \in Nat /\ d <= place + d + 1 /\ (place + d + 1) + 1 = (place + 1) + m
        /\ (place + d + 1) - d = place + 1 /\ n + 1 > place + 1
        /\ n + 1 <= place + d + 1 \/ (n + 1) - (place + d + 1) <= Len(text) - (k + 1)
    BY <1>1, <1>3, <2>3, <2>4
  <2>9. InsertInv(text, d, k + 1, next)
    BY <2>2, <2>3, <2>4, <2>5, <2>6, <2>7, <2>8 DEF InsertInv
  <2> QED
    BY <2>9 DEF next
<1> QED
  BY <1>1, <1>2, <1>3

LEMMA InsertEnds ==
  ASSUME NEW text \in Seq(Plain), NEW d \in Nat \ {0}
  PROVE  LET lines == insert_linebreaks(text, d)
         IN  /\ lines \in Seq(Broke) /\ Keep(lines, Plain) = text
             /\ \A p \in DOMAIN lines : lines[p] = NL <=> p % (d + 1) = 0
             /\ lines # <<>> => lines[Len(lines)] # NL
<1> DEFINE n == Len(text)
           lines == insert_linebreaks(text, d)
<1>1. text \in Seq(Broke) /\ n \in Nat
  <2>1. Plain \subseteq Broke
    BY DEF Plain, Broke
  <2> QED
    BY <2>1, SeqMonotonic
<1>2. PICK f : /\ f[0] = [str |-> text, pos |-> d]
               /\ \A k \in 1 .. n : f[k] = InsertBreak(f[k - 1], d)
               /\ lines = f[n].str
  BY <1>1, InsertRounds
<1> HIDE DEF n, lines
<1> DEFINE A == {k \in Nat : k <= n => InsertInv(text, d, k, f[k])}
<1>3. 0 \in A
  BY <1>2, InsertStarts
<1>4. ASSUME NEW k \in Nat, k \in A PROVE k + 1 \in A
  <2> SUFFICES ASSUME k + 1 <= n PROVE InsertInv(text, d, k + 1, f[k + 1])
    OBVIOUS
  <2>1. InsertInv(text, d, k, f[k]) /\ k + 1 \in 1 .. n /\ (k + 1) - 1 = k
    BY <1>1, <1>4
  <2>2. f[k + 1] = InsertBreak(f[k], d)
    BY <1>2, <2>1
  <2> HIDE DEF A
  <2> QED
    BY <2>1, <2>2, InsertGoesOn
<1>5. InsertInv(text, d, n, f[n])
  <2> HIDE DEF A
  <2>1. n \in A
    BY <1>1, <1>3, <1>4, SetInduction
  <2> QED
    BY <1>1, <2>1 DEF A
<1> DEFINE place == f[n].pos
           m == d + 1
           a == place - d
<1>6. /\ lines \in Seq(Broke) /\ place \in Nat /\ d <= place /\ (place + 1) % m = 0
      /\ \A p \in 1 .. Len(lines) : lines[p] = NL <=> p % m = 0 /\ p <= a
      /\ lines # <<>> => Len(lines) > a
      /\ Keep(lines, Plain) = text
      /\ Len(lines) <= place \/ Len(lines) - place <= Len(text) - n
  BY <1>2, <1>5 DEF InsertInv
<1> HIDE DEF place
<1>7. /\ Len(lines) \in Nat /\ DOMAIN lines = 1 .. Len(lines) /\ Len(lines) <= place
      /\ a \in Nat /\ m \in Nat \ {0} /\ place + 1 = a + m
  <2>1. Len(lines) \in Nat /\ DOMAIN lines = 1 .. Len(lines)
    BY <1>6
  <2>2. Len(text) - n = 0
    BY <1>1 DEF n
  <2> QED
    BY <1>6, <2>1, <2>2
<1>8. lines # <<>> => Len(lines) \in 1 .. Len(lines)
  BY <1>6
<1> HIDE DEF m, a
<1>9. a % m = 0
  <2>1. (a + m) % m = 0
    BY <1>6, <1>7
  <2>2. (a + m) % m = a % m
    BY <1>7, NextMultiple
  <2> QED
    BY <2>1, <2>2
<1>10. ASSUME NEW p \in 1 .. Len(lines), p > a PROVE p % m # 0
  <2> DEFINE long == Len(lines)
  <2>1. long \in Nat /\ long <= place /\ place \in Nat /\ a \in Nat /\ m \in Nat /\ place + 1 = a + m
    BY <1>6, <1>7
  <2>2. p \in 1 .. long
    OBVIOUS
  <2> HIDE DEF long
  <2>3. p \in Nat /\ a < p /\ p < a + m
    BY <1>10, <2>1, <2>2
  <2> QED
    BY <1>7, <1>9, <2>3, BetweenMultiples
<1>11. \A p \in DOMAIN lines : lines[p] = NL <=> p % m = 0
  <2> SUFFICES ASSUME NEW p \in 1 .. Len(lines) PROVE lines[p] = NL <=> p % m = 0
    BY <1>7
  <2>1. p <= a \/ p > a
    BY <1>7
  <2> QED
    BY <1>6, <1>10, <2>1
<1>12. lines # <<>> => lines[Len(lines)] # NL
  <2> SUFFICES ASSUME lines # <<>> PROVE lines[Len(lines)] # NL
    OBVIOUS
  <2>1. ~(Len(lines) <= a)
    BY <1>6, <1>7
  <2> QED
    BY <1>6, <1>8, <2>1
<1> QED
  BY <1>6, <1>11, <1>12 DEF m, lines

(* Every line of an encoded text is full but the last, which is not empty   *)
(* (insert_linebreaks).                                                    *)
THEOREM LinesHold == CallSpec => []LinesAreFull
<1>1. CallInv => LinesAreFull
  <2> SUFFICES ASSUME CallInv, Returned("insert_linebreaks") PROVE LinesAreFull
    BY DEF LinesAreFull
  <2>1. call.text \in Seq(Plain) /\ call.distance \in Nat \ {0}
    BY Arguments, CallsAssumption DEF Breaks, Returned, Plain
  <2>2. value = insert_linebreaks(call.text, call.distance)
    BY DEF CallInv
  <2> DEFINE text == call.text
             d == call.distance
             lines == insert_linebreaks(text, d)
  <2> HIDE DEF text, d
  <2>3. /\ \A p \in DOMAIN lines : lines[p] = NL <=> p % (d + 1) = 0
        /\ lines # <<>> => lines[Len(lines)] # NL
    BY <2>1, InsertEnds DEF text, d
  <2> QED
    BY <2>2, <2>3 DEF LinesAreFull, text, d
<1> QED
  BY <1>1, CallInvariant, PTL

(* What remove_linebreaks' loop keeps true: no break is before pos, and     *)
(* nothing but breaks is lost.                                             *)
EraseStates == [copy : Seq(Broke), pos : Nat]
BreaksFrom(st) == {p \in st.pos .. Len(st.copy) - 1 : st.copy[p + 1] = NL}

EraseInv(text, k, st) ==
  /\ st \in EraseStates
  /\ \A p \in 1 .. Len(st.copy) : p <= st.pos => st.copy[p] # NL
  /\ Keep(st.copy, Plain) = Keep(text, Plain)
  /\ BreaksFrom(st) = {} \/ Len(st.copy) <= Len(text) - k

LEMMA EraseFacts ==
  ASSUME NEW st \in EraseStates
  PROVE  /\ BreaksFrom(st) = {} => EraseBreak(st) = st
         /\ BreaksFrom(st) # {} =>
              LET first == FirstBreak(BreaksFrom(st))
                  shorter == SubSeq(st.copy, 1, first) \o SubSeq(st.copy, first + 2, Len(st.copy))
              IN  /\ first \in st.pos .. Len(st.copy) - 1
                  /\ \A p \in 1 .. first : p > st.pos => st.copy[p] # NL
                  /\ EraseBreak(st) = [copy |-> shorter, pos |-> first]
                  /\ shorter \in Seq(Broke) /\ Len(shorter) = Len(st.copy) - 1
                  /\ \A p \in 1 .. first : shorter[p] = st.copy[p]
                  /\ Keep(shorter, Plain) = Keep(st.copy, Plain)
<1> DEFINE breaks == BreaksFrom(st)
           first == FirstBreak(breaks)
           s == st.copy
           n == Len(st.copy)
           before == SubSeq(s, 1, first)
           after == SubSeq(s, first + 2, n)
<1>1. EraseBreak(st) = IF breaks = {} THEN st ELSE [copy |-> before \o after, pos |-> first]
  BY DEF EraseBreak, BreaksFrom
<1>2. s \in Seq(Broke) /\ n \in Nat /\ st.pos \in Nat /\ n = Len(s)
  BY DEF EraseStates
<1>3. ASSUME breaks # {}
      PROVE  /\ first \in st.pos .. n - 1
             /\ \A p \in 1 .. first : p > st.pos => s[p] # NL
             /\ before \o after \in Seq(Broke) /\ Len(before \o after) = n - 1
             /\ \A p \in 1 .. first : (before \o after)[p] = s[p]
             /\ Keep(before \o after, Plain) = Keep(s, Plain)
  <2>1. first \in breaks /\ \A other \in breaks : first <= other
    <3>1. breaks \subseteq Nat
      BY <1>2 DEF BreaksFrom
    <3> HIDE DEF breaks
    <3> QED
      BY <1>3, <3>1, LeastExists DEF FirstBreak
  <2> HIDE DEF first
  <2>2. first \in st.pos .. n - 1 /\ s[first + 1] = NL
    BY <2>1 DEF BreaksFrom
  <2>3. ASSUME NEW p \in 1 .. first, p > st.pos PROVE s[p] # NL
    <3>1. p - 1 \in st.pos .. n - 1 /\ (p - 1) + 1 = p /\ ~(first <= p - 1)
      BY <1>2, <2>2, <2>3
    <3>2. p - 1 \notin breaks
      BY <2>1, <3>1
    <3> QED
      BY <3>1, <3>2 DEF BreaksFrom
  <2> HIDE DEF s, n, breaks
  <2>4. /\ first \in Nat /\ first + 1 \in Nat /\ 0 + 1 = 1 /\ (first + 1) + 1 = first + 2 /\ first - 0 = first
        /\ first <= Len(s) /\ first + 1 <= n /\ first < Len(s) /\ n <= Len(s) /\ 0 <= first
    BY <1>2, <2>2
  <2>5. /\ before \in Seq(Broke) /\ Len(before) = first
        /\ \A p \in 1 .. first : before[p] = s[p]
    <3>1. /\ SubSeq(s, 0 + 1, first) \in Seq(Broke) /\ Len(SubSeq(s, 0 + 1, first)) = first - 0
          /\ \A p \in 1 .. first - 0 : SubSeq(s, 0 + 1, first)[p] = s[0 + p]
      BY <1>2, <2>4, SubSeqFacts
    <3>2. \A p \in 1 .. first : 0 + p = p
      OBVIOUS
    <3> QED
      BY <2>4, <3>1, <3>2
  <2>6. after \in Seq(Broke) /\ Len(after) = n - (first + 1)
    <3> DEFINE c == first + 1
    <3>1. c \in Nat /\ c <= n /\ n <= Len(s) /\ c + 1 = first + 2
      BY <2>4
    <3> HIDE DEF c
    <3>2. SubSeq(s, c + 1, n) \in Seq(Broke) /\ Len(SubSeq(s, c + 1, n)) = n - c
      BY <1>2, <3>1, SubSeqFacts
    <3> QED
      BY <3>1, <3>2 DEF c
  <2>7. s = before \o <<NL>> \o after
    <3>1. SubSeq(s, 1, first + 1) = before \o <<NL>>
      <4> DEFINE c == first + 1
      <4>1. 1 \in 1 .. Len(s) /\ c \in 1 .. Len(s) /\ c - 1 = first /\ s[c] = NL
        BY <1>2, <2>2, <2>4
      <4> HIDE DEF c
      <4>2. SubSeq(s, 1, c) = SubSeq(s, 1, c - 1) \o <<s[c]>>
        BY <1>2, <4>1, SubSeqRecursiveSecond
      <4> QED
        BY <4>1, <4>2 DEF c
    <3>2. SubSeq(s, 1, first + 1) \o after = SubSeq(s, 1, n)
      <4> DEFINE c == first + 1
      <4>1. 1 \in 1 .. Len(s) + 1 /\ c \in 1 - 1 .. Len(s) /\ n \in c .. Len(s) /\ c + 1 = first + 2
        BY <1>2, <2>4
      <4> HIDE DEF c
      <4>2. SubSeq(s, 1, c) \o SubSeq(s, c + 1, n) = SubSeq(s, 1, n)
        BY <1>2, <4>1, ConcatAdjacentSubSeq
      <4> QED
        BY <4>1, <4>2 DEF c
    <3>3. SubSeq(s, 1, n) = s
      BY <1>2, SubSeqFull
    <3> HIDE DEF before, after
    <3> QED
      BY <3>1, <3>2, <3>3
  <2> HIDE DEF before, after
  <2>8. NL \in Broke /\ NL \notin Plain
    BY DEF Broke, Plain
  <2>9. Keep(before \o after, Plain) = Keep(s, Plain)
    BY <2>5, <2>6, <2>7, <2>8, KeepWithout
  <2>10. before \o after \in Seq(Broke) /\ Len(before \o after) = n - 1
    <3>1. before \o after \in Seq(Broke) /\ Len(before \o after) = Len(before) + Len(after)
      BY <2>5, <2>6, ConcatProperties
    <3> QED
      BY <1>2, <2>4, <2>5, <2>6, <3>1
  <2>11. ASSUME NEW p \in 1 .. first PROVE (before \o after)[p] = s[p]
    <3>1. p \in 1 .. Len(before) + Len(after) /\ p <= Len(before)
      BY <1>2, <2>4, <2>5, <2>6
    <3>2. (before \o after)[p] = before[p]
      BY <2>5, <2>6, <3>1, ConcatProperties
    <3> QED
      BY <2>5, <3>2
  <2> QED
    BY <2>2, <2>3, <2>9, <2>10, <2>11
<1> QED
  BY <1>1, <1>3

LEMMA EraseType ==
  ASSUME NEW st \in EraseStates
  PROVE  EraseBreak(st) \in EraseStates
<1>1. CASE BreaksFrom(st) = {}
  BY <1>1, EraseFacts
<1>2. CASE BreaksFrom(st) # {}
  <2> DEFINE first == FirstBreak(BreaksFrom(st))
             shorter == SubSeq(st.copy, 1, first) \o SubSeq(st.copy, first + 2, Len(st.copy))
  <2>1. /\ first \in st.pos .. Len(st.copy) - 1 /\ shorter \in Seq(Broke)
        /\ EraseBreak(st) = [copy |-> shorter, pos |-> first]
    BY <1>2, EraseFacts
  <2> HIDE DEF first, shorter
  <2>2. st.pos \in Nat
    BY DEF EraseStates
  <2>3. first \in Nat
    BY <2>1, <2>2
  <2> QED
    BY <2>1, <2>3 DEF EraseStates
<1> QED
  BY <1>1, <1>2

LEMMA EraseRounds ==
  ASSUME NEW text \in Seq(Broke)
  PROVE  \E f : /\ f[0] = [copy |-> text, pos |-> 0]
                /\ \A k \in 1 .. Len(text) : f[k] = EraseBreak(f[k - 1])
                /\ remove_linebreaks(text) = f[Len(text)].copy
<1> DEFINE n == Len(text)
           start == [copy |-> text, pos |-> 0]
           Value(f, k) == IF k = 0 THEN start ELSE EraseBreak(f[k - 1])
           body == [k \in 1 .. n |-> [st \in EraseStates |-> EraseBreak(st)]]
<1>1. n \in Nat /\ start \in EraseStates
  BY DEF EraseStates
<1>2. body \in [1 .. n -> [EraseStates -> EraseStates]]
  BY EraseType
<1>3. PICK g \in [0 .. n -> EraseStates] : Rounds(g, start, body, n)
  <2> HIDE DEF body, n, start
  <2> QED
    BY <1>1, <1>2, LoopExists
<1>4. g = [k \in 0 .. n |-> Value(g, k)]
  <2>1. ASSUME NEW k \in 0 .. n PROVE g[k] = Value(g, k)
    <3>1. g[0] = start
      BY <1>3 DEF Rounds
    <3>2. ASSUME k # 0 PROVE g[k] = EraseBreak(g[k - 1])
      <4>1. k \in 1 .. n /\ k - 1 \in 0 .. n
        BY <1>1, <2>1, <3>2
      <4>2. g[k] = body[k][g[k - 1]] /\ g[k - 1] \in EraseStates
        BY <1>3, <4>1 DEF Rounds
      <4> QED
        BY <4>1, <4>2
    <3> QED
      BY <3>1, <3>2
  <2> QED
    BY <2>1
<1> DEFINE h == CHOOSE f : f = [k \in 0 .. n |-> Value(f, k)]
<1>5. h = [k \in 0 .. n |-> Value(h, k)]
  BY <1>4
<1>6. remove_linebreaks(text) = h[n].copy
  BY DEF remove_linebreaks
<1> HIDE DEF h, start
<1>7. h[0] = start /\ \A k \in 1 .. n : h[k] = EraseBreak(h[k - 1])
  BY <1>1, <1>5
<1> QED
  BY <1>6, <1>7 DEF start

LEMMA EraseGoesOn ==
  ASSUME NEW text \in Seq(Broke), NEW k \in Nat, NEW st, EraseInv(text, k, st)
  PROVE  EraseInv(text, k + 1, EraseBreak(st))
<1>1. st \in EraseStates /\ Len(text) \in Nat
  BY DEF EraseInv
<1>2. CASE BreaksFrom(st) = {}
  <2>1. EraseBreak(st) = st
    BY <1>1, <1>2, EraseFacts
  <2> QED
    BY <1>2, <2>1 DEF EraseInv
<1>3. CASE BreaksFrom(st) # {}
  <2> DEFINE first == FirstBreak(BreaksFrom(st))
             shorter == SubSeq(st.copy, 1, first) \o SubSeq(st.copy, first + 2, Len(st.copy))
             n == Len(st.copy)
             next == EraseBreak(st)
  <2>1. /\ first \in st.pos .. n - 1
        /\ \A p \in 1 .. first : p > st.pos => st.copy[p] # NL
        /\ next = [copy |-> shorter, pos |-> first]
        /\ shorter \in Seq(Broke) /\ Len(shorter) = n - 1
        /\ \A p \in 1 .. first : shorter[p] = st.copy[p]
        /\ Keep(shorter, Plain) = Keep(st.copy, Plain)
    BY <1>1, <1>3, EraseFacts
  <2>2. next \in EraseStates
    BY <1>1, EraseType
  <2> HIDE DEF first, shorter, n, next
  <2>3. next.copy = shorter /\ next.pos = first
    BY <2>1
  <2>4. /\ st.pos \in Nat /\ n \in Nat /\ Keep(st.copy, Plain) = Keep(text, Plain)
        /\ \A p \in 1 .. n : p <= st.pos => st.copy[p] # NL
        /\ n <= Len(text) - k
    BY <1>1, <1>3 DEF EraseInv, EraseStates, n
  <2>5. ASSUME NEW p \in 1 .. Len(shorter), p <= first PROVE shorter[p] # NL
    <3>1. p \in 1 .. first /\ p \in 1 .. n /\ (p <= st.pos \/ p > st.pos)
      BY <2>1, <2>4, <2>5
    <3> QED
      BY <2>1, <2>4, <3>1
  <2>6. Len(shorter) <= Len(text) - (k + 1)
    BY <1>1, <2>1, <2>4
  <2>7. EraseInv(text, k + 1, next)
    BY <2>1, <2>2, <2>3, <2>4, <2>5, <2>6 DEF EraseInv
  <2> QED
    BY <2>7 DEF next
<1> QED
  BY <1>2, <1>3

LEMMA EraseEnds ==
  ASSUME NEW text \in Seq(Broke)
  PROVE  remove_linebreaks(text) = Keep(text, Plain)
<1> DEFINE n == Len(text)
<1>1. n \in Nat
  OBVIOUS
<1>2. PICK f : /\ f[0] = [copy |-> text, pos |-> 0]
               /\ \A k \in 1 .. n : f[k] = EraseBreak(f[k - 1])
               /\ remove_linebreaks(text) = f[n].copy
  BY EraseRounds
<1> HIDE DEF n
<1> DEFINE A == {k \in Nat : k <= n => EraseInv(text, k, f[k])}
<1>3. 0 \in A
  <2> DEFINE start == [copy |-> text, pos |-> 0]
  <2>1. start.copy = text /\ start.pos = 0 /\ start \in EraseStates
    BY DEF EraseStates
  <2>2. Len(text) <= Len(text) - 0 /\ \A p \in 1 .. Len(text) : ~(p <= 0)
    BY <1>1 DEF n
  <2> HIDE DEF start
  <2>3. EraseInv(text, 0, start)
    BY <2>1, <2>2 DEF EraseInv
  <2> QED
    BY <1>2, <2>3 DEF start
<1>4. ASSUME NEW k \in Nat, k \in A PROVE k + 1 \in A
  <2> SUFFICES ASSUME k + 1 <= n PROVE EraseInv(text, k + 1, f[k + 1])
    OBVIOUS
  <2>1. EraseInv(text, k, f[k]) /\ k + 1 \in 1 .. n /\ (k + 1) - 1 = k
    BY <1>1, <1>4
  <2>2. f[k + 1] = EraseBreak(f[k])
    BY <1>2, <2>1
  <2> HIDE DEF A
  <2> QED
    BY <2>1, <2>2, EraseGoesOn
<1>5. EraseInv(text, n, f[n])
  <2> HIDE DEF A
  <2>1. n \in A
    BY <1>1, <1>3, <1>4, SetInduction
  <2> QED
    BY <1>1, <2>1 DEF A
<1> DEFINE s == f[n].copy
           place == f[n].pos
<1>6. /\ s \in Seq(Broke) /\ place \in Nat /\ Len(s) \in Nat
      /\ \A p \in 1 .. Len(s) : p <= place => s[p] # NL
      /\ Keep(s, Plain) = Keep(text, Plain)
  BY <1>5 DEF EraseInv, EraseStates
<1>7. ASSUME NEW p \in 1 .. Len(s), p > place PROVE s[p] # NL
  <2>1. p - 1 \in place .. Len(s) - 1 /\ (p - 1) + 1 = p
    BY <1>6, <1>7
  <2>2. BreaksFrom(f[n]) = {}
    <3>1. BreaksFrom(f[n]) = {} \/ Len(s) <= Len(text) - n
      BY <1>5 DEF EraseInv
    <3>2. ~(Len(s) <= Len(text) - n)
      BY <1>1, <1>6, <2>1 DEF n
    <3> QED
      BY <3>1, <3>2
  <2> QED
    BY <2>1, <2>2 DEF BreaksFrom
<1> HIDE DEF s, place
<1>8. s \in Seq(Plain)
  <2>1. ASSUME NEW p \in 1 .. Len(s) PROVE s[p] \in Plain
    <3>1. (p <= place \/ p > place) /\ s[p] \in Broke
      BY <1>6
    <3>2. s[p] # NL
      BY <1>6, <1>7, <3>1
    <3> QED
      BY <3>1, <3>2 DEF Plain, Broke
  <2> QED
    BY <1>6, <2>1
<1>9. Keep(s, Plain) = s
  BY <1>8, KeepAll
<1> QED
  BY <1>2, <1>6, <1>9 DEF s

(* Whatever breaks a text has, what is decoded is the text without them,    *)
(* and an encoded text is decoded as what was encoded (insert_linebreaks,   *)
(* remove_linebreaks, decode).                                             *)
THEOREM BreaksHold == CallSpec => []BreaksVanish
<1>1. CallInv => BreaksVanish
  <2> SUFFICES ASSUME CallInv PROVE BreaksVanish
    OBVIOUS
  <2>1. ASSUME Returned("remove_linebreaks") PROVE value = Joined(call.text)
    <3>1. call.text \in Seq(Broke) /\ value = remove_linebreaks(call.text)
      <4>1. call.text \in Seq(Chars) /\ value = remove_linebreaks(call.text)
        BY <2>1, Arguments, CallsAssumption DEF Removes, Returned, CallInv
      <4>2. Chars \subseteq Broke
        BY DEF Broke
      <4> QED
        BY <4>1, <4>2, SeqMonotonic
    <3> QED
      BY <3>1, EraseEnds DEF Joined, Plain
  <2>2. ASSUME Returned("insert_linebreaks") PROVE remove_linebreaks(value) = call.text
    <3>1. call.text \in Seq(Plain) /\ call.distance \in Nat \ {0}
      BY <2>2, Arguments, CallsAssumption DEF Breaks, Returned, Plain
    <3>2. value \in Seq(Broke) /\ Keep(value, Plain) = call.text
      BY <2>2, <3>1, InsertEnds DEF CallInv
    <3> QED
      BY <3>2, EraseEnds
  <2> QED
    BY <2>1, <2>2 DEF BreaksVanish
<1> QED
  BY <1>1, CallInvariant, PTL

-----------------------------------------------------------------------------
(* The dump.  A row is a line as it is printed: the bytes from one place to *)
(* another, and the bytes as characters.                                    *)
Buffers == [0 .. Width -> Int]
Shown(bytes) == [k \in DOMAIN bytes |-> Printable(bytes[k])]
Row(data, from, to) == <<SubSeq(data, from + 1, to), Shown(SubSeq(data, from + 1, to))>>
DumpStates == [out : Seq(Seq(Byte) \X Seq(Int)), line : Seq(Byte), buff : Buffers]

LEMMA PrintableFacts ==
  ASSUME NEW c \in Byte
  PROVE  Printable(c) \in Int /\ Printable(c) # StringEnd
BY DEF Byte, Printable, Dot, StringEnd

LEMMA PrintedFacts ==
  ASSUME NEW buff \in Buffers
  PROVE  /\ Printed(buff) \in Seq(Int)
         /\ \A j \in 0 .. Width :
              buff[j] = StringEnd /\ (\A i \in 0 .. j - 1 : buff[i] # StringEnd) =>
                Printed(buff) = [k \in 1 .. j |-> buff[k - 1]]
<1> DEFINE ends == {k \in 0 .. Width : buff[k] = StringEnd} \cup {Width + 1}
           end == CHOOSE k \in ends : \A other \in ends : k <= other
<1>1. Width \in Nat
  BY CallsAssumption
<1>2. end \in ends /\ \A other \in ends : end <= other
  <2>1. ends \subseteq Nat /\ ends # {}
    BY <1>1
  <2> HIDE DEF ends
  <2> QED
    BY <2>1, LeastExists
<1>3. Printed(buff) = [k \in 1 .. end |-> buff[k - 1]]
  BY DEF Printed
<1> HIDE DEF end
<1>4. end \in Nat /\ end <= Width + 1
  BY <1>1, <1>2
<1>5. Printed(buff) \in Seq(Int)
  <2>1. ASSUME NEW k \in 1 .. end PROVE buff[k - 1] \in Int
    <3>1. k - 1 \in 0 .. Width
      BY <1>1, <1>4
    <3> QED
      BY <3>1 DEF Buffers
  <2> QED
    BY <1>3, <1>4, <2>1
<1>6. ASSUME NEW j \in 0 .. Width, buff[j] = StringEnd, \A i \in 0 .. j - 1 : buff[i] # StringEnd
      PROVE  end = j
  <2>1. end <= j
    BY <1>2, <1>6
  <2>2. ~(end < j)
    <3> SUFFICES ASSUME end < j PROVE FALSE
      OBVIOUS
    <3>1. end \in 0 .. j - 1 /\ end # Width + 1
      BY <1>1, <1>4
    <3> QED
      BY <1>2, <1>6, <3>1
  <2> QED
    BY <1>1, <1>4, <2>1, <2>2
<1> QED
  BY <1>3, <1>5, <1>6

LEMMA BufferedFacts ==
  ASSUME NEW buff \in Buffers, NEW i \in Nat, NEW c \in Byte
  PROVE  LET at == i % Width
             later == Buffered(buff, i, c)
         IN  /\ at \in 0 .. Width - 1 /\ later \in Buffers
             /\ later[at] = Printable(c) /\ later[at + 1] = StringEnd
             /\ \A j \in 0 .. Width : j # at /\ j # at + 1 => later[j] = buff[j]
<1> DEFINE at == i % Width
<1>1. Width \in Nat \ {0}
  BY CallsAssumption
<1>2. at \in 0 .. Width - 1
  BY <1>1, Division
<1>3. Buffered(buff, i, c) = [buff EXCEPT ![at] = Printable(c), ![at + 1] = StringEnd]
  BY DEF Buffered
<1> HIDE DEF at
<1>4. at \in 0 .. Width /\ at + 1 \in 0 .. Width /\ at # at + 1 /\ StringEnd \in Int
  BY <1>1, <1>2 DEF StringEnd
<1>5. Printable(c) \in Int
  BY PrintableFacts
<1> QED
  BY <1>2, <1>3, <1>4, <1>5 DEF Buffers, at

LEMMA AddByteType ==
  ASSUME NEW st \in DumpStates, NEW i \in Nat, NEW c \in Byte
  PROVE  AddByte(st, i, c) \in DumpStates
<1>1. st.out \in Seq(Seq(Byte) \X Seq(Int)) /\ st.line \in Seq(Byte) /\ st.buff \in Buffers
  BY DEF DumpStates
<1>2. Printed(st.buff) \in Seq(Int) /\ Buffered(st.buff, i, c) \in Buffers
  BY <1>1, PrintedFacts, BufferedFacts
<1>3. Append(st.out, <<st.line, Printed(st.buff)>>) \in Seq(Seq(Byte) \X Seq(Int))
  BY <1>1, <1>2
<1>4. <<c>> \in Seq(Byte) /\ Append(st.line, c) \in Seq(Byte)
  BY <1>1
<1> QED
  BY <1>1, <1>2, <1>3, <1>4 DEF AddByte, DumpStates

(* The last state of the loop over the bytes of a payload. *)
LEMMA DumpRounds ==
  ASSUME NEW data \in Seq(Byte), NEW buff \in Buffers
  PROVE  \E f : /\ f[0] = [out |-> <<>>, line |-> <<>>, buff |-> buff]
                /\ \A k \in 1 .. Len(data) : f[k] = AddByte(f[k - 1], k - 1, data[k])
                /\ hexDump(data, buff) =
                     IF data = <<>> THEN <<>>
                     ELSE Append(f[Len(data)].out, <<Pad(f[Len(data)].line), Printed(f[Len(data)].buff)>>)
<1> DEFINE n == Len(data)
           start == [out |-> <<>>, line |-> <<>>, buff |-> buff]
           Value(f, k) == IF k = 0 THEN start ELSE AddByte(f[k - 1], k - 1, data[k])
           body == [k \in 1 .. n |-> [st \in DumpStates |-> AddByte(st, k - 1, data[k])]]
<1>1. n \in Nat /\ start \in DumpStates
  <2>1. <<>> \in Seq(Seq(Byte) \X Seq(Int)) /\ <<>> \in Seq(Byte)
    OBVIOUS
  <2> QED
    BY <2>1 DEF DumpStates
<1>2. body \in [1 .. n -> [DumpStates -> DumpStates]]
  <2>1. ASSUME NEW k \in 1 .. n, NEW st \in DumpStates PROVE AddByte(st, k - 1, data[k]) \in DumpStates
    <3>1. k - 1 \in Nat /\ data[k] \in Byte
      BY <1>1
    <3> QED
      BY <3>1, AddByteType
  <2> QED
    BY <2>1
<1>3. PICK g \in [0 .. n -> DumpStates] : Rounds(g, start, body, n)
  <2> HIDE DEF body, n, start
  <2> QED
    BY <1>1, <1>2, LoopExists
<1>4. g = [k \in 0 .. n |-> Value(g, k)]
  <2>1. ASSUME NEW k \in 0 .. n PROVE g[k] = Value(g, k)
    <3>1. g[0] = start
      BY <1>3 DEF Rounds
    <3>2. ASSUME k # 0 PROVE g[k] = AddByte(g[k - 1], k - 1, data[k])
      <4>1. k \in 1 .. n /\ k - 1 \in 0 .. n
        BY <1>1, <2>1, <3>2
      <4>2. g[k] = body[k][g[k - 1]] /\ g[k - 1] \in DumpStates
        BY <1>3, <4>1 DEF Rounds
      <4> QED
        BY <4>1, <4>2
    <3> QED
      BY <3>1, <3>2
  <2> QED
    BY <2>1
<1> DEFINE h == CHOOSE f : f = [k \in 0 .. n |-> Value(f, k)]
<1>5. h = [k \in 0 .. n |-> Value(h, k)]
  BY <1>4
<1>6. hexDump(data, buff) =
        IF data = <<>> THEN <<>> ELSE Append(h[n].out, <<Pad(h[n].line), Printed(h[n].buff)>>)
  BY DEF hexDump
<1> HIDE DEF h, start
<1>7. h[0] = start /\ \A k \in 1 .. n : h[k] = AddByte(h[k - 1], k - 1, data[k])
  BY <1>1, <1>5
<1> QED
  BY <1>6, <1>7 DEF start

(* What hexDump's loop keeps true once it has read k bytes: the first a are *)
(* printed in full rows, the others are in the line, and as characters in   *)
(* the buffer, behind which comes the end of the string.                    *)
Filled(data, k, a, st) ==
  /\ a \in Nat /\ a = Width * Len(st.out) /\ a < k /\ k <= a + Width
  /\ \A l \in 1 .. Len(st.out) : st.out[l] = Row(data, Width * (l - 1), Width * l)
  /\ st.line = SubSeq(data, a + 1, k)
  /\ \A j \in 1 .. k - a : st.buff[j - 1] = Printable(data[a + j])
  /\ st.buff[k - a] = StringEnd

DumpInv(data, k, st) ==
  /\ st \in DumpStates
  /\ IF k = 0 THEN st.out = <<>> /\ st.line = <<>> ELSE Filled(data, k, Width * Len(st.out), st)

(* The characters that are printed are those of the line. *)
LEMMA FilledPrints ==
  ASSUME NEW data \in Seq(Byte), NEW k \in Nat, k <= Len(data), NEW a, NEW st \in DumpStates,
         Filled(data, k, a, st)
  PROVE  /\ <<st.line, Printed(st.buff)>> = Row(data, a, k)
         /\ st.line \in Seq(Byte) /\ Len(st.line) = k - a
<1> DEFINE n == k - a
           line == SubSeq(data, a + 1, k)
<1>1. /\ a \in Nat /\ n \in 1 .. Width /\ Width \in Nat /\ a <= k
      /\ \A j \in 1 .. n : st.buff[j - 1] = Printable(data[a + j])
      /\ st.buff[n] = StringEnd /\ st.line = line /\ st.buff \in Buffers
  BY CallsAssumption DEF Filled, DumpStates
<1>2. /\ line \in Seq(Byte) /\ Len(line) = n
      /\ \A j \in 1 .. n : line[j] = data[a + j]
  BY <1>1, SubSeqFacts
<1> HIDE DEF n, line
<1>3. \A j \in 1 .. n : line[j] \in Byte /\ st.buff[j - 1] = Printable(line[j])
  <2>1. DOMAIN line = 1 .. n /\ \A j \in 1 .. n : st.buff[j - 1] = Printable(data[a + j])
    BY <1>1, <1>2
  <2> QED
    BY <1>2, <2>1
<1>4. ASSUME NEW i \in 0 .. n - 1 PROVE st.buff[i] # StringEnd
  <2>1. i + 1 \in 1 .. n /\ (i + 1) - 1 = i
    BY <1>1
  <2>2. line[i + 1] \in Byte /\ st.buff[i] = Printable(line[i + 1])
    BY <1>3, <2>1
  <2> QED
    BY <2>2, PrintableFacts
<1>5. Printed(st.buff) = [j \in 1 .. n |-> st.buff[j - 1]]
  <2>1. n \in 0 .. Width
    BY <1>1
  <2> QED
    BY <1>1, <1>4, <2>1, PrintedFacts
<1>6. DOMAIN line = 1 .. n
  BY <1>2
<1>7. Shown(line) = [j \in 1 .. n |-> st.buff[j - 1]]
  BY <1>3, <1>6 DEF Shown
<1>8. Row(data, a, k) = <<line, Shown(line)>>
  BY DEF Row, line
<1> QED
  BY <1>1, <1>2, <1>5, <1>7, <1>8 DEF n

LEMMA SubSeqLonger ==
  ASSUME NEW data \in Seq(Byte), NEW a \in Nat, NEW k \in Nat, a <= k, k < Len(data)
  PROVE  SubSeq(data, a + 1, k + 1) = Append(SubSeq(data, a + 1, k), data[k + 1])
<1> DEFINE shorter == SubSeq(data, a + 1, k)
           longer == SubSeq(data, a + 1, k + 1)
           e == data[k + 1]
<1>1. /\ shorter \in Seq(Byte) /\ Len(shorter) = k - a
      /\ \A p \in 1 .. k - a : shorter[p] = data[a + p]
  <2>1. k <= Len(data)
    OBVIOUS
  <2> QED
    BY <2>1, SubSeqFacts
<1>2. /\ longer \in Seq(Byte) /\ Len(longer) = (k - a) + 1
      /\ \A p \in 1 .. (k - a) + 1 : longer[p] = data[a + p]
  <2> DEFINE c == k + 1
  <2>1. c \in Nat /\ a <= c /\ c <= Len(data) /\ c - a = (k - a) + 1
    OBVIOUS
  <2> HIDE DEF c
  <2>2. /\ SubSeq(data, a + 1, c) \in Seq(Byte) /\ Len(SubSeq(data, a + 1, c)) = c - a
        /\ \A p \in 1 .. c - a : SubSeq(data, a + 1, c)[p] = data[a + p]
    BY <2>1, SubSeqFacts
  <2> QED
    BY <2>1, <2>2 DEF c
<1>3. e \in Byte /\ (k - a) \in Nat /\ a + ((k - a) + 1) = k + 1
  OBVIOUS
<1> HIDE DEF shorter, longer
<1> DEFINE n == k - a
<1> HIDE DEF n
<1>4. longer[n + 1] = e
  BY <1>2, <1>3 DEF n
<1>5. \A p \in 1 .. n : longer[p] = shorter[p]
  <2>1. \A p \in 1 .. n : p \in 1 .. n + 1
    BY <1>3 DEF n
  <2> QED
    BY <1>1, <1>2, <2>1 DEF n
<1>6. n \in Nat /\ Len(shorter) = n /\ Len(longer) = n + 1
  BY <1>1, <1>2, <1>3 DEF n
<1> HIDE DEF e
<1>7. longer = Append(shorter, e)
  <2>1. Append(shorter, e) \in Seq(Byte) /\ Len(Append(shorter, e)) = n + 1
    BY <1>1, <1>3, <1>6
  <2>2. ASSUME NEW p \in 1 .. n + 1 PROVE longer[p] = Append(shorter, e)[p]
    BY <1>1, <1>3, <1>4, <1>5, <1>6
  <2> QED
    BY <1>2, <1>6, <2>1, <2>2, SeqEqual
<1> QED
  BY <1>7 DEF shorter, longer, e

LEMMA DumpGoesOn ==
  ASSUME NEW data \in Seq(Byte), NEW k \in Nat, k < Len(data), NEW st, DumpInv(data, k, st)
  PROVE  DumpInv(data, k + 1, AddByte(st, k, data[k + 1]))
<1> DEFINE c == data[k + 1]
           next == AddByte(st, k, c)
           a == Width * Len(st.out)
           b == Width * Len(next.out)
           at == k % Width
<1>1. /\ Width \in Nat \ {0} /\ c \in Byte /\ st \in DumpStates
      /\ st.buff \in Buffers /\ st.line \in Seq(Byte) /\ st.out \in Seq(Seq(Byte) \X Seq(Int))
      /\ Len(st.out) \in Nat
  <2>1. Width \in Nat \ {0}
    BY CallsAssumption
  <2>2. c \in Byte
    OBVIOUS
  <2> QED
    BY <2>1, <2>2 DEF DumpInv, DumpStates
<1>2. next \in DumpStates
  BY <1>1, AddByteType
<1>3. /\ next.buff \in Buffers /\ at \in 0 .. Width - 1
      /\ next.buff[at] = Printable(c) /\ next.buff[at + 1] = StringEnd
      /\ \A j \in 0 .. Width : j # at /\ j # at + 1 => next.buff[j] = st.buff[j]
  <2>1. next.buff = Buffered(st.buff, k, c)
    BY DEF AddByte
  <2> HIDE DEF next, c
  <2> DEFINE later == Buffered(st.buff, k, c)
  <2>2. /\ later \in Buffers /\ at \in 0 .. Width - 1
        /\ later[at] = Printable(c) /\ later[at + 1] = StringEnd
        /\ \A j \in 0 .. Width : j # at /\ j # at + 1 => later[j] = st.buff[j]
    BY <1>1, BufferedFacts, Zenon
  <2> HIDE DEF later, at
  <2>3. next.buff = later
    BY <2>1 DEF later
  <2> QED
    BY <2>2, <2>3
<1>4. /\ at = 0 /\ k # 0 => /\ next.out = Append(st.out, <<st.line, Printed(st.buff)>>)
                             /\ next.line = <<c>>
      /\ ~(at = 0 /\ k # 0) => next.out = st.out /\ next.line = Append(st.line, c)
  BY DEF AddByte
<1> HIDE DEF next, at
<1>5. SubSeq(data, k + 1, k + 1) = <<c>>
  BY SubSeqOne
<1>6. ASSUME k = 0 PROVE DumpInv(data, k + 1, next)
  <2>1. at = 0
    <3>1. 0 = Width * 0 + 0 /\ 0 \in 0 .. Width - 1
      BY <1>1
    <3> QED
      BY <1>1, <1>6, <3>1, DivisionUnique DEF at
  <2>2. next.out = <<>> /\ next.line = <<c>>
    <3>1. st.out = <<>> /\ st.line = <<>>
      BY <1>6 DEF DumpInv
    <3> HIDE DEF c
    <3> QED
      BY <1>4, <1>6, <3>1
  <2>3. b = 0 /\ Len(next.out) = 0
    BY <1>1, <2>2
  <2>4. Filled(data, k + 1, 0, next)
    <3>1. /\ 0 \in Nat /\ 0 = Width * Len(next.out) /\ 0 < k + 1 /\ k + 1 <= 0 + Width
          /\ (k + 1) - 0 = 1 /\ 0 + 1 = k + 1 /\ at + 1 = 1
      BY <1>1, <1>6, <2>1, <2>3
    <3>2. next.line = SubSeq(data, 0 + 1, k + 1)
      BY <1>5, <1>6, <2>2
    <3>3. next.buff[1] = StringEnd /\ next.buff[0] = Printable(data[0 + 1])
      BY <1>3, <1>6, <2>1
    <3> HIDE DEF b, c
    <3>4. \A j \in 1 .. (k + 1) - 0 : j = 1 /\ j - 1 = 0
      BY <3>1
    <3>5. \A j \in 1 .. (k + 1) - 0 : next.buff[j - 1] = Printable(data[0 + j])
      BY <3>3, <3>4
    <3>6. \A l \in 1 .. Len(next.out) : FALSE
      BY <2>3
    <3> QED
      BY <3>1, <3>2, <3>3, <3>5, <3>6 DEF Filled
  <2> QED
    <3>1. b = 0 /\ k + 1 # 0
      BY <2>3
    <3> HIDE DEF b
    <3> QED
      BY <1>2, <2>4, <3>1 DEF DumpInv, b
<1>7. ASSUME k # 0 PROVE DumpInv(data, k + 1, next)
  <2> DEFINE q == Len(st.out)
  <2>1. Filled(data, k, a, st) /\ q \in Nat
    BY <1>1, <1>7 DEF DumpInv
  <2>2. /\ a \in Nat /\ a = Width * q /\ a < k /\ k <= a + Width
        /\ \A l \in 1 .. q : st.out[l] = Row(data, Width * (l - 1), Width * l)
        /\ st.line = SubSeq(data, a + 1, k)
        /\ \A j \in 1 .. k - a : st.buff[j - 1] = Printable(data[a + j])
        /\ st.buff[k - a] = StringEnd
    BY <2>1 DEF Filled
  <2> HIDE DEF a
  <2>5. a \in Nat /\ k \in Nat /\ Width \in Nat /\ a < k /\ k <= a + Width
    BY <1>1, <2>2
  <2>3. CASE k = a + Width
    <3>1. at = 0
      <4>1. Width * (q + 1) = a + Width
        BY <1>1, <2>1, <2>2, Distributes
      <4> DEFINE p == q + 1
      <4>2. p \in Int /\ k = Width * p + 0 /\ 0 \in 0 .. Width - 1
        BY <1>1, <2>1, <2>3, <4>1
      <4> HIDE DEF p, a, q
      <4>3. k \in Int /\ Width \in Nat \ {0}
        BY <1>1
      <4>4. k % Width = 0
        BY <4>2, <4>3, DivisionUnique, Zenon
      <4> QED
        BY <4>4 DEF at
    <3>2. next.out = Append(st.out, Row(data, a, k)) /\ next.line = <<c>>
      <4>1. <<st.line, Printed(st.buff)>> = Row(data, a, k)
        <5>1. k <= Len(data)
          OBVIOUS
        <5> QED
          BY <1>1, <2>1, <5>1, FilledPrints
      <4> QED
        BY <1>4, <1>7, <3>1, <4>1
    <3>3. /\ Len(next.out) = q + 1 /\ b = k
          /\ next.out[q + 1] = Row(data, a, k) /\ \A l \in 1 .. q : next.out[l] = st.out[l]
      <4>1. /\ Len(next.out) = q + 1 /\ next.out[q + 1] = Row(data, a, k)
            /\ \A l \in 1 .. q : next.out[l] = st.out[l]
        BY <1>1, <3>2
      <4>2. Width * (q + 1) = a + Width
        BY <1>1, <2>1, <2>2, Distributes
      <4> QED
        BY <2>3, <4>1, <4>2
    <3> HIDE DEF c, b, q
    <3>4. ASSUME NEW l \in 1 .. q + 1 PROVE next.out[l] = Row(data, Width * (l - 1), Width * l)
      <4>1. CASE l \in 1 .. q
        BY <2>2, <3>3, <4>1
      <4>2. CASE l = q + 1
        <5>1. l - 1 = q /\ Width * (l - 1) = a /\ Width * l = k
          <6>1. l - 1 = q
            BY <2>1, <4>2
          <6>2. Width * (q + 1) = a + Width
            BY <1>1, <2>1, <2>2, Distributes
          <6> QED
            BY <2>2, <2>3, <4>2, <6>1, <6>2
        <5> QED
          BY <3>3, <4>2, <5>1
      <4> QED
        BY <2>1, <4>1, <4>2
    <3>5. Filled(data, k + 1, k, next)
      <4>1. k < k + 1 /\ k + 1 <= k + Width /\ (k + 1) - k = 1
        BY <1>1
      <4>2. \A j \in 1 .. 1 : j = 1 /\ j - 1 = 0
        OBVIOUS
      <4>3. next.buff[0] = Printable(data[k + 1]) /\ next.buff[1] = StringEnd
        BY <1>3, <3>1 DEF c
      <4>4. \A j \in 1 .. (k + 1) - k : next.buff[j - 1] = Printable(data[k + j])
        BY <4>1, <4>2, <4>3
      <4>5. next.line = SubSeq(data, k + 1, k + 1)
        BY <1>5, <3>2
      <4>6. k = Width * Len(next.out)
        BY <3>3 DEF b
      <4>7. \A l \in 1 .. Len(next.out) : next.out[l] = Row(data, Width * (l - 1), Width * l)
        BY <3>3, <3>4
      <4>8. next.buff[(k + 1) - k] = StringEnd
        BY <4>1, <4>3
      <4> QED
        BY <4>1, <4>4, <4>5, <4>6, <4>7, <4>8 DEF Filled
    <3>6. b = k /\ k + 1 # 0
      BY <3>3
    <3> QED
      BY <1>2, <3>5, <3>6 DEF DumpInv, b
  <2>4. CASE k < a + Width
    <3>1. at = k - a /\ at # 0
      <4> DEFINE r == k - a
      <4>1. r \in 0 .. Width - 1 /\ r # 0 /\ k = a + r
        BY <1>1, <2>2, <2>4
      <4> HIDE DEF r
      <4>2. k = Width * q + r
        BY <2>2, <4>1
      <4> HIDE DEF q
      <4>3. k % Width = r
        <5>1. k \in Int /\ Width \in Nat \ {0} /\ q \in Int
          BY <1>1, <2>1
        <5> QED
          BY <4>1, <4>2, <5>1, DivisionUnique, Zenon
      <4>4. at = r
        BY <4>3 DEF at
      <4> QED
        BY <4>1, <4>4 DEF r
    <3>2. next.out = st.out /\ next.line = Append(st.line, c)
      BY <1>4, <3>1
    <3>3. next.line = SubSeq(data, a + 1, k + 1)
      <4>1. a \in Nat /\ a <= k
        BY <2>2
      <4>2. SubSeq(data, a + 1, k + 1) = Append(SubSeq(data, a + 1, k), data[k + 1])
        BY <4>1, SubSeqLonger
      <4> QED
        BY <2>2, <3>2, <4>2
    <3> HIDE DEF c, q, b
    <3>4. ASSUME NEW j \in 1 .. (k + 1) - a PROVE next.buff[j - 1] = Printable(data[a + j])
      <4>1. CASE j = (k + 1) - a
        <5>1. j - 1 = k - a /\ a + j = k + 1
          BY <2>5, <4>1
        <5> QED
          BY <1>3, <3>1, <5>1 DEF c
      <4>2. CASE j # (k + 1) - a
        <5>1. j \in 1 .. k - a /\ j - 1 \in 0 .. Width /\ j - 1 # at /\ j - 1 # at + 1
          BY <2>5, <3>1, <4>2
        <5> QED
          BY <1>3, <2>2, <5>1
      <4> QED
        BY <4>1, <4>2
    <3>5. /\ (k + 1) - a = at + 1 /\ a < k + 1 /\ k + 1 <= a + Width
      BY <1>1, <2>2, <2>4, <3>1
    <3>6. Filled(data, k + 1, a, next)
      <4>1. a = Width * Len(next.out)
        BY <2>2, <3>2 DEF q
      <4>2. \A l \in 1 .. Len(next.out) : next.out[l] = Row(data, Width * (l - 1), Width * l)
        BY <2>2, <3>2 DEF q
      <4>3. next.buff[(k + 1) - a] = StringEnd
        BY <1>3, <3>5
      <4> QED
        BY <2>2, <3>3, <3>4, <3>5, <4>1, <4>2, <4>3 DEF Filled
    <3>7. b = a /\ k + 1 # 0
      <4>1. b = a
        BY <3>2 DEF a, b, q
      <4> QED
        BY <2>5, <4>1
    <3> QED
      BY <1>2, <3>6, <3>7 DEF DumpInv, b
  <2> QED
    <3>1. k = a + Width \/ k < a + Width
      BY <2>5
    <3> QED
      BY <2>3, <2>4, <3>1
<1>8. DumpInv(data, k + 1, next)
  BY <1>6, <1>7
<1> QED
  BY <1>8 DEF next, c

LEMMA Multiples ==
  ASSUME NEW m \in Nat, NEW l \in Nat, NEW q \in Nat, l <= q
  PROVE  m * l \in Nat /\ m * q \in Nat /\ m * l <= m * q
OBVIOUS

(* The line number l of a payload, as it should be printed. *)
LineOf(data, l) ==
  LET last == IF Width * l < Len(data) THEN Width * l ELSE Len(data)
      bytes == SubSeq(data, (Width * (l - 1)) + 1, last)
  IN  <<bytes \o [k \in 1 .. Width - Len(bytes) |-> Blank],
        [k \in DOMAIN bytes |-> Printable(bytes[k])]>>

(* A row of Width bytes needs no blank, and is a line. *)
LEMMA FullRow ==
  ASSUME NEW data \in Seq(Byte), NEW l \in Nat \ {0}, Width * l < Len(data)
  PROVE  Row(data, Width * (l - 1), Width * l) = LineOf(data, l)
<1> DEFINE from == Width * (l - 1)
           to == Width * l
           bytes == SubSeq(data, from + 1, to)
<1>1. Width \in Nat \ {0}
  BY CallsAssumption
<1>2. from \in Nat /\ to = from + Width /\ to < Len(data)
  <2> DEFINE before == l - 1
  <2>1. before \in Nat /\ before + 1 = l
    OBVIOUS
  <2> HIDE DEF before
  <2>2. Width * before \in Nat /\ Width * (before + 1) = Width * before + Width
    BY <1>1, <2>1, Distributes, Multiples
  <2> QED
    BY <2>1, <2>2 DEF before
<1>3. bytes \in Seq(Byte) /\ Len(bytes) = Width
  <2> HIDE DEF from, to
  <2>1. to \in Nat /\ from <= to /\ to <= Len(data) /\ to - from = Width
    BY <1>1, <1>2
  <2> QED
    BY <1>2, <2>1, SubSeqFacts
<1>4. LineOf(data, l) = <<bytes \o [k \in 1 .. Width - Len(bytes) |-> Blank], Shown(bytes)>>
  BY <1>2 DEF LineOf, Shown
<1>5. Row(data, from, to) = <<bytes, Shown(bytes)>>
  BY DEF Row
<1> HIDE DEF bytes
<1>6. bytes \o [k \in 1 .. Width - Len(bytes) |-> Blank] = bytes
  <2>1. [k \in 1 .. Width - Len(bytes) |-> Blank] = <<>>
    <3>1. Width - Len(bytes) = 0
      BY <1>1, <1>3
    <3> QED
      BY <3>1
  <2> QED
    BY <1>3, <2>1, ConcatEmptySeq
<1> QED
  BY <1>4, <1>5, <1>6

(* What follows the full rows is the last line. *)
LEMMA LastRow ==
  ASSUME NEW data \in Seq(Byte), NEW l \in Nat, NEW st \in DumpStates,
         Filled(data, Len(data), Width * l, st)
  PROVE  <<Pad(st.line), Printed(st.buff)>> = LineOf(data, l + 1)
<1> DEFINE a == Width * l
           n == Len(data)
<1>1. Width \in Nat \ {0} /\ a \in Nat /\ n \in Nat /\ a < n /\ n <= a + Width
  BY CallsAssumption DEF Filled
<1>2. <<st.line, Printed(st.buff)>> = Row(data, a, n)
  <2> HIDE DEF a
  <2> QED
    BY <1>1, FilledPrints DEF a
<1>3. st.line = SubSeq(data, a + 1, n) /\ Printed(st.buff) = Shown(SubSeq(data, a + 1, n))
  BY <1>2 DEF Row
<1>4. Width * (l + 1) = a + Width /\ (l + 1) - 1 = l
  BY <1>1, Distributes
<1> HIDE DEF a, n
<1>5. (IF Width * (l + 1) < n THEN Width * (l + 1) ELSE n) = n
  BY <1>1, <1>4
<1>6. LineOf(data, l + 1) = <<Pad(SubSeq(data, a + 1, n)), Shown(SubSeq(data, a + 1, n))>>
  BY <1>4, <1>5 DEF LineOf, Pad, Shown, a, n
<1> QED
  BY <1>3, <1>6

LEMMA DumpEnds ==
  ASSUME NEW data \in Seq(Byte), NEW buff \in Buffers
  PROVE  /\ Len(hexDump(data, buff)) = (Len(data) + Width - 1) \div Width
         /\ \A l \in DOMAIN hexDump(data, buff) : hexDump(data, buff)[l] = LineOf(data, l)
<1> DEFINE n == Len(data)
           v == hexDump(data, buff)
<1>1. Width \in Nat \ {0} /\ n \in Nat
  BY CallsAssumption
<1>2. PICK f : /\ f[0] = [out |-> <<>>, line |-> <<>>, buff |-> buff]
               /\ \A k \in 1 .. n : f[k] = AddByte(f[k - 1], k - 1, data[k])
               /\ v = IF data = <<>> THEN <<>>
                      ELSE Append(f[n].out, <<Pad(f[n].line), Printed(f[n].buff)>>)
  BY DumpRounds
<1> HIDE DEF v
<1>3. DumpInv(data, n, f[n])
  <2> DEFINE A == {k \in Nat : k <= n => DumpInv(data, k, f[k])}
  <2>1. 0 \in A
    <3>1. <<>> \in Seq(Seq(Byte) \X Seq(Int)) /\ <<>> \in Seq(Byte)
      OBVIOUS
    <3>2. f[0] \in DumpStates
      BY <1>2, <3>1 DEF DumpStates
    <3>3. DumpInv(data, 0, f[0])
      <4>1. f[0].out = <<>> /\ f[0].line = <<>>
        BY <1>2
      <4> QED
        BY <3>2, <4>1 DEF DumpInv
    <3> QED
      BY <3>3
  <2>2. ASSUME NEW k \in Nat, k \in A PROVE k + 1 \in A
    <3> SUFFICES ASSUME k + 1 <= n PROVE DumpInv(data, k + 1, f[k + 1])
      OBVIOUS
    <3>1. k < n /\ k + 1 \in 1 .. n /\ (k + 1) - 1 = k
      BY <1>1
    <3>2. f[k + 1] = AddByte(f[k], k, data[k + 1])
      BY <1>2, <3>1
    <3>3. DumpInv(data, k, f[k])
      BY <2>2, <3>1
    <3> QED
      BY <3>1, <3>2, <3>3, DumpGoesOn
  <2> HIDE DEF A
  <2>3. \A k \in Nat : k \in A
    BY <2>1, <2>2, SetInduction
  <2> QED
    BY <1>1, <2>3 DEF A
<1>4. ASSUME data = <<>> PROVE v = <<>> /\ (n + Width - 1) \div Width = 0
  <2>1. n = 0
    BY <1>4
  <2> HIDE DEF n
  <2>2. n + Width - 1 = Width * 0 + (Width - 1) /\ Width - 1 \in 0 .. Width - 1 /\ n + Width - 1 \in Int
    BY <1>1, <2>1
  <2> QED
    BY <1>1, <1>2, <1>4, <2>2, DivisionUnique
<1>5. ASSUME data # <<>>
      PROVE  /\ Len(v) = (n + Width - 1) \div Width
             /\ \A l \in DOMAIN v : v[l] = LineOf(data, l)
  <2> DEFINE st == f[n]
             q == Len(st.out)
             a == Width * q
             end == <<Pad(st.line), Printed(st.buff)>>
  <2>1. n # 0
    BY <1>5, EmptySeq
  <2>2. st \in DumpStates /\ Filled(data, n, a, st)
    BY <1>3, <2>1 DEF DumpInv
  <2>3. v = Append(st.out, end)
    BY <1>2, <1>5
  <2> HIDE DEF st
  <2>4. st.out \in Seq(Seq(Byte) \X Seq(Int)) /\ q \in Nat
    BY <2>2 DEF DumpStates
  <2>5. /\ a \in Nat /\ a < n /\ n <= a + Width
        /\ \A l \in 1 .. q : st.out[l] = Row(data, Width * (l - 1), Width * l)
    BY <2>2 DEF Filled
  <2>6. end = LineOf(data, q + 1)
    <3> HIDE DEF q, end
    <3> QED
      BY <2>2, <2>4, LastRow DEF end
  <2>7. (n + Width - 1) \div Width = q + 1
    <3> DEFINE rest == (n - 1) - a
               sum == n + Width - 1
    <3>1. Width * (q + 1) = a + Width /\ q + 1 \in Int
      BY <1>1, <2>4, Distributes
    <3> HIDE DEF a, q, n
    <3>2. rest \in 0 .. Width - 1 /\ sum = (a + Width) + rest /\ sum \in Int
      BY <1>1, <2>5
    <3> HIDE DEF rest, sum
    <3>3. sum = Width * (q + 1) + rest
      BY <3>1, <3>2
    <3>4. sum \div Width = q + 1
      BY <1>1, <3>1, <3>2, <3>3, DivisionUnique, Zenon
    <3> QED
      BY <3>4 DEF sum
  <2> HIDE DEF end
  <2>8. /\ Len(v) = q + 1 /\ v[q + 1] = end /\ DOMAIN v = 1 .. q + 1
        /\ \A l \in 1 .. q : v[l] = st.out[l]
    <3>1. Len(v) = q + 1 /\ DOMAIN v = 1 .. q + 1
      BY <2>3, <2>4
    <3>2. v[q + 1] = end
      BY <2>3, <2>4
    <3>3. \A l \in 1 .. q : v[l] = st.out[l]
      BY <2>3, <2>4
    <3> QED
      BY <3>1, <3>2, <3>3
  <2> HIDE DEF q
  <2>9. ASSUME NEW l \in 1 .. q PROVE v[l] = LineOf(data, l)
    <3>1. l \in Nat \ {0} /\ l <= q
      BY <2>4
    <3>2. Width * l < n
      <4>1. Width * l \in Nat /\ Width * l <= a
        BY <1>1, <2>4, <3>1, Multiples
      <4> DEFINE b == Width * l
      <4> HIDE DEF a, b, n
      <4>2. b \in Nat /\ b <= a
        BY <4>1 DEF b
      <4>3. b < n
        BY <1>1, <2>5, <4>2
      <4> QED
        BY <4>3 DEF b
    <3> QED
      BY <2>5, <2>8, <3>1, <3>2, FullRow
  <2>10. \A l \in 1 .. q + 1 : l \in 1 .. q \/ l = q + 1
    BY <2>4
  <2> QED
    BY <2>6, <2>7, <2>8, <2>9, <2>10
<1>6. /\ Len(v) = (n + Width - 1) \div Width
      /\ \A l \in DOMAIN v : v[l] = LineOf(data, l)
  <2>1. ASSUME data = <<>> PROVE Len(v) = 0 /\ DOMAIN v = {}
    BY <1>4, <2>1
  <2> QED
    BY <1>4, <1>5, <2>1
<1> QED
  BY <1>6 DEF v

(* Whatever is printed for the log, the lines show each byte once, in hex   *)
(* and as a character, in its place, and nothing else (hexDump).            *)
THEOREM BytesShown == CallSpec => []LinesShowPayload
<1>1. CallInv => LinesShowPayload
  <2> SUFFICES ASSUME CallInv, Returned("hexDump") PROVE LinesShowPayload
    BY DEF LinesShowPayload
  <2> DEFINE data == call.bytes
             buff == [k \in 0 .. Width |-> call.stack]
  <2>1. data \in Seq(Byte) /\ call.stack \in Int /\ value = hexDump(data, buff)
    BY Arguments, CallsAssumption DEF Dumps, Returned, CallInv, Byte, StringEnd
  <2>2. buff \in Buffers
    BY <2>1 DEF Buffers
  <2> HIDE DEF data, buff
  <2>3. /\ Len(value) = (Len(data) + Width - 1) \div Width
        /\ \A l \in DOMAIN value : value[l] = LineOf(data, l)
    BY <2>1, <2>2, DumpEnds
  <2> QED
    BY <2>3 DEF LinesShowPayload, LineOf, data
<1> QED
  BY <1>1, CallInvariant, PTL
=============================================================================

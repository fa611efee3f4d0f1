--------------------------- MODULE SequenceLemmas ---------------------------
(***************************************************************************)
(* Induction over numbers and sequences, which rests on the order of the   *)
(* natural numbers being well-founded; the states of a loop, one after the *)
(* other, as a recursive function; and what Keep returns.                  *)
(***************************************************************************)
EXTENDS Integers, Sequences, Filter, SequenceTheorems, WellFoundedInduction, TLAPS

(* A set of natural numbers has a least one. *)
LEMMA LeastExists ==
  ASSUME NEW A, A \subseteq Nat, A # {}
  PROVE  \E least \in A : \A n \in A : least <= n
<1>1. PICK least \in A : \A n \in A : ~(<<n, least>> \in OpToRel(<, Nat))
  BY WFMin, NatLessThanWellFounded, Zenon
<1>2. \A n \in A : ~(n < least)
  BY <1>1, Zenon DEF OpToRel
<1> QED
  BY <1>2

(* Induction over the natural numbers, for a set. *)
LEMMA SetInduction ==
  ASSUME NEW A, 0 \in A, \A n \in Nat : n \in A => n + 1 \in A
  PROVE  \A n \in Nat : n \in A
<1> DEFINE Outside == {n \in Nat : n \notin A}
<1>1. SUFFICES ASSUME Outside # {} PROVE FALSE
  OBVIOUS
<1>2. PICK least \in Outside : \A m \in Outside : least <= m
  BY <1>1, LeastExists
<1>3. least \in Nat /\ least # 0 /\ least - 1 \in Nat
  OBVIOUS
<1>4. least - 1 \in A
  BY <1>2, <1>3
<1> QED
  BY <1>3, <1>4

(* Induction over the sequences of elements of S. *)
LEMMA SeqInduction ==
  ASSUME NEW S, NEW A, <<>> \in A, \A s \in Seq(S), e \in S : s \in A => Append(s, e) \in A
  PROVE  \A s \in Seq(S) : s \in A
<1> DEFINE Lengths == {n \in Nat : \A s \in Seq(S) : Len(s) = n => s \in A}
<1>1. 0 \in Lengths
  <2> SUFFICES ASSUME NEW s \in Seq(S), Len(s) = 0 PROVE s \in A
    OBVIOUS
  <2>1. s = <<>>
    OBVIOUS
  <2> QED
    BY <2>1
<1>2. ASSUME NEW n \in Nat, n \in Lengths PROVE n + 1 \in Lengths
  <2> SUFFICES ASSUME NEW s \in Seq(S), Len(s) = n + 1 PROVE s \in A
    OBVIOUS
  <2> DEFINE front == SubSeq(s, 1, n)
  <2>1. front \in Seq(S) /\ Len(front) = n /\ s[n + 1] \in S
    OBVIOUS
  <2>2. s = Append(front, s[n + 1])
    OBVIOUS
  <2>3. front \in A
    BY <1>2, <2>1
  <2> QED
    BY <2>1, <2>2, <2>3
<1>3. \A n \in Nat : n \in Lengths
  BY <1>1, <1>2, SetInduction
<1> QED
  BY <1>3

-----------------------------------------------------------------------------
(* What % and \div return. *)
LEMMA DivisionUnique ==
  ASSUME NEW a \in Int, NEW m \in Nat \ {0}, NEW q \in Int, NEW r \in 0 .. m - 1, a = m * q + r
  PROVE  a % m = r /\ a \div m = q
OBVIOUS

LEMMA Distributes ==
  ASSUME NEW m \in Int, NEW q \in Int
  PROVE  m * q \in Int /\ m * (q + 1) = m * q + m
OBVIOUS

(* Every number is a multiple of m and a rest. *)
LEMMA Division ==
  ASSUME NEW m \in Nat \ {0}
  PROVE  \A a \in Nat : \E q \in Nat, r \in 0 .. m - 1 : a = m * q + r /\ a % m = r /\ a \div m = q
<1> DEFINE A == {a \in Nat : \E q \in Nat, r \in 0 .. m - 1 : a = m * q + r}
<1>1. 0 \in A
  <2>1. 0 = m * 0 + 0 /\ 0 \in 0 .. m - 1
    OBVIOUS
  <2> QED
    BY <2>1
<1>2. ASSUME NEW a \in Nat, a \in A PROVE a + 1 \in A
  <2>1. PICK q \in Nat, r \in 0 .. m - 1 : a = m * q + r
    BY <1>2
  <2>2. CASE r < m - 1
    <3>1. r + 1 \in 0 .. m - 1 /\ a + 1 = m * q + (r + 1)
      BY <2>1, <2>2
    <3> QED
      BY <3>1
  <2>3. CASE r = m - 1
    <3> DEFINE low == m * q
               high == m * (q + 1)
    <3>1. low \in Int /\ high = low + m /\ a = low + r
      BY <2>1, Distributes
    <3> HIDE DEF low, high
    <3>2. high \in Int /\ a + 1 = high
      BY <2>3, <3>1
    <3>3. 0 \in 0 .. m - 1 /\ q + 1 \in Nat /\ a + 1 = high + 0
      BY <3>2
    <3> DEFINE next == q + 1
    <3>4. next \in Nat /\ a + 1 = m * next + 0
      BY <3>3 DEF high
    <3> HIDE DEF next
    <3> QED
      BY <3>3, <3>4
  <2> QED
    BY <2>2, <2>3
<1>3. \A a \in Nat : a \in A
  <2> HIDE DEF A
  <2> QED
    BY <1>1, <1>2, SetInduction
<1> SUFFICES ASSUME NEW a \in Nat PROVE \E q \in Nat, r \in 0 .. m - 1 : a = m * q + r /\ a % m = r /\ a \div m = q
  OBVIOUS
<1>4. PICK q \in Nat, r \in 0 .. m - 1 : a = m * q + r
  BY <1>3
<1>5. a % m = r /\ a \div m = q
  BY <1>4, DivisionUnique
<1> QED
  BY <1>4, <1>5

(* The multiples of m are m apart. *)
LEMMA NextMultiple ==
  ASSUME NEW a \in Nat, NEW m \in Nat \ {0}
  PROVE  (a + m) % m = a % m
<1>1. PICK q \in Nat, r \in 0 .. m - 1 : a = m * q + r /\ a % m = r
  BY Division
<1> DEFINE low == m * q
           high == m * (q + 1)
<1>2. low \in Int /\ high = low + m /\ a = low + r
  BY <1>1, Distributes
<1> HIDE DEF low, high
<1>3. a + m = high + r /\ a + m \in Int /\ q + 1 \in Int
  BY <1>2
<1>4. (a + m) % m = r
  <2> DEFINE b == a + m
             p == q + 1
  <2>1. b \in Int /\ p \in Int /\ b = m * p + r
    BY <1>3 DEF high
  <2> HIDE DEF b, p
  <2>2. b % m = r
    BY <2>1, DivisionUnique
  <2> QED
    BY <2>2 DEF b
<1> QED
  BY <1>1, <1>4

LEMMA BetweenMultiples ==
  ASSUME NEW a \in Nat, NEW m \in Nat \ {0}, a % m = 0, NEW p \in Nat, a < p, p < a + m
  PROVE  p % m # 0
<1>1. PICK q \in Nat, r \in 0 .. m - 1 : a = m * q + r /\ a % m = r
  BY Division
<1>2. a = m * q
  BY <1>1
<1> DEFINE past == p - a
<1>3. past \in 0 .. m - 1 /\ past # 0 /\ p = m * q + past
  BY <1>2
<1> HIDE DEF past
<1>4. p % m = past
  BY <1>3, DivisionUnique
<1> QED
  BY <1>3, <1>4

-----------------------------------------------------------------------------
(* The states a loop goes through, when its body is given as a function:    *)
(* there are such states, from the first to the nth, whatever the body.     *)
Rounds(f, start, body, n) ==
  /\ f[0] = start
  /\ \A k \in 1 .. n : f[k] = body[k][f[k - 1]]

LEMMA LoopExists ==
  ASSUME NEW S, NEW start \in S, NEW n \in Nat, NEW body \in [1 .. n -> [S -> S]]
  PROVE  \E f \in [0 .. n -> S] : Rounds(f, start, body, n)
<1> DEFINE A == {m \in Nat : m <= n => \E f \in [0 .. m -> S] : Rounds(f, start, body, m)}
<1>1. 0 \in A
  <2> DEFINE f == [k \in 0 .. 0 |-> start]
  <2>1. f \in [0 .. 0 -> S] /\ Rounds(f, start, body, 0)
    BY DEF Rounds
  <2> QED
    BY <2>1
<1>2. ASSUME NEW m \in Nat, m \in A PROVE m + 1 \in A
  <2> SUFFICES ASSUME m + 1 <= n
               PROVE  \E f \in [0 .. (m + 1) -> S] : Rounds(f, start, body, m + 1)
    OBVIOUS
  <2>1. PICK g \in [0 .. m -> S] : Rounds(g, start, body, m)
    BY <1>2
  <2>2. m \in 0 .. m /\ g[m] \in S /\ m + 1 \in 1 .. n
    BY <2>1
  <2> DEFINE f == [k \in 0 .. (m + 1) |-> IF k <= m THEN g[k] ELSE body[m + 1][g[m]]]
  <2>3. f \in [0 .. (m + 1) -> S]
    BY <2>1, <2>2
  <2>4. f[0] = start
    BY <2>1 DEF Rounds
  <2>5. ASSUME NEW k \in 1 .. (m + 1) PROVE f[k] = body[k][f[k - 1]]
    <3>1. f[k - 1] = g[k - 1]
      OBVIOUS
    <3>2. CASE k <= m
      BY <2>1, <3>1, <3>2 DEF Rounds
    <3>3. CASE k = m + 1
      BY <3>1, <3>3
    <3> QED
      BY <3>2, <3>3
  <2> HIDE DEF f
  <2> QED
    BY <2>3, <2>4, <2>5 DEF Rounds
<1>3. \A m \in Nat : m \in A
  <2> HIDE DEF A
  <2> QED
    BY <1>1, <1>2, SetInduction
<1>4. n \in A
  BY <1>3
<1> QED
  BY <1>4

-----------------------------------------------------------------------------
(* The recursive function in Keep. *)
Solves(kept, s, T) ==
  kept = [i \in 0 .. Len(s) |->
            IF i = 0 THEN <<>>
            ELSE IF s[i] \in T THEN Append(kept[i - 1], s[i])
            ELSE kept[i - 1]]

LEMMA KeptStep ==
  ASSUME NEW S, NEW T, NEW s \in Seq(S), NEW kept, Solves(kept, s, T)
  PROVE  /\ kept[0] = <<>>
         /\ \A i \in 1 .. Len(s) :
              kept[i] = IF s[i] \in T THEN Append(kept[i - 1], s[i]) ELSE kept[i - 1]
<1> DEFINE Value(j) == IF j = 0 THEN <<>>
                       ELSE IF s[j] \in T THEN Append(kept[j - 1], s[j])
                       ELSE kept[j - 1]
<1>1. kept = [j \in 0 .. Len(s) |-> Value(j)]
  BY DEF Solves
<1> HIDE DEF Value
<1>2. \A i \in 0 .. Len(s) : kept[i] = Value(i)
  BY <1>1
<1>3. 0 \in 0 .. Len(s) /\ \A i \in 1 .. Len(s) : i \in 0 .. Len(s) /\ i # 0
  OBVIOUS
<1> QED
  BY <1>2, <1>3 DEF Value

LEMMA KeepSolved ==
  ASSUME NEW s, NEW T, NEW kept, Solves(kept, s, T)
  PROVE  \E k : Solves(k, s, T) /\ Keep(s, T) = k[Len(s)]
BY DEF Keep, Solves

(* There is such a function. *)
LEMMA KeptExists ==
  ASSUME NEW S, NEW T
  PROVE  \A s \in Seq(S) : \E kept : Solves(kept, s, T)
<1> DEFINE A == {s \in Seq(S) : \E kept : Solves(kept, s, T)}
<1>1. <<>> \in A
  <2> DEFINE f == [i \in 0 .. 0 |-> <<>>]
  <2>1. Solves(f, <<>>, T)
    BY DEF Solves
  <2> QED
    BY <2>1
<1>2. ASSUME NEW s \in Seq(S), NEW e \in S, s \in A PROVE Append(s, e) \in A
  <2>1. PICK g : Solves(g, s, T)
    BY <1>2
  <2> DEFINE last == Len(s) + 1
             f == [i \in 0 .. last |->
                     IF i < last THEN g[i]
                     ELSE IF e \in T THEN Append(g[Len(s)], e) ELSE g[Len(s)]]
  <2>2. Len(s) \in Nat /\ Len(Append(s, e)) = last /\ Append(s, e)[last] = e
    OBVIOUS
  <2>3. \A i \in 1 .. Len(s) : Append(s, e)[i] = s[i]
    OBVIOUS
  <2>4. ASSUME NEW i \in 0 .. last
        PROVE  f[i] = IF i = 0 THEN <<>>
                      ELSE IF Append(s, e)[i] \in T THEN Append(f[i - 1], Append(s, e)[i])
                      ELSE f[i - 1]
    <3>1. CASE i = 0
      <4>1. f[i] = g[0]
        BY <2>2, <3>1
      <4>2. g[0] = <<>>
        BY <2>1, <2>2, 0 \in 0 .. Len(s), KeptStep
      <4> QED
        BY <3>1, <4>1, <4>2
    <3>2. CASE i \in 1 .. Len(s)
      <4>1. f[i] = g[i] /\ f[i - 1] = g[i - 1]
        BY <2>2, <3>2
      <4>2. g[i] = IF s[i] \in T THEN Append(g[i - 1], s[i]) ELSE g[i - 1]
        BY <2>1, <2>2, <3>2, KeptStep
      <4> QED
        BY <2>2, <2>3, <3>2, <4>1, <4>2
    <3>3. CASE i = last
      <4>1. f[i - 1] = g[Len(s)]
        BY <2>2, <3>3
      <4> QED
        BY <2>2, <3>3, <4>1
    <3> QED
      BY <2>2, <3>1, <3>2, <3>3
  <2>5. Solves(f, Append(s, e), T)
    <3> HIDE DEF f
    <3>1. f = [i \in 0 .. last |-> f[i]]
      BY DEF f
    <3> QED
      BY <2>2, <2>4, <3>1 DEF Solves
  <2> QED
    BY <2>5
<1>3. \A s \in Seq(S) : s \in A
  <2> HIDE DEF A
  <2> QED
    BY <1>1, <1>2, SeqInduction
<1> QED
  BY <1>3

(* The functions of a sequence and of a longer one agree. *)
LEMMA KeptAgree ==
  ASSUME NEW S, NEW T, NEW s \in Seq(S), NEW longer \in Seq(S),
         Len(longer) = Len(s) + 1, \A i \in 1 .. Len(s) : longer[i] = s[i],
         NEW f, Solves(f, s, T), NEW g, Solves(g, longer, T)
  PROVE  f[Len(s)] = g[Len(s)]
<1> DEFINE A == {n \in Nat : n <= Len(s) => f[n] = g[n]}
<1>1. Len(s) \in Nat
  OBVIOUS
<1>2. /\ f[0] = <<>>
      /\ \A i \in 1 .. Len(s) : f[i] = IF s[i] \in T THEN Append(f[i - 1], s[i]) ELSE f[i - 1]
  BY KeptStep
<1>3. /\ g[0] = <<>>
      /\ \A i \in 1 .. Len(longer) :
           g[i] = IF longer[i] \in T THEN Append(g[i - 1], longer[i]) ELSE g[i - 1]
  BY KeptStep
<1>4. 0 \in A
  BY <1>2, <1>3
<1>5. ASSUME NEW n \in Nat, n \in A PROVE n + 1 \in A
  <2> SUFFICES ASSUME n + 1 <= Len(s) PROVE f[n + 1] = g[n + 1]
    OBVIOUS
  <2>1. n + 1 \in 1 .. Len(s) /\ n + 1 \in 1 .. Len(longer) /\ (n + 1) - 1 = n
    BY <1>1
  <2>2. f[n] = g[n]
    BY <1>1, <1>5
  <2> QED
    BY <1>1, <1>2, <1>3, <2>1, <2>2
<1>6. \A n \in Nat : n \in A
  BY <1>4, <1>5, SetInduction
<1> QED
  BY <1>1, <1>6

(* Nothing is kept of the empty sequence. *)
LEMMA KeepEmpty == \A T : Keep(<<>>, T) = <<>>
<1> SUFFICES ASSUME NEW T PROVE Keep(<<>>, T) = <<>>
  OBVIOUS
<1>1. <<>> \in Seq({})
  OBVIOUS
<1>2. PICK k : Solves(k, <<>>, T) /\ Keep(<<>>, T) = k[Len(<<>>)]
  BY <1>1, KeptExists, KeepSolved
<1> QED
  BY <1>2 DEF Solves

(* An appended element is kept at the end, or not. *)
LEMMA KeepAppend ==
  ASSUME NEW S, NEW T, NEW s \in Seq(S), NEW e \in S
  PROVE  Keep(Append(s, e), T) = IF e \in T THEN Append(Keep(s, T), e) ELSE Keep(s, T)
<1> DEFINE longer == Append(s, e)
<1>1. /\ longer \in Seq(S) /\ Len(longer) = Len(s) + 1 /\ longer[Len(s) + 1] = e
      /\ \A i \in 1 .. Len(s) : longer[i] = s[i]
      /\ Len(s) + 1 \in 1 .. Len(longer) /\ (Len(s) + 1) - 1 = Len(s)
  OBVIOUS
<1> HIDE DEF longer
<1>2. PICK f : Solves(f, s, T) /\ Keep(s, T) = f[Len(s)]
  BY KeptExists, KeepSolved
<1>3. PICK g : Solves(g, longer, T) /\ Keep(longer, T) = g[Len(s) + 1]
  BY <1>1, KeptExists, KeepSolved
<1>4. g[Len(s) + 1] = IF e \in T THEN Append(g[Len(s)], e) ELSE g[Len(s)]
  <2>1. \A i \in 1 .. Len(longer) :
          g[i] = IF longer[i] \in T THEN Append(g[i - 1], longer[i]) ELSE g[i - 1]
    BY <1>1, <1>3, KeptStep
  <2> QED
    BY <1>1, <2>1
<1>5. f[Len(s)] = g[Len(s)]
  BY <1>1, <1>2, <1>3, KeptAgree
<1> QED
  BY <1>2, <1>3, <1>4, <1>5 DEF longer

-----------------------------------------------------------------------------
Elements(s) == {s[i] : i \in DOMAIN s}

(* The places of s that hold what another one holds. *)
Repeated(s) == {i \in DOMAIN s : \E j \in DOMAIN s : i # j /\ s[i] = s[j]}

LEMMA AppendFacts ==
  ASSUME NEW S, NEW s \in Seq(S), NEW e \in S
  PROVE  /\ Elements(Append(s, e)) = Elements(s) \cup {e}
         /\ Repeated(Append(s, e)) = {} <=> Repeated(s) = {} /\ e \notin Elements(s)
<1> DEFINE longer == Append(s, e)
           n == Len(s)
<1>1. /\ n \in Nat /\ DOMAIN s = 1 .. n /\ DOMAIN longer = 1 .. (n + 1)
      /\ longer[n + 1] = e /\ \A i \in 1 .. n : longer[i] = s[i]
  OBVIOUS
<1> HIDE DEF longer, n
<1>2. Elements(longer) = Elements(s) \cup {e}
  <2>1. ASSUME NEW x \in Elements(longer) PROVE x \in Elements(s) \cup {e}
    <3>1. PICK i \in 1 .. (n + 1) : x = longer[i]
      BY <1>1, <2>1 DEF Elements
    <3>2. i = n + 1 \/ i \in 1 .. n
      BY <1>1
    <3> QED
      BY <1>1, <3>1, <3>2 DEF Elements
  <2>2. ASSUME NEW x \in Elements(s) PROVE x \in Elements(longer)
    <3>1. PICK i \in 1 .. n : x = s[i]
      BY <1>1, <2>2 DEF Elements
    <3> QED
      BY <1>1, <3>1 DEF Elements
  <2>3. e \in Elements(longer)
    <3>1. n + 1 \in 1 .. (n + 1)
      BY <1>1
    <3> QED
      BY <1>1, <3>1 DEF Elements
  <2> QED
    BY <2>1, <2>2, <2>3
<1>3. ASSUME Repeated(longer) = {} PROVE Repeated(s) = {} /\ e \notin Elements(s)
  BY <1>1, <1>3 DEF Repeated, Elements
<1>4. ASSUME Repeated(s) = {}, e \notin Elements(s) PROVE Repeated(longer) = {}
  BY <1>1, <1>4 DEF Repeated, Elements
<1> QED
  BY <1>2, <1>3, <1>4 DEF longer

(* What is kept are the elements that are in T, and none of them twice      *)
(* unless it was there twice.                                              *)
LEMMA KeepFacts ==
  ASSUME NEW S, NEW T
  PROVE  \A s \in Seq(S) :
           /\ Keep(s, T) \in Seq(S)
           /\ Elements(Keep(s, T)) = Elements(s) \cap T
           /\ Repeated(s) = {} => Repeated(Keep(s, T)) = {}
<1> DEFINE P(s, k) == /\ k \in Seq(S)
                      /\ Elements(k) = Elements(s) \cap T
                      /\ Repeated(s) = {} => Repeated(k) = {}
           A == {s \in Seq(S) : P(s, Keep(s, T))}
<1>1. P(<<>>, Keep(<<>>, T))
  <2>1. Keep(<<>>, T) = <<>>
    BY KeepEmpty
  <2>2. Elements(<<>>) = {} /\ Repeated(<<>>) = {}
    BY DEF Elements, Repeated
  <2>3. P(<<>>, <<>>)
    BY <2>2
  <2> HIDE DEF P
  <2> QED
    BY <2>1, <2>3
<1>2. ASSUME NEW s \in Seq(S), NEW e \in S, P(s, Keep(s, T))
      PROVE  P(Append(s, e), Keep(Append(s, e), T))
  <2>1. /\ Append(s, e) \in Seq(S)
        /\ Elements(Append(s, e)) = Elements(s) \cup {e}
        /\ Repeated(Append(s, e)) = {} <=> Repeated(s) = {} /\ e \notin Elements(s)
    BY AppendFacts
  <2> DEFINE k == Keep(s, T)
  <2>2. P(s, k)
    BY <1>2
  <2> HIDE DEF k
  <2>3. /\ Append(k, e) \in Seq(S)
        /\ Elements(Append(k, e)) = Elements(k) \cup {e}
        /\ Repeated(Append(k, e)) = {} <=> Repeated(k) = {} /\ e \notin Elements(k)
    BY <2>2, AppendFacts
  <2>4. Keep(Append(s, e), T) = IF e \in T THEN Append(k, e) ELSE k
    BY KeepAppend DEF k
  <2> QED
    BY <2>1, <2>2, <2>3, <2>4
<1>3. \A s \in Seq(S) : s \in A
  <2> HIDE DEF P
  <2>1. <<>> \in A
    BY <1>1
  <2>2. ASSUME NEW s \in Seq(S), NEW e \in S, s \in A PROVE Append(s, e) \in A
    BY <1>2, <2>2
  <2> HIDE DEF A
  <2> QED
    BY <2>1, <2>2, SeqInduction
<1>4. \A s \in Seq(S) : P(s, Keep(s, T))
  <2> HIDE DEF P
  <2> QED
    BY <1>3
<1> QED
  BY <1>4

-----------------------------------------------------------------------------
(* Two sequences one after the other. *)

(* An element with what is before it and what is after it. *)
Around(S, s, a, e, b) ==
  /\ s \in Seq(S) /\ Len(a) \in Nat /\ Len(b) \in Nat /\ Len(s) = Len(a) + 1 + Len(b)
  /\ s[Len(a) + 1] = e
  /\ \A q \in 1 .. Len(a) : s[q] = a[q]
  /\ \A q \in 1 .. Len(b) : s[(Len(a) + 1) + q] = b[q]

LEMMA ConcatThree ==
  ASSUME NEW S, NEW a \in Seq(S), NEW b \in Seq(S), NEW e \in S, NEW s, s = a \o <<e>> \o b
  PROVE  Around(S, s, a, e, b)
<1> DEFINE first == a \o <<e>>
<1>1. <<e>> \in Seq(S) /\ Len(<<e>>) = 1 /\ <<e>>[1] = e
  OBVIOUS
<1>2. /\ first \in Seq(S) /\ Len(first) = Len(a) + 1
      /\ \A q \in 1 .. Len(a) + 1 : first[q] = IF q <= Len(a) THEN a[q] ELSE <<e>>[q - Len(a)]
  BY <1>1, ConcatProperties
<1>3. Len(a) \in Nat /\ Len(b) \in Nat
  OBVIOUS
<1>4. first[Len(a) + 1] = e /\ \A q \in 1 .. Len(a) : first[q] = a[q]
  <2>1. Len(a) + 1 \in 1 .. Len(a) + 1 /\ ~(Len(a) + 1 <= Len(a)) /\ (Len(a) + 1) - Len(a) = 1
    BY <1>3
  <2>2. \A q \in 1 .. Len(a) : q \in 1 .. Len(a) + 1 /\ q <= Len(a)
    BY <1>3
  <2> HIDE DEF first
  <2> QED
    BY <1>1, <1>2, <2>1, <2>2
<1> HIDE DEF first
<1>5. s = first \o b
  BY DEF first
<1>6. /\ s \in Seq(S) /\ Len(s) = Len(first) + Len(b)
      /\ \A q \in 1 .. Len(first) + Len(b) : s[q] = IF q <= Len(first) THEN first[q] ELSE b[q - Len(first)]
  BY <1>1, <1>2, <1>5, ConcatProperties
<1>7. ASSUME NEW q \in 1 .. Len(a) + 1 PROVE s[q] = first[q]
  <2>1. q \in 1 .. Len(first) + Len(b) /\ q <= Len(first)
    BY <1>2, <1>3
  <2> QED
    BY <1>6, <2>1
<1>8. ASSUME NEW q \in 1 .. Len(b) PROVE s[(Len(a) + 1) + q] = b[q]
  <2>1. /\ (Len(a) + 1) + q \in 1 .. Len(first) + Len(b) /\ ~((Len(a) + 1) + q <= Len(first))
        /\ ((Len(a) + 1) + q) - Len(first) = q
    BY <1>2, <1>3
  <2> QED
    BY <1>6, <2>1
<1>9. s[Len(a) + 1] = e /\ \A q \in 1 .. Len(a) : s[q] = a[q]
  <2>1. Len(a) + 1 \in 1 .. Len(a) + 1 /\ \A q \in 1 .. Len(a) : q \in 1 .. Len(a) + 1
    BY <1>3
  <2> QED
    BY <1>4, <1>7, <2>1
<1> QED
  BY <1>2, <1>3, <1>6, <1>8, <1>9 DEF Around

LEMMA ConcatAppend ==
  ASSUME NEW S, NEW r \in Seq(S), NEW o \in Seq(S), NEW e \in S
  PROVE  r \o Append(o, e) = Append(r \o o, e)
<1> DEFINE left == r \o Append(o, e)
           right == Append(r \o o, e)
<1>1. /\ left \in Seq(S) /\ right \in Seq(S)
      /\ Len(left) = Len(r) + Len(o) + 1 /\ Len(right) = Len(r) + Len(o) + 1
  OBVIOUS
<1>2. \A i \in 1 .. Len(left) : left[i] = right[i]
  OBVIOUS
<1> HIDE DEF left, right
<1>3. left = right
  BY <1>1, <1>2
<1> QED
  BY <1>3 DEF left, right

LEMMA ConcatMoves ==
  ASSUME NEW S, NEW r \in Seq(S), NEW o \in Seq(S), o # <<>>
  PROVE  Append(r, Head(o)) \o Tail(o) = r \o o
<1> DEFINE left == Append(r, Head(o)) \o Tail(o)
           right == r \o o
<1>1. /\ left \in Seq(S) /\ right \in Seq(S)
      /\ Len(left) = Len(r) + Len(o) /\ Len(right) = Len(r) + Len(o)
  OBVIOUS
<1>2. \A i \in 1 .. Len(left) : left[i] = right[i]
  OBVIOUS
<1> HIDE DEF left, right
<1>3. left = right
  BY <1>1, <1>2
<1> QED
  BY <1>3 DEF left, right

(* A sequence is taken apart and put together. *)
LEMMA SubSeqFacts ==
  ASSUME NEW S, NEW s \in Seq(S), NEW a \in Nat, NEW b \in Nat, a <= b, b <= Len(s)
  PROVE  /\ SubSeq(s, a + 1, b) \in Seq(S) /\ Len(SubSeq(s, a + 1, b)) = b - a
         /\ \A p \in 1 .. b - a : SubSeq(s, a + 1, b)[p] = s[a + p]
<1>1. Len(SubSeq(s, a + 1, b)) = b - a
  OBVIOUS
<1> QED
  BY <1>1

LEMMA SubSeqOne ==
  ASSUME NEW S, NEW s \in Seq(S), NEW a \in Nat, a < Len(s)
  PROVE  SubSeq(s, a + 1, a + 1) = <<s[a + 1]>> /\ s[a + 1] \in S
<1>1. a + 1 \in Nat /\ a <= a + 1 /\ a + 1 <= Len(s) /\ (a + 1) - a = 1 /\ s[a + 1] \in S
  OBVIOUS
<1>2. /\ SubSeq(s, a + 1, a + 1) \in Seq(S) /\ Len(SubSeq(s, a + 1, a + 1)) = 1
      /\ \A p \in 1 .. 1 : SubSeq(s, a + 1, a + 1)[p] = s[a + p]
  BY <1>1, SubSeqFacts
<1> DEFINE e == s[a + 1]
           one == SubSeq(s, a + 1, a + 1)
<1>3. e \in S /\ one \in Seq(S) /\ Len(one) = 1 /\ one[1] = e
  BY <1>1, <1>2
<1> HIDE DEF e, one
<1>4. <<e>> \in Seq(S) /\ Len(<<e>>) = 1 /\ \A p \in 1 .. 1 : one[p] = <<e>>[p]
  BY <1>3
<1>5. one = <<e>>
  BY <1>3, <1>4, SeqEqual
<1> QED
  BY <1>3, <1>5 DEF e, one

LEMMA KeepConcat ==
  ASSUME NEW S, NEW T, NEW r \in Seq(S)
  PROVE  \A o \in Seq(S) : Keep(r \o o, T) = Keep(r, T) \o Keep(o, T)
<1> DEFINE A == {o \in Seq(S) : Keep(r \o o, T) = Keep(r, T) \o Keep(o, T)}
<1>1. \A o \in Seq(S) : Keep(o, T) \in Seq(S)
  BY KeepFacts
<1>2. <<>> \in A
  <2>1. Keep(r, T) \in Seq(S)
    BY <1>1
  <2>2. r \o <<>> = r /\ Keep(r, T) \o <<>> = Keep(r, T)
    BY <2>1, ConcatEmptySeq
  <2>3. Keep(<<>>, T) = <<>>
    BY KeepEmpty
  <2>4. Keep(r \o <<>>, T) = Keep(r, T) \o Keep(<<>>, T)
    BY <2>2, <2>3
  <2> QED
    BY <2>4
<1>3. ASSUME NEW o \in Seq(S), NEW e \in S, o \in A PROVE Append(o, e) \in A
  <2>1. r \o o \in Seq(S) /\ r \o Append(o, e) = Append(r \o o, e)
    BY ConcatAppend
  <2>2. Keep(Append(r \o o, e), T) = IF e \in T THEN Append(Keep(r \o o, T), e) ELSE Keep(r \o o, T)
    <3> DEFINE both == r \o o
    <3>1. both \in Seq(S)
      BY <2>1
    <3> HIDE DEF both
    <3>2. Keep(Append(both, e), T) = IF e \in T THEN Append(Keep(both, T), e) ELSE Keep(both, T)
      BY <3>1, KeepAppend
    <3> QED
      BY <3>2 DEF both
  <2>3. Keep(Append(o, e), T) = IF e \in T THEN Append(Keep(o, T), e) ELSE Keep(o, T)
    BY KeepAppend
  <2>4. Keep(r, T) \o Append(Keep(o, T), e) = Append(Keep(r, T) \o Keep(o, T), e)
    BY <1>1, ConcatAppend
  <2>5. Keep(r \o Append(o, e), T) = Keep(r, T) \o Keep(Append(o, e), T)
    <3>1. CASE e \in T
      BY <1>3, <2>1, <2>2, <2>3, <2>4, <3>1
    <3>2. CASE e \notin T
      BY <1>3, <2>1, <2>2, <2>3, <3>2
    <3> QED
      BY <3>1, <3>2
  <2> QED
    BY <2>5
<1>4. \A o \in Seq(S) : o \in A
  <2> HIDE DEF A
  <2> QED
    BY <1>2, <1>3, SeqInduction
<1> QED
  BY <1>4

(* All is kept of a sequence whose elements are all in T. *)
LEMMA KeepAll ==
  ASSUME NEW T
  PROVE  \A s \in Seq(T) : Keep(s, T) = s
<1> DEFINE A == {s \in Seq(T) : Keep(s, T) = s}
<1>1. <<>> \in A
  BY KeepEmpty
<1>2. ASSUME NEW s \in Seq(T), NEW e \in T, s \in A PROVE Append(s, e) \in A
  BY <1>2, KeepAppend
<1>3. \A s \in Seq(T) : s \in A
  <2> HIDE DEF A
  <2> QED
    BY <1>1, <1>2, SeqInduction
<1> QED
  BY <1>3

(* What is not in T may as well be left out. *)
LEMMA KeepWithout ==
  ASSUME NEW S, NEW T, NEW r \in Seq(S), NEW o \in Seq(S), NEW e \in S, e \notin T
  PROVE  Keep(r \o <<e>> \o o, T) = Keep(r \o o, T)
<1> DEFINE longer == r \o <<e>>
<1>1. longer = Append(r, e) /\ longer \in Seq(S)
  <2>1. r \o <<>> = r /\ <<>> \in Seq(S) /\ Append(<<>>, e) = <<e>>
    BY ConcatEmptySeq
  <2>2. r \o Append(<<>>, e) = Append(r \o <<>>, e)
    BY <2>1, ConcatAppend
  <2> QED
    BY <2>1, <2>2
<1> HIDE DEF longer
<1>2. Keep(longer, T) = Keep(r, T)
  BY <1>1, KeepAppend
<1>3. Keep(longer \o o, T) = Keep(longer, T) \o Keep(o, T)
  BY <1>1, KeepConcat
<1>4. Keep(r \o o, T) = Keep(r, T) \o Keep(o, T)
  BY KeepConcat
<1> QED
  BY <1>2, <1>3, <1>4 DEF longer
=============================================================================

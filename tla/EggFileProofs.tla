--------------------------- MODULE EggFileProofs ---------------------------
(***************************************************************************)
(* What holds of a table file for all sources, sizes of row groups and     *)
(* types of columns.  First, what is written can be read: each encoding of *)
(* a column is undone by its decoding (CodecRoundTrip), the CSV reader     *)
(* finds the records of a text one by one (NextUnread), statistics, names  *)
(* and all metadata are parsed as they were written (MetadataRoundTrip).   *)
(* From there, by the inductive invariant IInv, the file is a sequence of  *)
(* row groups whose columns decode to consecutive rows of the source, and  *)
(* every property that the runs check of an open table follows.            *)
(*                                                                         *)
(* A recursion of the code is a fold of the library: it is taken apart as  *)
(* the function of its intermediate values (ProofRules), by induction over *)
(* their number.                                                           *)
(***************************************************************************)
EXTENDS EggFile, SequenceTheorems, WellFoundedInduction, TLAPS

-----------------------------------------------------------------------------
\* Sequences in a file: what lies where, and concatenations.

\* The sums of a sequence of numbers.
Numbers == INSTANCE ProofRules WITH Op <- LAMBDA e, x, y : x + y, Val <- LAMBDA a, b, x : a[x]

\* Induction over the natural numbers, from the well-founded order of them; the
\* rules of ProofRules take it as a hypothesis.
LEMMA Induct == Numbers!NatInduction
<1> SUFFICES ASSUME NEW S \in SUBSET Nat, 0 \in S, \A n \in S : n + 1 \in S
             PROVE  S = Nat
  BY DEF Numbers!NatInduction
<1> SUFFICES ASSUME Nat \ S # {} PROVE FALSE
  OBVIOUS
<1>1. \E R : /\ IsWellFoundedOn(R, Nat)
             /\ \A m, n \in Nat : m < n => <<m, n>> \in R
  <2>1. \A m, n \in Nat : m < n => <<m, n>> \in OpToRel(<, Nat)
    BY DEF OpToRel
  <2> QED BY <2>1, NatLessThanWellFounded, Zenon
<1>2. PICK R : /\ IsWellFoundedOn(R, Nat)
               /\ \A m, n \in Nat : m < n => <<m, n>> \in R
  BY <1>1
<1>3. PICK x \in Nat \ S : \A y \in Nat \ S : ~ (<<y, x>> \in R)
  <2>1. IsWellFoundedOn(R, Nat)
    BY <1>2
  <2> QED BY <2>1, WFMin, Zenon
<1>4. x # 0 /\ x - 1 \in Nat /\ x - 1 < x
  BY <1>3
<1>5. x - 1 \in S
  BY <1>2, <1>3, <1>4
<1>6. (x - 1) + 1 = x
  BY <1>3
<1> QED BY <1>3, <1>5, <1>6

\* F has the concatenations of the first 0, 1, .. sequences of ss.
IsFlat(F, ss, S) ==
  /\ F \in [0 .. Len(ss) -> Seq(S)] /\ F[0] = <<>>
  /\ \A i \in 1 .. Len(ss) : F[i] = F[i - 1] \o ss[i]

\* FlattenSeq concatenates one sequence after the other.
LEMMA FlattenTrace ==
  ASSUME NEW S, NEW ss \in Seq(Seq(S))
  PROVE  \E F : IsFlat(F, ss, S) /\ FlattenSeq(ss) = F[Len(ss)]
<1> DEFINE n == Len(ss)
           IsIter(f, k) == f = [i \in 1 .. k |->
                                  IF i = 1 THEN ss[i] ELSE f[i - 1] \o ss[i]]
           K == {k \in 0 .. n : \E f : IsIter(f, k)}
<1>1. n \in Nat
  OBVIOUS
<1>2. 0 \in K
  <2>1. IsIter([i \in 1 .. 0 |-> <<>>], 0)
    OBVIOUS
  <2> HIDE DEF IsIter
  <2>2. \E f : IsIter(f, 0)
    BY <2>1
  <2> QED BY <1>1, <2>2
<1>3. ASSUME NEW k \in 0 .. n - 1, k \in K PROVE k + 1 \in K
  <2>1. PICK f : IsIter(f, k)
    BY <1>3
  <2> DEFINE g == [i \in 1 .. k + 1 |-> IF i = 1 THEN ss[i] ELSE f[i - 1] \o ss[i]]
  <2>2. ASSUME NEW i \in 1 .. k PROVE g[i] = f[i]
    <3>1. i \in 1 .. k + 1
      OBVIOUS
    <3>2. f[i] = IF i = 1 THEN ss[i] ELSE f[i - 1] \o ss[i]
      BY <2>1
    <3> QED BY <3>1, <3>2
  <2>3. IsIter(g, k + 1)
    <3>1. \A i \in 1 .. k + 1 : g[i] = IF i = 1 THEN ss[i] ELSE g[i - 1] \o ss[i]
      <4> TAKE i \in 1 .. k + 1
      <4>1. CASE i = 1
        BY <4>1
      <4>2. CASE i # 1
        <5>1. i - 1 \in 1 .. k
          BY <4>2
        <5> QED BY <2>2, <4>2, <5>1
      <4> QED BY <4>1, <4>2
    <3> QED BY <3>1
  <2> HIDE DEF g, IsIter
  <2>4. \E h : IsIter(h, k + 1)
    BY <2>3
  <2> QED BY <1>1, <2>4
<1> HIDE DEF K
<1>4. n \in K
  <2>1. 0 .. n \subseteq K
    <3> HIDE DEF n
    <3> QED BY <1>1, <1>2, <1>3, Induct, Numbers!UpTo
  <2> QED BY <1>1, <2>1
<1>5. \E f : IsIter(f, n)
  BY <1>4 DEF K
<1> DEFINE flat == CHOOSE f : IsIter(f, n)
<1>6. IsIter(flat, n)
  BY <1>5
<1>7. FlattenSeq(ss) = IF n = 0 THEN ss ELSE flat[n]
  BY DEF FlattenSeq
<1> HIDE DEF flat
<1> DEFINE F == [i \in 0 .. n |-> IF i = 0 THEN <<>> ELSE flat[i]]
<1>8. F[0] = <<>> /\ \A i \in 1 .. n : F[i] = F[i - 1] \o ss[i]
  <2>1. F[0] = <<>>
    BY <1>1
  <2>2. ASSUME NEW i \in 1 .. n PROVE F[i] = F[i - 1] \o ss[i]
    <3>0. F[i] = flat[i] /\ i - 1 \in 0 .. n
      BY <1>1
    <3>1. CASE i = 1
      <4>1. flat[i] = ss[i] /\ F[i - 1] = <<>> /\ ss[i] \in Seq(S)
        BY <1>6, <3>1
      <4> QED BY <3>0, <4>1, EmptySeq, ConcatEmptySeq
    <3>2. CASE i # 1
      <4>1. flat[i] = flat[i - 1] \o ss[i]
        BY <1>6, <3>2
      <4>2. F[i - 1] = flat[i - 1]
        BY <3>0, <3>2
      <4> QED BY <3>0, <4>1, <4>2
    <3> QED BY <3>1, <3>2
  <2> QED BY <2>1, <2>2
<1> HIDE DEF F
<1>9. FlattenSeq(ss) = F[n]
  <2>1. CASE n = 0
    <3>1. ss = <<>>
      BY <2>1
    <3>2. F[n] = <<>>
      BY <2>1, <1>8
    <3> QED BY <1>7, <2>1, <3>1, <3>2
  <2>2. CASE n # 0
    <3>1. F[n] = flat[n]
      BY <1>1, <2>2 DEF F
    <3> QED BY <1>7, <2>2, <3>1
  <2> QED BY <2>1, <2>2
<1>10. \A i \in 0 .. n : F[i] \in Seq(S)
  <2> DEFINE P == {i \in 0 .. n : F[i] \in Seq(S)}
  <2>1. 0 \in P
    <3>1. F[0] \in Seq(S)
      BY <1>8, EmptySeq
    <3>2. 0 \in 0 .. n
      BY <1>1
    <3> QED BY <3>1, <3>2
  <2>2. ASSUME NEW i \in 0 .. n - 1, i \in P PROVE i + 1 \in P
    <3>1. i + 1 \in 1 .. n /\ (i + 1) - 1 = i
      OBVIOUS
    <3>2. F[i + 1] = F[i] \o ss[i + 1]
      BY <1>8, <3>1, Zenon
    <3>5. ss[i + 1] \in Seq(S)
      BY <3>1, ElementOfSeq
    <3>3. F[i] \in Seq(S)
      BY <2>2
    <3>4. F[i + 1] \in Seq(S)
      BY <3>2, <3>3, <3>5
    <3> QED BY <3>1, <3>4
  <2> HIDE DEF P
  <2>3. 0 .. n \subseteq P
    <3> HIDE DEF n
    <3> QED BY <1>1, <2>1, <2>2, Induct, Numbers!UpTo
  <2> QED BY <2>3 DEF P
<1>11. F \in [0 .. n -> Seq(S)]
  BY <1>10 DEF F
<1> QED BY <1>8, <1>9, <1>11 DEF IsFlat

\* s and t have the same elements at the same places.
Matches(s, t) == Len(s) = Len(t) /\ \A i \in 1 .. Len(s) : s[i] = t[i]

\* Sequences that match are equal.
LEMMA MatchEqual ==
  ASSUME NEW S, NEW s \in Seq(S), NEW t \in Seq(S), Matches(s, t)
  PROVE  s = t
<1>1. Len(s) = Len(t) /\ \A i \in 1 .. Len(s) : s[i] = t[i]
  BY DEF Matches
<1> QED BY <1>1, SeqEqual, Zenon

\* t lies in s behind the first p elements.
At(s, p, t) ==
  /\ p \in Nat /\ p + Len(t) <= Len(s)
  /\ \A j \in 1 .. Len(t) : s[p + j] = t[j]

\* What lies behind the first p elements is the subsequence from there.
LEMMA AtSub ==
  ASSUME NEW S, NEW s \in Seq(S), NEW t \in Seq(S), NEW p, At(s, p, t)
  PROVE  SubSeq(s, p + 1, p + Len(t)) = t
<1> DEFINE u == SubSeq(s, p + 1, p + Len(t))
<1>1. p \in Nat /\ Len(t) \in Nat /\ p + Len(t) <= Len(s) /\ Len(s) \in Nat
  BY DEF At
<1>2. u \in Seq(S) /\ Len(u) = Len(t)
  BY <1>1, SubSeqProperties
<1>3. \A j \in 1 .. Len(t) : u[j] = t[j]
  BY <1>1 DEF At
<1> HIDE DEF u
<1>4. Matches(u, t)
  BY <1>2, <1>3 DEF Matches
<1> QED BY <1>2, <1>4, MatchEqual DEF u

\* It lies there still when something is written behind.
LEMMA AtLeft ==
  ASSUME NEW S, NEW s \in Seq(S), NEW t \in Seq(S), NEW u \in Seq(S), NEW p, At(s, p, t)
  PROVE  At(s \o u, p, t)
BY DEF At

\* Written behind u, it lies that much further.
LEMMA AtRight ==
  ASSUME NEW S, NEW s \in Seq(S), NEW t \in Seq(S), NEW u \in Seq(S), NEW p, At(s, p, t)
  PROVE  At(u \o s, Len(u) + p, t)
BY DEF At

\* What lies in a part lies in the whole.
LEMMA AtInner ==
  ASSUME NEW S, NEW s \in Seq(S), NEW t \in Seq(S), NEW u \in Seq(S), NEW p, NEW q,
         At(s, p, t), At(t, q, u)
  PROVE  At(s, p + q, u)
<1>1. p \in Nat /\ q \in Nat /\ Len(s) \in Nat /\ Len(t) \in Nat /\ Len(u) \in Nat
  BY DEF At
<1>2. p + q + Len(u) <= Len(s) /\ p + q \in Nat
  BY <1>1 DEF At
<1>3. ASSUME NEW j \in 1 .. Len(u) PROVE s[p + q + j] = u[j]
  <2>1. q + j \in 1 .. Len(t) /\ p + (q + j) = p + q + j
    BY <1>1 DEF At
  <2>2. s[p + (q + j)] = t[q + j] /\ t[q + j] = u[j]
    BY <2>1 DEF At
  <2> QED BY <2>1, <2>2
<1> QED BY <1>2, <1>3 DEF At

\* A sequence lies at the beginning of itself.
LEMMA AtSelf ==
  ASSUME NEW S, NEW s \in Seq(S)
  PROVE  At(s, 0, s)
BY DEF At

\* The concatenation of all sequences begins with that of the first ones.
LEMMA FlatGrows ==
  ASSUME NEW S, NEW ss \in Seq(Seq(S)), NEW F, IsFlat(F, ss, S), NEW i \in 0 .. Len(ss)
  PROVE  At(F[Len(ss)], 0, F[i])
<1> DEFINE n == Len(ss)  P == {k \in 0 .. n - i : At(F[i + k], 0, F[i])}
<1>1. n \in Nat /\ i \in Nat /\ n - i \in Nat
  OBVIOUS
<1>2. 0 \in P
  <2>1. F[i] \in Seq(S)
    BY DEF IsFlat
  <2>2. At(F[i], 0, F[i])
    BY <2>1, AtSelf
  <2>3. i + 0 = i
    OBVIOUS
  <2> QED BY <1>1, <2>2, <2>3
<1>3. ASSUME NEW k \in 0 .. (n - i) - 1, k \in P PROVE k + 1 \in P
  <2>1. i + (k + 1) \in 1 .. n /\ (i + (k + 1)) - 1 = i + k /\ i + k \in 0 .. n
    OBVIOUS
  <2>2. F[i + (k + 1)] = F[i + k] \o ss[i + (k + 1)]
    BY <2>1 DEF IsFlat
  <2>3. F[i + k] \in Seq(S) /\ F[i] \in Seq(S)
    BY <2>1 DEF IsFlat
  <2>4. ss[i + (k + 1)] \in Seq(S)
    BY <2>1, ElementOfSeq
  <2>5. At(F[i + k], 0, F[i])
    BY <1>3
  <2>6. At(F[i + (k + 1)], 0, F[i])
    BY <2>2, <2>3, <2>4, <2>5, AtLeft
  <2> QED BY <2>1, <2>6
<1> HIDE DEF P
<1>4. 0 .. n - i \subseteq P
  <2> DEFINE d == n - i
  <2>1. d \in Nat /\ \A k \in 0 .. d - 1 : k \in P => k + 1 \in P
    BY <1>1, <1>3
  <2> HIDE DEF d
  <2>2. 0 .. d \subseteq P
    BY <1>2, <2>1, Induct, Numbers!UpTo
  <2> QED BY <2>2 DEF d
<1>5. n - i \in P /\ i + (n - i) = n
  BY <1>1, <1>4
<1> QED BY <1>5 DEF P

\* Sequence i lies behind the concatenation of those before it.
LEMMA FlatAt ==
  ASSUME NEW S, NEW ss \in Seq(Seq(S)), NEW F, IsFlat(F, ss, S), NEW i \in 1 .. Len(ss)
  PROVE  /\ At(F[Len(ss)], Len(F[i - 1]), ss[i])
         /\ Len(F[i]) = Len(F[i - 1]) + Len(ss[i])
<1>1. i - 1 \in 0 .. Len(ss) /\ i \in 0 .. Len(ss) /\ Len(ss) \in 0 .. Len(ss)
  OBVIOUS
<1>2. F[i] \in Seq(S) /\ F[i - 1] \in Seq(S) /\ F[Len(ss)] \in Seq(S)
  BY <1>1 DEF IsFlat
<1>3. ss[i] \in Seq(S)
  BY ElementOfSeq
<1>4. F[i] = F[i - 1] \o ss[i]
  BY DEF IsFlat
<1>5. At(F[i], Len(F[i - 1]) + 0, ss[i])
  BY <1>2, <1>3, <1>4, AtSelf, AtRight
<1>6. At(F[Len(ss)], 0, F[i])
  BY <1>1, FlatGrows
<1>7. At(F[Len(ss)], 0 + (Len(F[i - 1]) + 0), ss[i])
  BY <1>2, <1>3, <1>5, <1>6, AtInner
<1>8. Len(F[i - 1]) \in Nat
  BY <1>2
<1>9. 0 + (Len(F[i - 1]) + 0) = Len(F[i - 1])
  BY <1>8
<1>10. Len(F[i]) = Len(F[i - 1]) + Len(ss[i])
  BY <1>2, <1>3, <1>4
<1> QED BY <1>7, <1>9, <1>10

-----------------------------------------------------------------------------
\* Numbers, types and words.

\* What a cell of a column can be.
Value(type) ==
  CASE type \in IntType \cup DateType -> Low[type] .. High[type]
    [] type = "String" -> Seq(Int)
    [] type = "Double" -> Int

\* The number of words of the unsigned integers that are packed.
Words == 2^WordBits

\* The powers of two that the widths need are positive.
LEMMA WordFacts ==
  /\ WordBits \in Nat /\ Words \in Nat \ {0}
  /\ 2^0 = 1
  /\ \A w \in 0 .. WordBits : 2^w \in Nat \ {0}
<1>1. WordBits \in Nat /\ \A w \in 0 .. WordBits : 2^w \in Nat \ {0}
  BY CodecAssumption
<1>2. WordBits \in 0 .. WordBits
  BY <1>1
<1>3. 2^0 = 1
  OBVIOUS
<1> QED BY <1>1, <1>2, <1>3 DEF Words

\* The range of a type fits into the words; twice that of a date, too.
LEMMA TypeFacts ==
  ASSUME NEW t \in IntType \cup DateType
  PROVE  /\ Low[t] \in Int /\ High[t] \in Int
         /\ Low[t] <= High[t] /\ High[t] - Low[t] < Words
         /\ High[t] - Low[t] + 1 \in Nat \ {0}
         /\ t \in DateType => 0 \in Low[t] .. High[t] /\ 2 * (High[t] - Low[t]) < Words
<1>1. Low \in [IntType \cup DateType -> Int] /\ High \in [IntType \cup DateType -> Int]
  BY CodecAssumption
<1>2. Low[t] \in Int /\ High[t] \in Int
  BY <1>1
<1>3. Low[t] <= High[t] /\ High[t] - Low[t] < Words
  BY CodecAssumption DEF Words
<1>4. t \in DateType => 0 \in Low[t] .. High[t] /\ 2 * (High[t] - Low[t]) < Words
  BY CodecAssumption DEF Words
<1> QED BY <1>2, <1>3, <1>4

\* The remainder of a small number is the number.
LEMMA Smaller ==
  ASSUME NEW m \in Nat \ {0}, NEW x \in 0 .. m - 1
  PROVE  x % m = x
<1>1. (m * 0 + x) % m = x
  BY Numbers!ModUnique
<1>2. m * 0 + x = x
  OBVIOUS
<1> QED BY <1>1, <1>2

\* Cutting a number of the type to the type changes nothing.
LEMMA CastOfValue ==
  ASSUME NEW t \in IntType \cup DateType, NEW x \in Low[t] .. High[t]
  PROVE  CastTo(t, x) = x
<1> DEFINE m == High[t] - Low[t] + 1  y == x - Low[t]
<1>1. m \in Nat \ {0} /\ y \in 0 .. m - 1 /\ Low[t] \in Int /\ x = Low[t] + y
  BY TypeFacts
<1>2. CastTo(t, x) = Low[t] + (y % m)
  BY DEF CastTo
<1> HIDE DEF m, y
<1>3. y % m = y
  BY <1>1, Smaller
<1> QED BY <1>1, <1>2, <1>3

\* What is cut to a type is a number of the type.
LEMMA CastInRange ==
  ASSUME NEW t \in IntType \cup DateType, NEW x \in Int
  PROVE  CastTo(t, x) \in Low[t] .. High[t]
<1> DEFINE m == High[t] - Low[t] + 1  y == x - Low[t]
<1>1. m \in Nat \ {0} /\ y \in Int /\ Low[t] \in Int /\ High[t] \in Int
      /\ High[t] = Low[t] + m - 1
  BY TypeFacts
<1>2. CastTo(t, x) = Low[t] + (y % m)
  BY DEF CastTo
<1> HIDE DEF m, y
<1>3. y % m \in 0 .. m - 1
  BY <1>1, Numbers!DivMod
<1> QED BY <1>1, <1>2, <1>3

\* The width of a word is one that BitPack knows, 0 only for the word 0.
LEMMA WidthOf ==
  ASSUME NEW x \in 0 .. Words - 1
  PROVE  /\ GetBitWidth(x) \in 0 .. WordBits
         /\ GetBitWidth(x) = 0 => x = 0
<1> DEFINE W == {w \in 0 .. WordBits : x < 2^w}
           Is(w) == w \in 0 .. WordBits /\ x < 2^w /\ (w > 0 => x >= 2^(w - 1))
<1>1. W \subseteq Nat /\ W # {}
  <2>1. WordBits \in W
    BY WordFacts DEF Words
  <2> QED BY <2>1, WordFacts
<1>2. PICK w \in W : \A v \in W : w <= v
  <2> HIDE DEF W
  <2> QED BY <1>1, Induct, Numbers!LeastOf
<1>3. Is(w)
  <2>0. w \in 0 .. WordBits /\ x < 2^w /\ w \in Int /\ WordBits \in Nat
    BY WordFacts
  <2>1. ASSUME w > 0 PROVE x >= 2^(w - 1)
    <3>1. w - 1 \in 0 .. WordBits /\ w - 1 \notin W
      <4>1. w - 1 \in 0 .. WordBits
        BY <2>0, <2>1
      <4>2. w - 1 \notin W
        <5>1. ~(w <= w - 1)
          BY <2>0
        <5> HIDE DEF W
        <5> QED BY <1>2, <5>1
      <4> QED BY <4>1, <4>2
    <3>2. 2^(w - 1) \in Nat /\ ~(x < 2^(w - 1))
      BY <3>1, WordFacts
    <3> QED BY <3>2
  <2> QED BY <2>0, <2>1
<1>4. \E v \in 0 .. WordBits : x < 2^v /\ (v > 0 => x >= 2^(v - 1))
  BY <1>3
<1>5. Is(GetBitWidth(x))
  BY <1>4 DEF GetBitWidth
<1>6. ASSUME GetBitWidth(x) = 0 PROVE x = 0
  <2>1. x < 2^0
    BY <1>5, <1>6
  <2> QED BY <2>1, WordFacts
<1> QED BY <1>5, <1>6

\* Min of the values of a column is one of them, and none is below it.
LEMMA LeastIn ==
  ASSUME NEW s \in Seq(Int), s # <<>>
  PROVE  /\ \E k \in 1 .. Len(s) : Min(ToSet(s)) = s[k]
         /\ \A j \in 1 .. Len(s) : Min(ToSet(s)) <= s[j]
<1> DEFINE n == Len(s)
           P == {i \in 0 .. n : i > 0 =>
                   \E k \in 1 .. i : \A j \in 1 .. i : s[k] <= s[j]}
<1>1. n \in Nat \ {0} /\ \A i \in 1 .. n : s[i] \in Int
  OBVIOUS
<1>2. 0 \in P
  BY <1>1
<1>3. ASSUME NEW i \in 0 .. n - 1, i \in P PROVE i + 1 \in P
  <2>1. CASE i = 0
    <3>1. 1 \in 1 .. 1 /\ \A j \in 1 .. 1 : s[1] <= s[j]
      <4>1. s[1] \in Int
        BY <1>1
      <4> QED BY <4>1
    <3>2. i + 1 = 1 /\ 1 \in 0 .. n
      BY <1>1, <2>1
    <3> QED BY <3>1, <3>2
  <2>2. CASE i # 0
    <3>1. PICK k \in 1 .. i : \A j \in 1 .. i : s[k] <= s[j]
      BY <1>3, <2>2
    <3>2. s[k] \in Int /\ s[i + 1] \in Int /\ \A j \in 1 .. i : s[j] \in Int
      BY <1>1
    <3>3. CASE s[k] <= s[i + 1]
      <4>1. \A j \in 1 .. i + 1 : s[k] <= s[j]
        BY <3>1, <3>3
      <4>2. k \in 1 .. i + 1
        OBVIOUS
      <4> QED BY <4>1, <4>2
    <3>4. CASE s[i + 1] <= s[k]
      <4>1. \A j \in 1 .. i + 1 : s[i + 1] <= s[j]
        BY <3>1, <3>2, <3>4
      <4>2. i + 1 \in 1 .. i + 1
        OBVIOUS
      <4> QED BY <4>1, <4>2
    <3>5. s[k] <= s[i + 1] \/ s[i + 1] <= s[k]
      BY <3>2
    <3> HIDE DEF P
    <3> QED BY <3>3, <3>4, <3>5
  <2> QED BY <2>1, <2>2
<1> HIDE DEF P
<1>4. 0 .. n \subseteq P
  <2> HIDE DEF n
  <2> QED BY <1>1, <1>2, <1>3, Induct, Numbers!UpTo
<1>5. PICK k \in 1 .. n : \A j \in 1 .. n : s[k] <= s[j]
  <2>1. n \in P /\ n > 0
    BY <1>1, <1>4
  <2> HIDE DEF n
  <2> QED BY <2>1 DEF P
<1> DEFINE T == ToSet(s)
<1>6. T = {s[j] : j \in 1 .. n}
  BY DEF ToSet
<1>7. s[k] \in T /\ \A y \in T : s[k] <= y
  BY <1>5, <1>6
<1> HIDE DEF T
<1>8. Min(T) \in T /\ \A y \in T : Min(T) <= y
  BY <1>7 DEF Min
<1> QED BY <1>6, <1>8 DEF T

\* Max of the values of a column is one of them, and none is above it.
LEMMA GreatestIn ==
  ASSUME NEW s \in Seq(Int), s # <<>>
  PROVE  /\ \E k \in 1 .. Len(s) : Max(ToSet(s)) = s[k]
         /\ \A j \in 1 .. Len(s) : Max(ToSet(s)) >= s[j]
<1> DEFINE t == [i \in 1 .. Len(s) |-> -s[i]]
<1>1. t \in Seq(Int) /\ Len(t) = Len(s) /\ t # <<>> /\ \A i \in 1 .. Len(s) : s[i] \in Int
  OBVIOUS
<1>2. PICK k \in 1 .. Len(s) : \A j \in 1 .. Len(s) : t[k] <= t[j]
  <2> HIDE DEF t
  <2> QED BY <1>1, LeastIn
<1>3. \A j \in 1 .. Len(s) : s[k] >= s[j]
  BY <1>1, <1>2
<1> DEFINE T == ToSet(s)
<1>6. T = {s[j] : j \in 1 .. Len(s)}
  BY DEF ToSet
<1>7. s[k] \in T /\ \A y \in T : s[k] >= y
  BY <1>3, <1>6
<1> HIDE DEF T
<1>8. Max(T) \in T /\ \A y \in T : Max(T) >= y
  BY <1>7 DEF Max
<1> QED BY <1>6, <1>8 DEF T

\* The fold by which dates are summed up from their deltas.
Deltas == INSTANCE ProofRules
  WITH Op <- LAMBDA e, current, delta :
               Append(current, Last(current) + ZigZagDecode(delta)),
       Val <- LAMBDA a, b, x : x

\* A function on 1 .. n is a sequence of n elements.
LEMMA SeqOfFunction ==
  ASSUME NEW S, NEW n \in Nat, NEW f \in [1 .. n -> S]
  PROVE  f \in Seq(S) /\ Len(f) = n /\ (n # 0 => f # <<>>)
OBVIOUS

\* The parts of a sequence behind a tag.
LEMMA Prefixed ==
  ASSUME NEW tag \in Int, NEW s \in Seq(Int), NEW d, d = <<tag>> \o s
  PROVE  /\ d \in Seq(Int) /\ d # <<>> /\ Len(d) = 1 + Len(s)
         /\ d[1] = tag /\ Tail(d) = s
OBVIOUS

\* A small number is its own word.
LEMMA WordOfValue ==
  ASSUME NEW x \in 0 .. Words - 1
  PROVE  ToWord(x) = x
<1>1. x % Words = x
  BY Smaller, WordFacts
<1> QED BY <1>1 DEF ToWord, Words

\* A run of words and its width.
IsRun(s) == s \in Seq(Int) /\ \A k \in 1 .. Len(s) : s[k] \in 0 .. Words - 1

\* Words packed with the width of their bound are unpacked again.
LEMMA RunRoundTrip ==
  ASSUME NEW s, IsRun(s), NEW top \in 0 .. Words - 1,
         \A k \in 1 .. Len(s) : s[k] <= top
  PROVE  /\ BitPack(s, GetBitWidth(top)) \in Seq(Int)
         /\ BitUnpack(BitPack(s, GetBitWidth(top)), Len(s), GetBitWidth(top)) = s
<1> DEFINE w == GetBitWidth(top)
<1>1. w = 0 => top = 0
  BY WidthOf
<1>2. s \in Seq(Int) /\ Len(s) \in Nat /\ \A k \in 1 .. Len(s) : s[k] \in Nat
  BY DEF IsRun
<1> HIDE DEF w
<1>3. CASE w = 0
  <2>1. \A k \in 1 .. Len(s) : s[k] = 0
    BY <1>1, <1>2, <1>3
  <2>2. s = [k \in 1 .. Len(s) |-> s[k]]
    BY <1>2
  <2>3. s = [k \in 1 .. Len(s) |-> 0]
    BY <2>1, <2>2
  <2>4. BitUnpack(BitPack(s, w), Len(s), w) = [k \in 1 .. Len(s) |-> 0]
    BY <1>3 DEF BitUnpack
  <2>5. BitPack(s, w) \in Seq(Int)
    BY <1>3 DEF BitPack
  <2> QED BY <2>3, <2>4, <2>5 DEF w
<1>4. CASE w # 0
  <2>1. BitPack(s, w) = s
    BY <1>4 DEF BitPack
  <2>2. BitUnpack(s, Len(s), w) = SubSeq(s, 1, Len(s))
    BY <1>4 DEF BitUnpack
  <2>3. SubSeq(s, 1, Len(s)) = s
    <3>1. At(s, 0, s)
      BY <1>2, AtSelf
    <3>2. SubSeq(s, 0 + 1, 0 + Len(s)) = s
      BY <1>2, <3>1, AtSub
    <3> QED BY <1>2, <3>2
  <2> QED BY <1>2, <2>1, <2>2, <2>3 DEF w
<1> QED BY <1>3, <1>4

\* The parts of a sequence behind a header of three numbers.
LEMMA Rest3 ==
  ASSUME NEW a \in Int, NEW b \in Int, NEW c \in Int, NEW s \in Seq(Int),
         NEW d, d = <<a, b, c>> \o s
  PROVE  /\ d \in Seq(Int) /\ Len(d) = 3 + Len(s)
         /\ d[1] = a /\ d[2] = b /\ d[3] = c
         /\ SubSeq(d, 4, Len(d)) = s
<1> DEFINE t == <<a, b, c>>
<1>1. t \in Seq(Int) /\ Len(t) = 3 /\ t[1] = a /\ t[2] = b /\ t[3] = c
  OBVIOUS
<1>2. d = t \o s
  OBVIOUS
<1> HIDE DEF t
<1>3. d \in Seq(Int) /\ Len(d) = 3 + Len(s) /\ Len(s) \in Nat
  BY <1>1, <1>2
<1>4. d[1] = a /\ d[2] = b /\ d[3] = c
  BY <1>1, <1>2
<1>5. At(d, 3, s)
  <2>1. At(d, Len(t) + 0, s)
    BY <1>1, <1>2, AtSelf, AtRight
  <2> QED BY <1>1, <2>1
<1>6. SubSeq(d, 3 + 1, 3 + Len(s)) = s
  BY <1>3, <1>5, AtSub
<1> QED BY <1>3, <1>4, <1>6

\* A column of values of an integer type or of dates.
Ranged(t, values) ==
  values \in Seq(Int) /\ \A k \in 1 .. Len(values) : values[k] \in Low[t] .. High[t]

\* A sequence is empty exactly when its length is 0.
LEMMA LengthOf ==
  ASSUME NEW S, NEW s \in Seq(S)
  PROVE  (s = <<>> /\ Len(s) = 0) \/ (s # <<>> /\ Len(s) \in Nat \ {0})
OBVIOUS

\* The encoding against the minimum is undone by its decoding.
LEMMA MinPackedRoundTrip ==
  ASSUME NEW t \in IntType \cup DateType, NEW values, Ranged(t, values)
  PROVE  /\ EncodeMinBitPacked(values) \in Seq(Int)
         /\ DecodeMinBitPacked(t, EncodeMinBitPacked(values)) = values
<1>1. CASE values = <<>>
  BY <1>1 DEF EncodeMinBitPacked, DecodeMinBitPacked
<1>2. CASE values # <<>>
  <2> DEFINE n == Len(values)  min == Min(ToSet(values))  s == Offsets(values)
             top == Max(ToSet(s))  run == BitPack(s, GetBitWidth(top))
             data == EncodeMinBitPacked(values)
  <2>1. /\ Low[t] \in Int /\ High[t] \in Int /\ High[t] - Low[t] < Words
        /\ Words \in Nat \ {0}
    BY TypeFacts, WordFacts
  <2>2. /\ values \in Seq(Int) /\ n \in Nat \ {0}
        /\ \A k \in 1 .. n : values[k] \in Low[t] .. High[t]
    BY <1>2, LengthOf DEF Ranged
  <2>3. /\ \E k \in 1 .. n : min = values[k]
        /\ \A k \in 1 .. n : min <= values[k]
    BY <1>2, <2>2, LeastIn
  <2>4. min \in Low[t] .. High[t]
    BY <2>2, <2>3
  <2> HIDE DEF min
  <2>5. ASSUME NEW k \in 1 .. n PROVE s[k] = values[k] - min /\ s[k] \in 0 .. Words - 1
    <3> DEFINE x == values[k] - min
    <3>1. x \in 0 .. Words - 1
      BY <2>1, <2>2, <2>3, <2>4
    <3>2. s[k] = ToWord(x)
      BY <2>2 DEF Offsets, min
    <3> HIDE DEF x
    <3>3. s[k] = x
      BY <3>1, <3>2, WordOfValue
    <3> QED BY <3>1, <3>3 DEF x
  <2>6. DOMAIN s = 1 .. n
    BY <2>2 DEF Offsets
  <2>7. s \in Seq(Int) /\ Len(s) = n /\ s # <<>>
    <3>1. s = [k \in 1 .. n |-> s[k]]
      BY <2>2 DEF Offsets
    <3>2. \A k \in 1 .. n : s[k] \in Int
      BY <2>5
    <3>3. s \in [1 .. n -> Int]
      BY <3>1, <3>2
    <3> HIDE DEF s, n
    <3> QED BY <2>2, <3>3, SeqOfFunction
  <2> HIDE DEF s
  <2>8. IsRun(s)
    BY <2>5, <2>7 DEF IsRun
  <2>9. top \in 0 .. Words - 1 /\ \A k \in 1 .. n : s[k] <= top
    BY <2>5, <2>7, GreatestIn
  <2> HIDE DEF top
  <2>10. run \in Seq(Int) /\ BitUnpack(run, n, GetBitWidth(top)) = s
    BY <2>7, <2>8, <2>9, RunRoundTrip
  <2>11. GetBitWidth(top) \in Int
    BY <2>9, WidthOf
  <2>12. data = <<n, min, GetBitWidth(top)>> \o run
    BY <1>2 DEF EncodeMinBitPacked, top, s, min
  <2> HIDE DEF run, data
  <2>13. /\ data \in Seq(Int)
         /\ data[1] = n /\ data[2] = min /\ data[3] = GetBitWidth(top)
         /\ SubSeq(data, 4, Len(data)) = run
    BY <2>2, <2>4, <2>10, <2>11, <2>12, Rest3
  <2>14. DecodeMinBitPacked(t, data) = [k \in 1 .. n |-> CastTo(t, min + s[k])]
    BY <2>2, <2>10, <2>13 DEF DecodeMinBitPacked
  <2>15. \A k \in 1 .. n : CastTo(t, min + s[k]) = values[k]
    <3> TAKE k \in 1 .. n
    <3>1. min + s[k] = values[k]
      BY <2>1, <2>2, <2>4, <2>5
    <3> QED BY <2>2, <3>1, CastOfValue
  <2>16. values = [k \in 1 .. n |-> values[k]]
    BY <2>2
  <2>17. DecodeMinBitPacked(t, data) = values
    BY <2>14, <2>15, <2>16
  <2> QED BY <2>13, <2>17 DEF data
<1> QED BY <1>1, <1>2

\* Raw numbers are read back.
LEMMA RawRoundTrip ==
  ASSUME NEW values \in Seq(Int)
  PROVE  EncodeRaw(values) \in Seq(Int) /\ DecodeRaw(EncodeRaw(values)) = values
<1> DEFINE t == <<Len(values)>>  d == EncodeRaw(values)
<1>1. t \in Seq(Int) /\ Len(t) = 1 /\ Len(values) \in Int
  OBVIOUS
<1>2. d = <<Len(values)>> \o values
  BY DEF EncodeRaw
<1> HIDE DEF d
<1>3. d \in Seq(Int) /\ Len(d) = 1 + Len(values) /\ d[1] = Len(values)
  BY <1>1, <1>2, Prefixed
<1>4. At(d, Len(t) + 0, values)
  BY <1>1, <1>2, AtSelf, AtRight
<1>5. At(d, 1, values)
  BY <1>1, <1>4
<1>6. SubSeq(d, 1 + 1, 1 + Len(values)) = values
  BY <1>3, <1>5, AtSub
<1>7. DecodeRaw(d) = values
  BY <1>1, <1>3, <1>6 DEF DecodeRaw
<1> QED BY <1>3, <1>7 DEF d

\* Either encoding of an Int64 column, whichever is smaller, is undone by
\* DecodeInt64, which tells them apart by the tag.
LEMMA Int64RoundTrip ==
  ASSUME NEW values, Ranged("Int64", values)
  PROVE  EncodeInt64(values) \in Seq(Int) /\ DecodeInt64(EncodeInt64(values)) = values
<1>1. "Int64" \in IntType \cup DateType
  BY DEF IntType
<1>2. values \in Seq(Int)
  BY DEF Ranged
<1>3. CASE ShouldUseRawInt64Encoding(values)
  <2> DEFINE s == EncodeRaw(values)  d == EncodeInt64(values)
  <2>1. s \in Seq(Int) /\ DecodeRaw(s) = values /\ d = <<Raw>> \o s /\ Raw \in Int
    BY <1>2, <1>3, RawRoundTrip DEF EncodeInt64, Raw
  <2> HIDE DEF s, d
  <2>2. d \in Seq(Int) /\ d # <<>> /\ d[1] = Raw /\ Tail(d) = s
    BY <2>1, Prefixed
  <2>3. DecodeInt64(d) = DecodeRaw(s)
    BY <2>2 DEF DecodeInt64
  <2> QED BY <2>1, <2>2, <2>3 DEF d
<1>4. CASE ~ShouldUseRawInt64Encoding(values)
  <2> DEFINE s == EncodeMinBitPacked(values)  d == EncodeInt64(values)
  <2>1. /\ s \in Seq(Int) /\ DecodeMinBitPacked("Int64", s) = values
        /\ d = <<MinBitPacked>> \o s /\ MinBitPacked \in Int
    BY <1>1, <1>4, MinPackedRoundTrip DEF EncodeInt64, MinBitPacked
  <2> HIDE DEF s, d
  <2>2. d \in Seq(Int) /\ d # <<>> /\ d[1] = MinBitPacked /\ Tail(d) = s
    BY <2>1, Prefixed
  <2>3. d[1] # Raw /\ d # <<>> /\ Tail(d) = s
    BY <2>2 DEF Raw, MinBitPacked
  <2>4. DecodeInt64(d) = DecodeMinBitPacked("Int64", s)
    BY <2>3, Zenon DEF DecodeInt64
  <2> QED BY <2>1, <2>2, <2>4 DEF d
<1> QED BY <1>3, <1>4

-----------------------------------------------------------------------------
\* Deltas of dates.

\* The dates, from the first one and the deltas.
Summed(base, s) ==
  FoldLeft(LAMBDA current, delta : Append(current, Last(current) + ZigZagDecode(delta)),
           base, s)

\* F has them as each delta is added.
IsSummed(F, base, s, n) ==
  /\ F[0] = base
  /\ \A i \in 1 .. n : F[i] = Append(F[i - 1], Last(F[i - 1]) + ZigZagDecode(s[i]))
  /\ Summed(base, s) = F[n]

\* The fold over the deltas adds one after the other.
LEMMA DeltaTrace ==
  ASSUME NEW n \in Nat, NEW base, NEW s, DOMAIN s = 1 .. n
  PROVE  \E F : IsSummed(F, base, s, n)
<1>1. PICK F : Deltas!IsTrace(F, 0, base, s, n)
  BY Induct, Deltas!FoldTrace DEF Numbers!NatInduction, Deltas!NatInduction
<1>2. /\ F[0] = base
      /\ \A i \in 1 .. n : F[i] = Append(F[i - 1], Last(F[i - 1]) + ZigZagDecode(s[i]))
      /\ Deltas!Folded(0, base, s) = F[n]
  BY <1>1 DEF Deltas!IsTrace
<1>3. Summed(base, s) = Deltas!Folded(0, base, s)
  BY DEF Summed, FoldLeft, MapThenFoldSet, Max, Deltas!Folded,
         Deltas!MapThenFoldSet, Deltas!Greatest
<1>4. IsSummed(F, base, s, n)
  BY <1>2, <1>3 DEF IsSummed
<1> QED BY <1>4

\* A difference whose double fits into a word survives zigzag coding.
LEMMA ZigZag ==
  ASSUME NEW d \in Nat, 2 * d < Words, NEW x \in -d .. d
  PROVE  ZigZagEncode(x) \in 0 .. Words - 1 /\ ZigZagDecode(ZigZagEncode(x)) = x
<1>0. Words \in Nat \ {0}
  BY WordFacts
<1>1. CASE x >= 0
  <2>1. 2 * x \in 0 .. Words - 1
    BY <1>0, <1>1
  <2>2. ToWord(2 * x) = 2 * x
    BY <2>1, WordOfValue
  <2> QED BY <1>1, <2>1, <2>2 DEF ZigZagEncode, ZigZagDecode
<1>2. CASE x < 0
  <2>1. -2 * x - 1 \in 0 .. Words - 1
    BY <1>0, <1>2
  <2>2. ToWord(-2 * x - 1) = -2 * x - 1
    BY <2>1, WordOfValue
  <2>3. (-2 * x - 1) % 2 = 1 /\ (-2 * x - 1) \div 2 = -x - 1
    <3> DEFINE q == -x - 1
    <3>1. (2 * q + 1) % 2 = 1 /\ (2 * q + 1) \div 2 = q
      BY Numbers!ModUnique
    <3>2. 2 * q + 1 = -2 * x - 1
      OBVIOUS
    <3> QED BY <3>1, <3>2
  <2> QED BY <1>2, <2>1, <2>2, <2>3 DEF ZigZagEncode, ZigZagDecode
<1> QED BY <1>1, <1>2

\* The delta encoding of a date column is undone by its decoding.
LEMMA DeltaRoundTrip ==
  ASSUME NEW t \in DateType, NEW values, Ranged(t, values)
  PROVE  /\ EncodeDeltaBitPacked(values) \in Seq(Int)
         /\ DecodeDeltaBitPacked(t, EncodeDeltaBitPacked(values)) = values
<1>0. t \in IntType \cup DateType
  OBVIOUS
<1>1. /\ Low[t] \in Int /\ High[t] \in Int /\ Low[t] <= High[t]
      /\ 2 * (High[t] - Low[t]) < Words /\ Words \in Nat \ {0}
  BY <1>0, TypeFacts, WordFacts
<1>2. /\ values \in Seq(Int) /\ Len(values) \in Nat
      /\ \A k \in 1 .. Len(values) : values[k] \in Low[t] .. High[t]
  BY DEF Ranged
<1>3. CASE values = <<>>
  <2>1. EncodeDeltaBitPacked(values) = <<0>>
    BY <1>3 DEF EncodeDeltaBitPacked
  <2>2. DecodeDeltaBitPacked(t, <<0>>) = <<>>
    BY DEF DecodeDeltaBitPacked
  <2>3. <<0>> \in Seq(Int)
    OBVIOUS
  <2> QED BY <1>3, <2>1, <2>2, <2>3
<1>4. CASE Len(values) = 1
  <2>1. values # <<>> /\ values[1] \in Low[t] .. High[t] /\ values[1] \in Int
    <3>1. (values = <<>> /\ Len(values) = 0) \/ (values # <<>> /\ Len(values) \in Nat \ {0})
      BY <1>2, LengthOf, Zenon
    <3>2. 1 \in 1 .. Len(values)
      BY <1>4
    <3>3. values[1] \in Low[t] .. High[t]
      BY <1>2, <3>2
    <3> QED BY <1>1, <1>4, <3>1, <3>3
  <2> DEFINE v == values[1]  d == <<1, v, 0>>
  <2>2. EncodeDeltaBitPacked(values) = d
    BY <1>4, <2>1, Zenon DEF EncodeDeltaBitPacked
  <2>4. d \in Seq(Int) /\ d[1] = 1 /\ d[2] = v
    BY <2>1
  <2> HIDE DEF d
  <2>5. DecodeDeltaBitPacked(t, d) = <<CastTo(t, v)>>
    <3>1. d[1] # 0
      BY <2>4
    <3> QED BY <2>4, <3>1, Zenon DEF DecodeDeltaBitPacked
  <2>3. <<CastTo(t, values[1])>> = values
    <3>1. CastTo(t, values[1]) = values[1]
      BY <1>0, <2>1, CastOfValue
    <3>2. <<values[1]>> = values
      BY <1>2, <1>4
    <3> QED BY <3>1, <3>2
  <2> QED BY <2>2, <2>3, <2>4, <2>5
<1>5. CASE Len(values) > 1
  <2> DEFINE n == Len(values)
             s == [k \in 1 .. n - 1 |-> ZigZagEncode(values[k + 1] - values[k])]
             top == Max(ToSet(s))  run == BitPack(s, GetBitWidth(top))
             data == EncodeDeltaBitPacked(values)
  <2>1. n \in Nat /\ n > 1 /\ n - 1 \in Nat \ {0}
    BY <1>2, <1>5
  <2>2. ASSUME NEW k \in 1 .. n - 1
        PROVE  /\ s[k] \in 0 .. Words - 1
               /\ ZigZagDecode(s[k]) = values[k + 1] - values[k]
    <3> DEFINE x == values[k + 1] - values[k]  d == High[t] - Low[t]
    <3>0. k \in 1 .. n /\ k + 1 \in 1 .. n
      BY <2>1
    <3>1. d \in Nat /\ 2 * d < Words /\ x \in -d .. d
      <4>1. values[k] \in Low[t] .. High[t] /\ values[k + 1] \in Low[t] .. High[t]
        BY <1>2, <3>0
      <4> QED BY <1>1, <4>1
    <3>2. s[k] = ZigZagEncode(x)
      OBVIOUS
    <3> HIDE DEF x, d, s
    <3> QED BY <3>1, <3>2, ZigZag DEF x
  <2>3. /\ s \in Seq(Int) /\ Len(s) = n - 1 /\ s # <<>> /\ DOMAIN s = 1 .. n - 1
    <3> DEFINE m == n - 1
    <3>1. \A k \in 1 .. m : s[k] \in Int
      BY <1>1, <2>2
    <3>2. s \in [1 .. m -> Int]
      BY <3>1
    <3>3. m \in Nat \ {0}
      BY <2>1
    <3> HIDE DEF s, m
    <3>4. s \in Seq(Int) /\ Len(s) = m /\ s # <<>> /\ DOMAIN s = 1 .. m
      BY <3>2, <3>3, SeqOfFunction
    <3> QED BY <3>4 DEF m
  <2>4. data = <<n, values[1], GetBitWidth(top)>> \o run
    BY <1>5, <2>1 DEF EncodeDeltaBitPacked
  <2> HIDE DEF s
  <2>5. IsRun(s)
    BY <2>2, <2>3 DEF IsRun
  <2>6. top \in 0 .. Words - 1 /\ \A k \in 1 .. Len(s) : s[k] <= top
    BY <2>2, <2>3, GreatestIn
  <2> HIDE DEF top
  <2>7. run \in Seq(Int) /\ BitUnpack(run, n - 1, GetBitWidth(top)) = s
    BY <2>3, <2>5, <2>6, RunRoundTrip
  <2>8. GetBitWidth(top) \in Int /\ values[1] \in Int /\ n \in Int
    BY <1>2, <2>1, <2>6, WidthOf
  <2> HIDE DEF run, data
  <2>9. /\ data \in Seq(Int)
        /\ data[1] = n /\ data[2] = values[1] /\ data[3] = GetBitWidth(top)
        /\ SubSeq(data, 4, Len(data)) = run
    BY <2>4, <2>7, <2>8, Rest3
  <2> DEFINE m == n - 1  base == <<values[1]>>
  <2>20. m \in Nat /\ DOMAIN s = 1 .. m
    BY <2>1, <2>3
  <2> HIDE DEF m, base
  <2>19. PICK F : IsSummed(F, base, s, m)
    BY <2>20, DeltaTrace
  <2>10. /\ F[0] = <<values[1]>>
         /\ \A i \in 1 .. n - 1 :
              F[i] = Append(F[i - 1], Last(F[i - 1]) + ZigZagDecode(s[i]))
         /\ Summed(<<values[1]>>, s) = F[n - 1]
    BY <2>19 DEF IsSummed, m, base
  <2>11. DecodeDeltaBitPacked(t, data) = [k \in 1 .. n |-> CastTo(t, F[n - 1][k])]
    <3>0. n # 0 /\ n # 1
      BY <2>1
    <3>1. /\ data[1] = n /\ data[1] # 0 /\ data[1] # 1 /\ data[2] = values[1]
          /\ BitUnpack(SubSeq(data, 4, Len(data)), data[1] - 1, data[3]) = s
      BY <2>7, <2>9, <3>0
    <3> HIDE DEF n
    <3> QED BY <2>10, <3>1 DEF DecodeDeltaBitPacked, Summed
  <2> DEFINE P == {i \in 0 .. n - 1 :
                     /\ F[i] \in Seq(Int) /\ Len(F[i]) = i + 1
                     /\ \A k \in 1 .. i + 1 : F[i][k] = values[k]}
  <2>12. 0 \in P
    <3> DEFINE v == values[1]
    <3>1. <<v>> \in Seq(Int) /\ Len(<<v>>) = 1 /\ <<v>>[1] = v
      BY <2>8
    <3>2. F[0] = <<v>>
      BY <2>10
    <3>4. 0 \in 0 .. n - 1
      BY <2>1
    <3>3. \A k \in 1 .. 0 + 1 : F[0][k] = values[k]
      <4>1. \A k \in 1 .. 0 + 1 : k = 1
        OBVIOUS
      <4>2. F[0][1] = values[1]
        BY <3>1, <3>2
      <4> QED BY <4>1, <4>2
    <3>5. F[0] \in Seq(Int) /\ Len(F[0]) = 0 + 1
      BY <3>1, <3>2
    <3> HIDE DEF v, n
    <3> QED BY <3>3, <3>4, <3>5
  <2>13. ASSUME NEW i \in 0 .. (n - 1) - 1, i \in P PROVE i + 1 \in P
    <3>1. i + 1 \in 1 .. n - 1 /\ (i + 1) - 1 = i /\ i + 1 \in 0 .. n - 1
      BY <2>1
    <3>2. F[i + 1] = Append(F[i], Last(F[i]) + ZigZagDecode(s[i + 1]))
      BY <2>10, <3>1
    <3>3. /\ F[i] \in Seq(Int) /\ Len(F[i]) = i + 1
          /\ \A k \in 1 .. i + 1 : F[i][k] = values[k]
      BY <2>13
    <3>4. Last(F[i]) = values[i + 1]
      BY <3>1, <3>3 DEF Last
    <3> DEFINE v == values[i + 2]
    <3>5. v \in Int /\ Last(F[i]) + ZigZagDecode(s[i + 1]) = v
      <4>1. ZigZagDecode(s[i + 1]) = values[(i + 1) + 1] - values[i + 1]
        BY <2>2, <3>1
      <4>2. (i + 1) + 1 = i + 2 /\ i + 2 \in 1 .. n /\ i + 1 \in 1 .. n
        BY <2>1
      <4>3. values[i + 2] \in Int /\ values[i + 1] \in Int
        BY <1>2, <4>2
      <4> QED BY <3>4, <4>1, <4>2, <4>3
    <3> HIDE DEF v
    <3>6. F[i + 1] = Append(F[i], v)
      BY <3>2, <3>5
    <3>7. F[i + 1] \in Seq(Int) /\ Len(F[i + 1]) = (i + 1) + 1
      BY <3>3, <3>5, <3>6
    <3>8. ASSUME NEW k \in 1 .. (i + 1) + 1 PROVE F[i + 1][k] = values[k]
      <4>1. CASE k = i + 2
        BY <3>3, <3>5, <3>6, <4>1 DEF v
      <4>2. CASE k \in 1 .. i + 1
        BY <3>3, <3>5, <3>6, <4>2
      <4> QED BY <4>1, <4>2
    <3> QED BY <3>1, <3>7, <3>8
  <2> HIDE DEF P
  <2>14. n - 1 \in P
    <3> DEFINE last == n - 1
    <3>1. last \in Nat /\ \A i \in 0 .. last - 1 : i \in P => i + 1 \in P
      BY <2>1, <2>13
    <3> HIDE DEF last
    <3>2. 0 .. last \subseteq P
      BY <2>12, <3>1, Induct, Numbers!UpTo
    <3>3. last \in P
      BY <3>1, <3>2
    <3> QED BY <3>3 DEF last
  <2>15. \A k \in 1 .. n : F[n - 1][k] = values[k]
    BY <2>1, <2>14 DEF P
  <2>16. \A k \in 1 .. n : CastTo(t, F[n - 1][k]) = values[k]
    BY <1>0, <1>2, <2>15, CastOfValue
  <2>17. values = [k \in 1 .. n |-> values[k]]
    BY <1>2
  <2>18. DecodeDeltaBitPacked(t, data) = values
    BY <2>11, <2>16, <2>17
  <2> QED BY <2>9, <2>18 DEF data
<1>6. values = <<>> \/ Len(values) = 1 \/ Len(values) > 1
  <2>1. (values = <<>> /\ Len(values) = 0) \/ (values # <<>> /\ Len(values) \in Nat \ {0})
    BY <1>2, LengthOf, Zenon
  <2> DEFINE n == Len(values)
  <2>2. values = <<>> \/ n \in Nat \ {0}
    BY <2>1
  <2> HIDE DEF n
  <2>3. values = <<>> \/ n = 1 \/ n > 1
    BY <2>2
  <2> QED BY <2>3 DEF n
<1> QED BY <1>3, <1>4, <1>5, <1>6

-----------------------------------------------------------------------------
\* Texts in a file.

\* What lies behind the first p elements.
Behind(s, p) == SubSeq(s, p + 1, Len(s))

\* b has what lies in s behind the first p elements.
IsRest(b, s, p) ==
  /\ b \in Seq(Int) /\ Len(b) = Len(s) - p
  /\ \A j \in 1 .. Len(s) - p : b[j] = s[p + j]

\* Behind(s, p) has what lies there.
LEMMA BehindFacts ==
  ASSUME NEW s \in Seq(Int), NEW p \in Nat, p <= Len(s)
  PROVE  IsRest(Behind(s, p), s, p)
<1>1. p + 1 \in 1 .. Len(s) + 1 /\ Len(s) \in Nat
  OBVIOUS
<1>2. Behind(s, p) \in Seq(Int)
  BY <1>1, SubSeqProperties DEF Behind
<1>3. Len(Behind(s, p)) = Len(s) - p
  BY <1>1, SubSeqProperties DEF Behind
<1>4. \A j \in 1 .. Len(s) - p : Behind(s, p)[j] = s[p + j]
  BY <1>1 DEF Behind
<1> QED BY <1>2, <1>3, <1>4 DEF IsRest

\* To pass p elements and then q is to pass p + q.
LEMMA BehindBehind ==
  ASSUME NEW s \in Seq(Int), NEW p \in Nat, NEW q \in Nat, p + q <= Len(s)
  PROVE  Behind(Behind(s, p), q) = Behind(s, p + q)
<1> DEFINE b == Behind(s, p)  c == Behind(b, q)  d == Behind(s, p + q)
<1>0. Len(s) \in Nat /\ p <= Len(s) /\ p + q \in Nat
  OBVIOUS
<1>1. /\ b \in Seq(Int) /\ Len(b) = Len(s) - p
      /\ \A j \in 1 .. Len(s) - p : b[j] = s[p + j]
  BY <1>0, BehindFacts DEF IsRest
<1> HIDE DEF b
<1>2. /\ c \in Seq(Int) /\ Len(c) = Len(b) - q
      /\ \A j \in 1 .. Len(b) - q : c[j] = b[q + j]
  <2>1. q <= Len(b)
    BY <1>0, <1>1
  <2> QED BY <1>1, <2>1, BehindFacts DEF IsRest
<1>3. /\ d \in Seq(Int) /\ Len(d) = Len(s) - (p + q)
      /\ \A j \in 1 .. Len(s) - (p + q) : d[j] = s[p + q + j]
  BY <1>0, BehindFacts DEF IsRest
<1> HIDE DEF c, d
<1>4. Len(c) = Len(d)
  BY <1>0, <1>1, <1>2, <1>3
<1>5. ASSUME NEW j \in 1 .. Len(c) PROVE c[j] = d[j]
  <2>1. j \in 1 .. Len(b) - q /\ q + j \in 1 .. Len(s) - p /\ j \in 1 .. Len(s) - (p + q)
        /\ p + (q + j) = p + q + j
    BY <1>0, <1>1, <1>2
  <2> QED BY <1>1, <1>2, <1>3, <2>1
<1>6. Matches(c, d)
  BY <1>4, <1>5 DEF Matches
<1>7. c = d
  BY <1>2, <1>3, <1>6, MatchEqual
<1> QED BY <1>7 DEF b, c, d

\* What lies behind the first p elements is at the front of the rest.
LEMMA FrontOfBehind ==
  ASSUME NEW s \in Seq(Int), NEW t \in Seq(Int), NEW p, At(s, p, t)
  PROVE  SubSeq(Behind(s, p), 1, Len(t)) = t
<1> DEFINE b == Behind(s, p)
<1>0. p \in Nat /\ Len(t) \in Nat /\ Len(s) \in Nat /\ p + Len(t) <= Len(s) /\ p <= Len(s)
  BY DEF At
<1>1. /\ b \in Seq(Int) /\ Len(b) = Len(s) - p
      /\ \A j \in 1 .. Len(s) - p : b[j] = s[p + j]
  BY <1>0, BehindFacts DEF IsRest
<1> HIDE DEF b
<1>2. At(b, 0, t)
  BY <1>0, <1>1 DEF At
<1>3. SubSeq(b, 0 + 1, 0 + Len(t)) = t
  BY <1>1, <1>2, AtSub
<1> QED BY <1>0, <1>3 DEF b

\* Tail passes one element, Head is the one it passes.
LEMMA TailIsBehind ==
  ASSUME NEW s \in Seq(Int), s # <<>>
  PROVE  Tail(s) = Behind(s, 1) /\ Head(s) = s[1]
BY DEF Behind

\* TakeString takes the text that lies there and passes it.
LEMMA TakeAt ==
  ASSUME NEW s \in Seq(Int), NEW t \in Seq(Int), NEW p, At(s, p, t)
  PROVE  TakeString(Behind(s, p), Len(t)) = [string |-> t, rest |-> Behind(s, p + Len(t))]
<1>0. p \in Nat /\ Len(t) \in Nat /\ p + Len(t) <= Len(s)
  BY DEF At
<1>1. SubSeq(Behind(s, p), 1, Len(t)) = t
  BY FrontOfBehind
<1>2. SubSeq(Behind(s, p), Len(t) + 1, Len(Behind(s, p))) = Behind(s, p + Len(t))
  BY <1>0, BehindBehind DEF Behind
<1> QED BY <1>1, <1>2 DEF TakeString

\* A length and a text of that length.
Entry(t) == <<Len(t)>> \o t

\* An entry is one element longer than its text.
LEMMA EntryType ==
  ASSUME NEW t \in Seq(Int)
  PROVE  Entry(t) \in Seq(Int) /\ Len(Entry(t)) = Len(t) + 1
BY DEF Entry

\* A reader takes the length, then the text, and is behind the entry.
LEMMA TakeEntry ==
  ASSUME NEW s \in Seq(Int), NEW t \in Seq(Int), NEW p, At(s, p, Entry(t))
  PROVE  /\ Behind(s, p)[1] = Len(t) /\ Head(Behind(s, p)) = Len(t)
         /\ TakeString(Tail(Behind(s, p)), Len(t))
              = [string |-> t, rest |-> Behind(s, p + Len(Entry(t)))]
<1> DEFINE e == Entry(t)  n == Len(t)
<1>1. e \in Seq(Int) /\ Len(e) = n + 1 /\ n \in Nat /\ e[1] = n
      /\ At(e, 1, t)
  <2>1. <<n>> \in Seq(Int) /\ Len(<<n>>) = 1 /\ n \in Nat
    OBVIOUS
  <2>2. e = <<n>> \o t
    BY DEF Entry
  <2>3. At(e, Len(<<n>>) + 0, t)
    BY <2>1, <2>2, AtSelf, AtRight
  <2> HIDE DEF e
  <2>4. e \in Seq(Int) /\ Len(e) = 1 + n /\ e[1] = n
    BY <2>1, <2>2, Prefixed
  <2> QED BY <2>1, <2>3, <2>4
<1> HIDE DEF e
<1>2. p \in Nat /\ p + (n + 1) <= Len(s) /\ s[p + 1] = n /\ Len(s) \in Nat
  <2>1. 1 \in 1 .. Len(e)
    BY <1>1
  <2> QED BY <1>1, <2>1 DEF At, e
<1>3. At(s, p + 1, t)
  BY <1>1, AtInner DEF e
<1>4. Behind(s, p) \in Seq(Int) /\ Len(Behind(s, p)) = Len(s) - p /\ Behind(s, p)[1] = s[p + 1]
  <2>1. p <= Len(s) /\ 1 \in 1 .. Len(s) - p
    BY <1>1, <1>2
  <2> QED BY <1>2, <2>1, BehindFacts DEF IsRest
<1>5. Behind(s, p) # <<>>
  BY <1>1, <1>2, <1>4
<1>6. Tail(Behind(s, p)) = Behind(s, p + 1)
  <2>1. Tail(Behind(s, p)) = Behind(Behind(s, p), 1)
    BY <1>4, <1>5, TailIsBehind
  <2>2. p + 1 <= Len(s)
    BY <1>1, <1>2
  <2> QED BY <1>2, <2>1, <2>2, BehindBehind
<1>7. TakeString(Behind(s, p + 1), n) = [string |-> t, rest |-> Behind(s, (p + 1) + n)]
  BY <1>3, TakeAt
<1>8. (p + 1) + n = p + (n + 1)
  BY <1>1, <1>2
<1> QED BY <1>1, <1>2, <1>4, <1>5, <1>6, <1>7, <1>8, TailIsBehind DEF e

-----------------------------------------------------------------------------
\* The dictionary encoding.

\* The fold that collects the texts of a dictionary.
Distinct == INSTANCE ProofRules
  WITH Op <- LAMBDA e, d, s : IF Contains(d, s) THEN d ELSE Append(d, s),
       Val <- LAMBDA a, b, x : x

\* The texts: sequences of characters.
Texts == Seq(Int)

\* F has the dictionaries of the first 0, 1, .. texts.
IsDistinct(F, s, n) ==
  /\ F[0] = <<>>
  /\ \A i \in 1 .. n : F[i] = IF Contains(F[i - 1], s[i]) THEN F[i - 1]
                                                         ELSE Append(F[i - 1], s[i])
  /\ Dictionary(s) = F[n]

\* The fold of Dictionary takes one text after the other.
LEMMA DistinctTrace ==
  ASSUME NEW n \in Nat, NEW s, DOMAIN s = 1 .. n
  PROVE  \E F : IsDistinct(F, s, n)
<1> DEFINE base == <<>>
<1> HIDE DEF base
<1>1. PICK F : Distinct!IsTrace(F, 0, base, s, n)
  BY Induct, Distinct!FoldTrace DEF Numbers!NatInduction, Distinct!NatInduction
<1>2. /\ F[0] = base
      /\ \A i \in 1 .. n : F[i] = IF Contains(F[i - 1], s[i]) THEN F[i - 1]
                                                         ELSE Append(F[i - 1], s[i])
      /\ Distinct!Folded(0, base, s) = F[n]
  BY <1>1 DEF Distinct!IsTrace
<1>3. Dictionary(s) = Distinct!Folded(0, base, s)
  BY DEF Dictionary, base, FoldLeft, MapThenFoldSet, Max, Distinct!Folded,
         Distinct!MapThenFoldSet, Distinct!Greatest
<1>4. IsDistinct(F, s, n)
  BY <1>2, <1>3 DEF IsDistinct, base
<1> QED BY <1>4

\* d holds the first n of the strings.
Holds(d, s, n) ==
  /\ d \in Seq(Texts) /\ Len(d) <= n /\ (n > 0 => Len(d) > 0)
  /\ \A k \in 1 .. n : \E j \in 1 .. Len(d) : d[j] = s[k]

\* Contains says whether a text is in the dictionary.
LEMMA ContainsIs ==
  ASSUME NEW d \in Seq(Texts), NEW x
  PROVE  Contains(d, x) <=> \E j \in 1 .. Len(d) : d[j] = x
BY DEF Contains

\* The dictionary of a column holds all its texts.
LEMMA DictionaryHolds ==
  ASSUME NEW s \in Seq(Texts)
  PROVE  Holds(Dictionary(s), s, Len(s))
<1> DEFINE n == Len(s)
<1>1. n \in Nat /\ DOMAIN s = 1 .. n
  OBVIOUS
<1> HIDE DEF n
<1>2. PICK F : IsDistinct(F, s, n)
  BY <1>1, DistinctTrace
<1> DEFINE P == {i \in 0 .. n : Holds(F[i], s, i)}
<1>3. 0 \in P
  <2>1. F[0] = <<>>
    BY <1>2 DEF IsDistinct
  <2>2. <<>> \in Seq(Texts) /\ Len(<<>>) = 0
    OBVIOUS
  <2>3. Holds(F[0], s, 0)
    BY <2>1, <2>2 DEF Holds
  <2> QED BY <1>1, <2>3
<1>4. ASSUME NEW i \in 0 .. n - 1, i \in P PROVE i + 1 \in P
  <2>0. i + 1 \in 1 .. n /\ i + 1 \in 0 .. n /\ (i + 1) - 1 = i /\ i \in Nat
    BY <1>1
  <2>1. F[i + 1] = IF Contains(F[i], s[i + 1]) THEN F[i] ELSE Append(F[i], s[i + 1])
    BY <1>2, <2>0 DEF IsDistinct
  <2> DEFINE d == F[i]  e == F[i + 1]  x == s[i + 1]
  <2>2. Holds(d, s, i) /\ x \in Texts
    <3>1. x \in Texts
      BY <2>0, ElementOfSeq DEF n
    <3> QED BY <1>4, <3>1
  <2>3. d \in Seq(Texts) /\ Len(d) <= i /\ Len(d) \in Nat
        /\ \A k \in 1 .. i : \E j \in 1 .. Len(d) : d[j] = s[k]
    BY <2>2 DEF Holds
  <2>4. CASE Contains(d, x)
    <3>1. e = d /\ \E j \in 1 .. Len(d) : d[j] = x
      BY <2>1, <2>3, <2>4, ContainsIs
    <3> HIDE DEF d, e
    <3>2. \A k \in 1 .. i + 1 : \E j \in 1 .. Len(d) : d[j] = s[k]
      <4> TAKE k \in 1 .. i + 1
      <4>1. k \in 1 .. i \/ k = i + 1
        BY <2>0
      <4> QED BY <2>3, <3>1, <4>1
    <3>3. Len(d) > 0 /\ Len(d) <= i + 1
      BY <2>0, <2>3, <3>1
    <3>4. Holds(e, s, i + 1)
      BY <2>3, <3>1, <3>2, <3>3 DEF Holds
    <3> QED BY <2>0, <3>4 DEF e
  <2>5. CASE ~Contains(d, x)
    <3>1. e = Append(d, x)
      BY <2>1, <2>5
    <3> HIDE DEF d, e, x
    <3>2. /\ e \in Seq(Texts) /\ Len(e) = Len(d) + 1 /\ e[Len(e)] = x
          /\ \A j \in 1 .. Len(d) : e[j] = d[j]
      BY <2>2, <2>3, <3>1
    <3>3. ASSUME NEW k \in 1 .. i + 1 PROVE \E j \in 1 .. Len(e) : e[j] = s[k]
      <4>1. CASE k = i + 1
        <5>1. Len(e) \in 1 .. Len(e) /\ e[Len(e)] = s[k]
          BY <2>3, <3>2, <4>1 DEF x
        <5> QED BY <5>1
      <4>2. CASE k # i + 1
        <5>1. PICK j \in 1 .. Len(d) : d[j] = s[k]
          BY <2>0, <2>3, <4>2
        <5>2. j \in 1 .. Len(e) /\ e[j] = s[k]
          BY <2>3, <3>2, <5>1
        <5> QED BY <5>2
      <4> QED BY <4>1, <4>2
    <3>4. Len(e) > 0 /\ Len(e) <= i + 1
      BY <2>0, <2>3, <3>2
    <3>5. Holds(e, s, i + 1)
      BY <3>2, <3>3, <3>4 DEF Holds
    <3> QED BY <2>0, <3>5 DEF e
  <2> QED BY <2>4, <2>5
<1> HIDE DEF P
<1>5. n \in P
  <2>1. 0 .. n \subseteq P
    BY <1>1, <1>3, <1>4, Induct, Numbers!UpTo
  <2> QED BY <1>1, <2>1
<1>6. Holds(F[n], s, n) /\ Dictionary(s) = F[n]
  BY <1>2, <1>5 DEF P, IsDistinct
<1> QED BY <1>6 DEF n

\* What has been read of a sequence of entries.
TakeEntryOf(acc, n) ==
  LET t == TakeString(Tail(acc.rest), Head(acc.rest))
  IN [dictionary |-> Append(acc.dictionary, t.string), rest |-> t.rest]

\* The fold that reads the dictionary back.
Entries == INSTANCE ProofRules
  WITH Op <- LAMBDA e, acc, n : TakeEntryOf(acc, n),
       Val <- LAMBDA a, b, x : x

\* What it has read at the end.
EntriesRead(base, s) == FoldLeft(LAMBDA acc, n : TakeEntryOf(acc, n), base, s)

\* F has what is read after each entry.
IsRead(F, base, n) ==
  /\ F[0] = base
  /\ \A i \in 1 .. n : F[i] = TakeEntryOf(F[i - 1], i)
  /\ EntriesRead(base, [k \in 1 .. n |-> k]) = F[n]

\* The fold reads one entry after the other.
LEMMA ReadTrace ==
  ASSUME NEW n \in Nat, NEW base
  PROVE  \E F : IsRead(F, base, n)
<1> DEFINE s == [k \in 1 .. n |-> k]
<1>1. DOMAIN s = 1 .. n /\ \A i \in 1 .. n : s[i] = i
  OBVIOUS
<1> HIDE DEF s
<1>2. PICK F : Entries!IsTrace(F, 0, base, s, n)
  BY <1>1, Induct, Entries!FoldTrace DEF Numbers!NatInduction, Entries!NatInduction
<1>3. /\ F[0] = base
      /\ \A i \in 1 .. n : F[i] = TakeEntryOf(F[i - 1], s[i])
      /\ Entries!Folded(0, base, s) = F[n]
  BY <1>2 DEF Entries!IsTrace
<1>4. EntriesRead(base, s) = Entries!Folded(0, base, s)
  BY DEF EntriesRead, FoldLeft, MapThenFoldSet, Max, Entries!Folded,
         Entries!MapThenFoldSet, Entries!Greatest
<1>5. \A i \in 1 .. n : F[i] = TakeEntryOf(F[i - 1], i)
  BY <1>1, <1>3
<1>6. IsRead(F, base, n)
  BY <1>3, <1>4, <1>5 DEF IsRead, s
<1> QED BY <1>6

\* DecodeStringDictionary reads the entries, then the ids behind them.
LEMMA DecodeDictionaryIs ==
  ASSUME NEW data, NEW count
  PROVE  DecodeStringDictionary(data, count)
           = LET read == EntriesRead([dictionary |-> <<>>, rest |-> Tail(data)],
                                     [n \in 1 .. data[1] |-> n])
                 ids == BitUnpack(Tail(read.rest), count, Head(read.rest))
             IN [k \in 1 .. count |-> read.dictionary[ids[k] + 1]]
BY DEF DecodeStringDictionary, EntriesRead, TakeEntryOf

\* Entries of the texts of d, one behind the other.
EntriesOf(d) == [n \in DOMAIN d |-> Entry(d[n])]

\* Every text of the dictionary has its entry.
LEMMA EntriesType ==
  ASSUME NEW d \in Seq(Texts)
  PROVE  /\ EntriesOf(d) \in Seq(Seq(Int)) /\ Len(EntriesOf(d)) = Len(d)
         /\ \A n \in 1 .. Len(d) : EntriesOf(d)[n] = Entry(d[n])
<1> DEFINE m == Len(d)  f == EntriesOf(d)
<1>1. m \in Nat /\ DOMAIN d = 1 .. m
  OBVIOUS
<1>2. \A n \in 1 .. m : Entry(d[n]) \in Seq(Int)
  <2> TAKE n \in 1 .. m
  <2>1. d[n] \in Seq(Int)
    BY ElementOfSeq DEF Texts
  <2> QED BY <2>1, EntryType
<1>3. f = [n \in 1 .. m |-> Entry(d[n])]
  BY <1>1 DEF EntriesOf
<1>4. f \in [1 .. m -> Seq(Int)]
  BY <1>2, <1>3
<1> HIDE DEF f, m
<1>5. f \in Seq(Seq(Int)) /\ Len(f) = m
  BY <1>1, <1>4, SeqOfFunction
<1>6. \A n \in 1 .. m : f[n] = Entry(d[n])
  BY <1>3
<1> QED BY <1>5, <1>6 DEF f, m

\* The first n texts of d, and what is behind them.
HasRead(acc, d, n, rest) ==
  /\ acc.dictionary \in Seq(Texts) /\ Len(acc.dictionary) = n
  /\ \A k \in 1 .. n : acc.dictionary[k] = d[k]
  /\ acc.rest = rest

\* Reading the next entry adds its text.
LEMMA TakeEntryStep ==
  ASSUME NEW data \in Seq(Int), NEW d \in Seq(Texts), NEW acc, NEW n \in 1 .. Len(d),
         NEW p, HasRead(acc, d, n - 1, Behind(data, p)), At(data, p, Entry(d[n]))
  PROVE  HasRead(TakeEntryOf(acc, n), d, n, Behind(data, p + Len(Entry(d[n]))))
<1> DEFINE t == d[n]  u == TakeString(Tail(acc.rest), Head(acc.rest))
           new == TakeEntryOf(acc, n)  r == Behind(data, p + Len(Entry(t)))
<1>1. t \in Seq(Int)
  BY ElementOfSeq DEF Texts
<1>2. acc.rest = Behind(data, p) /\ acc.dictionary \in Seq(Texts)
      /\ Len(acc.dictionary) = n - 1
      /\ \A k \in 1 .. n - 1 : acc.dictionary[k] = d[k]
  BY DEF HasRead
<1>3. u = [string |-> t, rest |-> r]
  <2>1. Head(acc.rest) = Len(t)
    BY <1>1, <1>2, TakeEntry
  <2> QED BY <1>1, <1>2, <2>1, TakeEntry
<1> HIDE DEF r, u
<1>4. new = [dictionary |-> Append(acc.dictionary, t), rest |-> r]
  <2>1. new = [dictionary |-> Append(acc.dictionary, u.string), rest |-> u.rest]
    BY DEF TakeEntryOf, u
  <2>2. u.string = t /\ u.rest = r
    BY <1>3
  <2> QED BY <2>1, <2>2
<1> DEFINE e == Append(acc.dictionary, t)
<1>5. new.dictionary = e /\ new.rest = r
  BY <1>4
<1>6. e \in Seq(Texts) /\ Len(e) = n
  BY <1>1, <1>2 DEF Texts
<1>7. ASSUME NEW k \in 1 .. n PROVE e[k] = d[k]
  <2>1. CASE k = n
    <3>1. e[(n - 1) + 1] = t
      BY <1>1, <1>2
    <3>2. (n - 1) + 1 = n
      OBVIOUS
    <3> QED BY <2>1, <3>1, <3>2
  <2>2. CASE k \in 1 .. n - 1
    BY <1>1, <1>2, <2>2
  <2>3. k = n \/ k \in 1 .. n - 1
    OBVIOUS
  <2> QED BY <2>1, <2>2, <2>3, Zenon
<1> HIDE DEF e, new
<1>8. HasRead(new, d, n, r)
  BY <1>5, <1>6, <1>7 DEF HasRead
<1> QED BY <1>8 DEF new, r

\* Reading all entries gives the dictionary, and what is behind them.
LEMMA ReadEntries ==
  ASSUME NEW data \in Seq(Int), NEW d \in Seq(Texts), NEW p, NEW base,
         base = [dictionary |-> <<>>, rest |-> Behind(data, p)],
         At(data, p, FlattenSeq(EntriesOf(d)))
  PROVE  EntriesRead(base, [k \in 1 .. Len(d) |-> k])
           = [dictionary |-> d, rest |-> Behind(data, p + Len(FlattenSeq(EntriesOf(d))))]
<1> DEFINE m == Len(d)  es == EntriesOf(d)
<1>1. m \in Nat
  OBVIOUS
<1>2. es \in Seq(Seq(Int)) /\ Len(es) = m /\ \A n \in 1 .. m : es[n] = Entry(d[n])
  BY EntriesType
<1> HIDE DEF es
<1>3. PICK G : IsFlat(G, es, Int) /\ FlattenSeq(es) = G[Len(es)]
  BY <1>2, FlattenTrace
<1>4. /\ G \in [0 .. m -> Seq(Int)] /\ G[0] = <<>> /\ FlattenSeq(es) = G[m]
      /\ IsFlat(G, es, Int)
  BY <1>2, <1>3 DEF IsFlat
<1>5. PICK F : IsRead(F, base, m)
  BY <1>1, ReadTrace
<1>6. /\ F[0] = base
      /\ \A i \in 1 .. m : F[i] = TakeEntryOf(F[i - 1], i)
      /\ EntriesRead(base, [k \in 1 .. m |-> k]) = F[m]
  BY <1>5 DEF IsRead
<1>7. At(data, p, G[m]) /\ p \in Nat
  BY <1>4 DEF At, es
<1> DEFINE P == {i \in 0 .. m : HasRead(F[i], d, i, Behind(data, p + Len(G[i])))}
<1>8. 0 \in P
  <2>1. p + Len(G[0]) = p
    BY <1>4, <1>7
  <2>2. <<>> \in Seq(Texts) /\ Len(<<>>) = 0
    OBVIOUS
  <2>3. F[0].dictionary = <<>> /\ F[0].rest = Behind(data, p)
    BY <1>6
  <2>4. HasRead(F[0], d, 0, Behind(data, p))
    BY <2>2, <2>3 DEF HasRead
  <2> QED BY <1>1, <2>1, <2>4
<1>9. ASSUME NEW i \in 0 .. m - 1, i \in P PROVE i + 1 \in P
  <2> DEFINE n == i + 1
  <2>1. n \in 1 .. m /\ n \in 0 .. m /\ n - 1 = i /\ n \in 1 .. Len(es)
    BY <1>1, <1>2
  <2>2. At(G[m], Len(G[i]), es[n]) /\ Len(G[n]) = Len(G[i]) + Len(es[n])
    BY <1>2, <1>4, <2>1, FlatAt
  <2>3. G[m] \in Seq(Int) /\ es[n] \in Seq(Int) /\ G[i] \in Seq(Int)
    <3>1. m \in 0 .. m /\ i \in 0 .. m
      BY <1>1
    <3>2. es[n] \in Seq(Int)
      BY <1>2, <2>1, ElementOfSeq
    <3> QED BY <1>4, <3>1, <3>2
  <2> DEFINE q == p + Len(G[i])
  <2>4. At(data, q, es[n])
    BY <1>7, <2>2, <2>3, AtInner
  <2>5. q + Len(es[n]) = p + Len(G[n]) /\ es[n] = Entry(d[n])
    <3> DEFINE a == Len(G[i])  b == Len(es[n])
    <3>1. a \in Nat /\ b \in Nat
      BY <2>3
    <3>2. p + Len(G[n]) = p + (a + b)
      BY <2>2, Zenon
    <3>3. p + (a + b) = (p + a) + b
      <4> HIDE DEF a, b
      <4> QED BY <1>7, <3>1
    <3> QED BY <1>2, <2>1, <3>2, <3>3
  <2>6. HasRead(F[i], d, n - 1, Behind(data, q))
    BY <1>9, <2>1
  <2>7. F[n] = TakeEntryOf(F[i], n)
    BY <1>6, <2>1
  <2> HIDE DEF q, n
  <2>8. HasRead(F[n], d, n, Behind(data, q + Len(Entry(d[n]))))
    <3>1. n \in 1 .. Len(d)
      BY <2>1
    <3> QED BY <2>4, <2>5, <2>6, <2>7, <3>1, TakeEntryStep
  <2>9. HasRead(F[n], d, n, Behind(data, p + Len(G[n])))
    BY <2>5, <2>8
  <2> QED BY <2>1, <2>9 DEF n
<1> HIDE DEF P
<1>10. m \in P
  <2> HIDE DEF m
  <2>1. 0 .. m \subseteq P
    BY <1>1, <1>8, <1>9, Induct, Numbers!UpTo
  <2> QED BY <1>1, <2>1
<1> DEFINE r == Behind(data, p + Len(G[m]))
<1>11. HasRead(F[m], d, m, r)
  BY <1>10 DEF P
<1>12. F[m].dictionary = d /\ F[m].rest = r
  <2>1. /\ F[m].dictionary \in Seq(Texts) /\ Len(F[m].dictionary) = Len(d)
        /\ \A k \in 1 .. m : F[m].dictionary[k] = d[k]
        /\ F[m].rest = r
    BY <1>11 DEF HasRead
  <2>2. Matches(F[m].dictionary, d)
    BY <2>1 DEF Matches
  <2> QED BY <2>1, <2>2, MatchEqual
<1>13. F[m] = [dictionary |-> F[m].dictionary, rest |-> F[m].rest]
  <2>1. CASE m = 0
    BY <1>6, <2>1
  <2>2. CASE m # 0
    <3>1. F[m] = TakeEntryOf(F[m - 1], m)
      BY <1>1, <1>6, <2>2
    <3> QED BY <3>1 DEF TakeEntryOf
  <2> QED BY <2>1, <2>2
<1> QED BY <1>4, <1>6, <1>12, <1>13 DEF es

\* b and c lie in s behind a, and nothing behind them.
IsLaid(s, a, b, c) ==
  /\ Len(s) = Len(a) + Len(b) + Len(c)
  /\ At(s, Len(a), b) /\ At(s, Len(a) + Len(b), c)

\* A concatenation of three has its parts one behind the other.
LEMMA Laid ==
  ASSUME NEW S, NEW a \in Seq(S), NEW b \in Seq(S), NEW c \in Seq(S)
  PROVE  a \o b \o c \in Seq(S) /\ IsLaid(a \o b \o c, a, b, c)
<1> DEFINE s == a \o b \o c
<1> DEFINE ab == a \o b
<1>0. s = ab \o c
  OBVIOUS
<1> HIDE DEF s
<1>1. ab \in Seq(S) /\ Len(ab) = Len(a) + Len(b) /\ s = ab \o c
      /\ Len(a) \in Nat /\ Len(b) \in Nat
  BY <1>0
<1>2. At(ab, Len(a) + 0, b)
  BY AtSelf, AtRight
<1> HIDE DEF ab
<1>3. s \in Seq(S) /\ Len(s) = Len(ab) + Len(c)
  BY <1>1, ConcatProperties
<1>4. At(s, Len(ab) + 0, c)
  BY <1>1, AtSelf, AtRight
<1>5. At(s, Len(a) + 0, b)
  BY <1>1, <1>2, AtLeft
<1>6. Len(a) + 0 = Len(a) /\ Len(ab) + 0 = Len(a) + Len(b)
  BY <1>1
<1> QED BY <1>1, <1>3, <1>4, <1>5, <1>6 DEF IsLaid, s

\* The dictionary encoding of a text column is undone by its decoding.
LEMMA DictionaryRoundTrip ==
  ASSUME NEW values \in Seq(Texts), values # <<>>, Len(values) <= Words
  PROVE  /\ EncodeStringDictionary(values) \in Seq(Int)
         /\ DecodeStringDictionary(EncodeStringDictionary(values), Len(values)) = values
<1> DEFINE n == Len(values)  d == Dictionary(values)  m == Len(d)
           ids == [k \in DOMAIN values |-> (CHOOSE j \in DOMAIN d : d[j] = values[k]) - 1]
           width == GetBitWidth(m - 1)
           flat == FlattenSeq(EntriesOf(d))
           run == BitPack(ids, width)
           data == EncodeStringDictionary(values)
<1>1. n \in Nat \ {0} /\ DOMAIN values = 1 .. n /\ n <= Words /\ Words \in Nat
  BY LengthOf, WordFacts
<1>2. /\ d \in Seq(Texts) /\ m \in Nat /\ m <= n /\ m > 0
      /\ \A k \in 1 .. n : \E j \in 1 .. m : d[j] = values[k]
  BY <1>1, DictionaryHolds DEF Holds
<1>3. data = <<m>> \o flat \o <<width>> \o run
  BY DEF EncodeStringDictionary, EntriesOf, Entry
<1>4. ASSUME NEW k \in 1 .. n
      PROVE  ids[k] \in 0 .. m - 1 /\ d[ids[k] + 1] = values[k]
  <2>1. \E j \in DOMAIN d : d[j] = values[k]
    BY <1>2
  <2> DEFINE j == CHOOSE j \in DOMAIN d : d[j] = values[k]
  <2>2. j \in DOMAIN d /\ d[j] = values[k]
    BY <2>1
  <2>3. ids[k] = j - 1
    BY <1>1
  <2>4. DOMAIN d = 1 .. m
    BY <1>2
  <2> HIDE DEF j, ids, d, m
  <2>5. (j - 1) + 1 = j /\ j - 1 \in 0 .. m - 1
    BY <1>2, <2>2, <2>4
  <2> QED BY <2>2, <2>3, <2>5
<1>5. ids \in Seq(Int) /\ Len(ids) = n
  <2>1. ids = [k \in 1 .. n |-> ids[k]]
    BY <1>1
  <2> HIDE DEF ids
  <2>2. \A k \in 1 .. n : ids[k] \in Int
    BY <1>4
  <2> HIDE DEF n
  <2>3. ids \in [1 .. n -> Int]
    BY <2>1, <2>2
  <2> QED BY <1>1, <2>3, SeqOfFunction
<1> HIDE DEF ids, d, data
<1>6. m - 1 \in 0 .. Words - 1
  BY <1>1, <1>2
<1>7. IsRun(ids) /\ \A k \in 1 .. Len(ids) : ids[k] <= m - 1
  <2> DEFINE top == m - 1
  <2>1. \A k \in 1 .. n : ids[k] \in 0 .. top
    BY <1>4
  <2>2. top \in 0 .. Words - 1 /\ Words \in Nat
    BY <1>1, <1>6
  <2>3. \A k \in 1 .. n : ids[k] \in 0 .. Words - 1 /\ ids[k] <= top
    <3> HIDE DEF top
    <3> QED BY <2>1, <2>2
  <2> QED BY <1>5, <2>3 DEF IsRun
<1>8. run \in Seq(Int) /\ BitUnpack(run, n, width) = ids
  <2> DEFINE top == m - 1
  <2> HIDE DEF top
  <2>1. top \in 0 .. Words - 1 /\ \A k \in 1 .. Len(ids) : ids[k] <= top
    BY <1>6, <1>7 DEF top
  <2>2. width = GetBitWidth(top)
    BY DEF top
  <2> QED BY <1>5, <1>7, <2>1, <2>2, RunRoundTrip
<1>9. width \in Int
  BY <1>6, WidthOf
<1>10. flat \in Seq(Int)
  <2> DEFINE es == EntriesOf(d)
  <2>1. es \in Seq(Seq(Int)) /\ Len(es) \in 0 .. Len(es)
    BY <1>2, EntriesType
  <2> HIDE DEF es
  <2>2. PICK G : IsFlat(G, es, Int) /\ FlattenSeq(es) = G[Len(es)]
    BY <2>1, FlattenTrace
  <2>3. G[Len(es)] \in Seq(Int)
    BY <2>1, <2>2 DEF IsFlat
  <2> QED BY <2>2, <2>3 DEF es
<1> HIDE DEF flat, run, width
<1> DEFINE a == <<m>>  w == <<width>>  head == a \o flat \o w
<1>11. a \in Seq(Int) /\ Len(a) = 1 /\ w \in Seq(Int) /\ Len(w) = 1 /\ a[1] = m /\ w[1] = width
  BY <1>2, <1>9
<1>12. data = head \o run
  BY <1>3
<1> HIDE DEF a, w
<1>13. head \in Seq(Int) /\ Len(head) = Len(a) + Len(flat) + Len(w)
       /\ At(head, Len(a), flat) /\ At(head, Len(a) + Len(flat), w)
  <2>1. head = a \o flat \o w
    OBVIOUS
  <2> HIDE DEF head
  <2>2. head \in Seq(Int) /\ IsLaid(head, a, flat, w)
    BY <1>10, <1>11, <2>1, Laid, Zenon
  <2> QED BY <2>2 DEF IsLaid
<1>14. Len(flat) \in Nat /\ Len(run) \in Nat
  BY <1>8, <1>10
<1> HIDE DEF head
<1>15. data \in Seq(Int) /\ Len(data) = 2 + Len(flat) + Len(run)
  <2>1. data \in Seq(Int) /\ Len(data) = Len(head) + Len(run)
    BY <1>8, <1>12, <1>13, ConcatProperties
  <2>2. Len(head) = 2 + Len(flat)
    BY <1>11, <1>13, <1>14
  <2> QED BY <2>1, <2>2
<1>16. At(data, 1, flat) /\ At(data, 1 + Len(flat), w)
  BY <1>8, <1>10, <1>11, <1>12, <1>13, AtLeft
<1>17. At(data, 2 + Len(flat), run)
  <2>1. At(data, Len(head) + 0, run)
    BY <1>8, <1>12, <1>13, AtSelf, AtRight
  <2>2. Len(head) + 0 = 2 + Len(flat)
    BY <1>11, <1>13, <1>14
  <2> QED BY <2>1, <2>2
<1>18. data # <<>> /\ data[1] = m
  <2>1. data[1] = head[1] /\ head[1] = m
    <3>1. At(head, 0, a)
      <4>1. head = a \o flat \o w /\ a \o flat \in Seq(Int)
        BY <1>10, <1>11 DEF head
      <4> QED BY <1>10, <1>11, <4>1, AtSelf, AtLeft
    <3>2. head[0 + 1] = a[1]
      BY <1>11, <3>1 DEF At
    <3> QED BY <1>8, <1>11, <1>12, <1>13, <1>14, <3>2
  <2> QED BY <1>14, <1>15, <2>1
<1> DEFINE base == [dictionary |-> <<>>, rest |-> Tail(data)]
           read == EntriesRead(base, [k \in 1 .. m |-> k])
<1>19. read = [dictionary |-> d, rest |-> Behind(data, 1 + Len(flat))]
  <2>1. Tail(data) = Behind(data, 1)
    BY <1>15, <1>18, TailIsBehind
  <2>2. base = [dictionary |-> <<>>, rest |-> Behind(data, 1)]
    BY <2>1
  <2> HIDE DEF base
  <2> QED BY <1>2, <1>15, <1>16, <2>2, ReadEntries DEF flat
<1>20. Head(read.rest) = width /\ Tail(read.rest) = run
  <2> DEFINE p == 1 + Len(flat)
  <2>0. p \in Nat /\ p + 1 = 2 + Len(flat) /\ p + 1 <= Len(data) /\ p <= Len(data)
        /\ p + 1 + Len(run) = Len(data)
    BY <1>14, <1>15
  <2>1. read.rest = Behind(data, p)
    BY <1>19
  <2> HIDE DEF p, read
  <2>2. Behind(data, p) \in Seq(Int) /\ Len(Behind(data, p)) = Len(data) - p
        /\ Behind(data, p)[1] = data[p + 1]
    <3>1. 1 \in 1 .. Len(data) - p
      BY <1>15, <2>0
    <3> QED BY <1>15, <2>0, <3>1, BehindFacts DEF IsRest
  <2>3. Behind(data, p) # <<>>
    BY <1>15, <2>0, <2>2
  <2>4. data[p + 1] = width
    <3>1. At(data, p, w) /\ 1 \in 1 .. Len(w)
      BY <1>11, <1>16 DEF p
    <3> QED BY <1>11, <3>1 DEF At
  <2>5. Tail(Behind(data, p)) = Behind(data, p + 1)
    <3>1. Tail(Behind(data, p)) = Behind(Behind(data, p), 1)
      BY <2>2, <2>3, TailIsBehind
    <3> QED BY <1>15, <2>0, <3>1, BehindBehind
  <2>6. Behind(data, p + 1) = run
    <3>1. SubSeq(data, (p + 1) + 1, (p + 1) + Len(run)) = run
      BY <1>8, <1>15, <1>17, <2>0, AtSub
    <3> QED BY <2>0, <3>1 DEF Behind
  <2> QED BY <2>1, <2>2, <2>3, <2>4, <2>5, <2>6, TailIsBehind
<1>21. read.dictionary = d
  BY <1>19
<1>22. DecodeStringDictionary(data, n)
         = [k \in 1 .. n |-> read.dictionary[BitUnpack(Tail(read.rest), n, Head(read.rest))[k] + 1]]
  BY <1>18, DecodeDictionaryIs
<1> HIDE DEF read
<1>23. DecodeStringDictionary(data, n) = [k \in 1 .. n |-> d[ids[k] + 1]]
  BY <1>8, <1>20, <1>21, <1>22
<1>24. values = [k \in 1 .. n |-> values[k]]
  BY <1>1
<1>25. DecodeStringDictionary(data, n) = values
  BY <1>4, <1>23, <1>24
<1> QED BY <1>15, <1>25 DEF data

-----------------------------------------------------------------------------
\* The prefix encoding.

\* A bounded set of numbers has its Max.
LEMMA GreatestOf ==
  ASSUME NEW m \in Nat, NEW T, T \subseteq 0 .. m, T # {}
  PROVE  Max(T) \in T /\ \A y \in T : y <= Max(T)
<1> DEFINE U == {m - x : x \in T}
<1>1. PICK u \in U : \A y \in U : u <= y
  <2>1. U \subseteq Nat
    OBVIOUS
  <2>2. U # {}
    <3>1. PICK y : y \in T
      OBVIOUS
    <3>2. m - y \in U
      BY <3>1
    <3> QED BY <3>2
  <2> HIDE DEF U
  <2> QED BY <2>1, <2>2, Induct, Numbers!LeastOf
<1>2. PICK x \in T : u = m - x
  BY <1>1
<1>3. \A y \in T : x >= y
  <2> TAKE y \in T
  <2>1. m - x <= m - y
    BY <1>1, <1>2
  <2>2. x \in 0 .. m /\ y \in 0 .. m
    OBVIOUS
  <2> QED BY <2>1, <2>2
<1> QED BY <1>3 DEF Max

\* Min of two numbers.
LEMMA LesserOf ==
  ASSUME NEW a \in Nat, NEW b \in Nat
  PROVE  Min({a, b}) = IF a <= b THEN a ELSE b
<1> DEFINE m == Min({a, b})
<1>1. \E x \in {a, b} : \A y \in {a, b} : x <= y
  <2>1. CASE a <= b
    BY <2>1
  <2>2. CASE b <= a
    BY <2>2
  <2> QED BY <2>1, <2>2
<1>2. m \in {a, b} /\ \A y \in {a, b} : m <= y
  BY <1>1 DEF Min
<1> HIDE DEF m
<1>3. m = IF a <= b THEN a ELSE b
  BY <1>2
<1> QED BY <1>3 DEF m

\* The first n characters of s and t agree.
Agree(s, t, n) ==
  n \in Nat /\ n <= Len(s) /\ n <= Len(t) /\ \A j \in 1 .. n : s[j] = t[j]

\* Texts agree in a prefix when the subsequences are equal.
LEMMA AgreeIs ==
  ASSUME NEW s \in Seq(Int), NEW t \in Seq(Int), NEW n \in Nat, n <= Len(s), n <= Len(t)
  PROVE  Agree(s, t, n) <=> SubSeq(s, 1, n) = SubSeq(t, 1, n)
<1> DEFINE a == SubSeq(s, 1, n)  b == SubSeq(t, 1, n)
<1>1. /\ a \in Seq(Int) /\ Len(a) = n /\ \A j \in 1 .. n : a[j] = s[j]
  <2>1. Len(s) \in Nat
    OBVIOUS
  <2> QED BY <2>1
<1>2. /\ b \in Seq(Int) /\ Len(b) = n /\ \A j \in 1 .. n : b[j] = t[j]
  <2>1. Len(t) \in Nat
    OBVIOUS
  <2> QED BY <2>1
<1> HIDE DEF a, b
<1>3. ASSUME Agree(s, t, n) PROVE a = b
  <2>1. Matches(a, b)
    BY <1>1, <1>2, <1>3 DEF Agree, Matches
  <2> QED BY <1>1, <1>2, <2>1, MatchEqual
<1>4. ASSUME a = b PROVE Agree(s, t, n)
  BY <1>1, <1>2, <1>4 DEF Agree
<1> QED BY <1>3, <1>4 DEF a, b

\* CommonLength is the length of the longest common prefix.
LEMMA CommonIs ==
  ASSUME NEW s \in Seq(Int), NEW t \in Seq(Int)
  PROVE  /\ Agree(s, t, CommonLength(s, t))
         /\ CommonLength(s, t) < Len(s) /\ CommonLength(s, t) < Len(t) =>
              s[CommonLength(s, t) + 1] # t[CommonLength(s, t) + 1]
<1> DEFINE m == Min({Len(s), Len(t)})
           T == {n \in 0 .. m : SubSeq(s, 1, n) = SubSeq(t, 1, n)}
           k == CommonLength(s, t)
<1>1. m \in Nat /\ m <= Len(s) /\ m <= Len(t) /\ (m = Len(s) \/ m = Len(t))
      /\ Len(s) \in Nat /\ Len(t) \in Nat
  <2>1. Len(s) \in Nat /\ Len(t) \in Nat
    OBVIOUS
  <2> QED BY <2>1, LesserOf
<1> HIDE DEF m
<1>2. 0 \in T
  <2>1. SubSeq(s, 1, 0) = <<>> /\ SubSeq(t, 1, 0) = <<>>
    OBVIOUS
  <2> QED BY <1>1, <2>1
<1>3. k = Max(T)
  BY DEF CommonLength, m
<1>4. T \subseteq 0 .. m /\ T # {}
  BY <1>2
<1>5. \A n \in 0 .. m : n \in T <=> Agree(s, t, n)
  <2> TAKE n \in 0 .. m
  <2>1. n \in Nat /\ n <= Len(s) /\ n <= Len(t)
    BY <1>1
  <2> QED BY <2>1, AgreeIs
<1> HIDE DEF T, k
<1>6. k \in T /\ \A y \in T : y <= k
  BY <1>1, <1>3, <1>4, GreatestOf
<1>7. Agree(s, t, k) /\ k \in 0 .. m
  BY <1>4, <1>5, <1>6
<1>8. ASSUME k < Len(s), k < Len(t), s[k + 1] = t[k + 1] PROVE FALSE
  <2>1. k + 1 \in 0 .. m /\ ~(k + 1 <= k)
    BY <1>1, <1>7, <1>8
  <2>2. Agree(s, t, k + 1)
    <3>1. \A j \in 1 .. k + 1 : j \in 1 .. k \/ j = k + 1
      BY <1>7
    <3> QED BY <1>1, <1>7, <1>8, <2>1, <3>1 DEF Agree
  <2>3. k + 1 \in T
    BY <1>5, <2>1, <2>2
  <2> QED BY <1>6, <2>1, <2>3
<1> QED BY <1>7, <1>8 DEF k

\* A text is its prefix and the rest.
LEMMA Split ==
  ASSUME NEW v \in Seq(Int), NEW p \in Nat, p <= Len(v)
  PROVE  /\ SubSeq(v, 1, p) \in Seq(Int) /\ Len(SubSeq(v, 1, p)) = p
         /\ Behind(v, p) \in Seq(Int) /\ Len(Behind(v, p)) = Len(v) - p
         /\ SubSeq(v, 1, p) \o Behind(v, p) = v
<1> DEFINE a == SubSeq(v, 1, p)  b == Behind(v, p)  c == a \o b
<1>0. Len(v) \in Nat
  OBVIOUS
<1>1. a \in Seq(Int) /\ Len(a) = p /\ \A j \in 1 .. p : a[j] = v[j]
  BY <1>0
<1>2. b \in Seq(Int) /\ Len(b) = Len(v) - p /\ \A j \in 1 .. Len(v) - p : b[j] = v[p + j]
  BY BehindFacts DEF IsRest
<1> HIDE DEF a, b
<1>3. c \in Seq(Int) /\ Len(c) = Len(v)
  <2>1. c \in Seq(Int) /\ Len(c) = Len(a) + Len(b)
    BY <1>1, <1>2, ConcatProperties
  <2> QED BY <1>0, <1>1, <1>2, <2>1
<1>4. ASSUME NEW j \in 1 .. Len(v) PROVE c[j] = v[j]
  <2>1. CASE j <= p
    BY <1>0, <1>1, <1>2, <2>1
  <2>2. CASE j > p
    <3>1. c[j] = b[j - p]
      BY <1>0, <1>1, <1>2, <2>2
    <3>2. j - p \in 1 .. Len(v) - p /\ p + (j - p) = j
      BY <1>0, <2>2
    <3> QED BY <1>2, <3>1, <3>2
  <2>3. j <= p \/ j > p
    BY <1>0
  <2> QED BY <2>1, <2>2, <2>3, Zenon
<1> HIDE DEF c
<1>5. Matches(c, v)
  BY <1>3, <1>4 DEF Matches
<1>6. c = v
  BY <1>3, <1>5, MatchEqual
<1> QED BY <1>1, <1>2, <1>6 DEF a, b, c

\* What the decoder adds to the strings read so far.
TakeSuffixOf(acc, n) ==
  LET t == TakeString(SubSeq(acc.rest, 3, Len(acc.rest)), acc.rest[2])
  IN [values |-> Append(acc.values,
                        SubSeq(Last(acc.values), 1, acc.rest[1]) \o t.string),
      rest |-> t.rest]

\* The fold that reads the suffixes back.
ReadOn == INSTANCE ProofRules
  WITH Op <- LAMBDA e, acc, n : TakeSuffixOf(acc, n),
       Val <- LAMBDA a, b, x : x

\* What it has read at the end.
SuffixesRead(base, s) == FoldLeft(LAMBDA acc, n : TakeSuffixOf(acc, n), base, s)

\* F has what is read after each suffix.
IsReadOn(F, base, n) ==
  /\ F[0] = base
  /\ \A i \in 1 .. n : F[i] = TakeSuffixOf(F[i - 1], i)
  /\ SuffixesRead(base, [k \in 1 .. n |-> k]) = F[n]

\* The fold reads one suffix after the other.
LEMMA ReadOnTrace ==
  ASSUME NEW n \in Nat, NEW base
  PROVE  \E F : IsReadOn(F, base, n)
<1> DEFINE s == [k \in 1 .. n |-> k]
<1>1. DOMAIN s = 1 .. n /\ \A i \in 1 .. n : s[i] = i
  OBVIOUS
<1> HIDE DEF s
<1>2. PICK F : ReadOn!IsTrace(F, 0, base, s, n)
  BY <1>1, Induct, ReadOn!FoldTrace DEF Numbers!NatInduction, ReadOn!NatInduction
<1>3. /\ F[0] = base
      /\ \A i \in 1 .. n : F[i] = TakeSuffixOf(F[i - 1], s[i])
      /\ ReadOn!Folded(0, base, s) = F[n]
  BY <1>2 DEF ReadOn!IsTrace
<1>4. SuffixesRead(base, s) = ReadOn!Folded(0, base, s)
  BY DEF SuffixesRead, FoldLeft, MapThenFoldSet, Max, ReadOn!Folded,
         ReadOn!MapThenFoldSet, ReadOn!Greatest
<1>5. \A i \in 1 .. n : F[i] = TakeSuffixOf(F[i - 1], i)
  BY <1>1, <1>3
<1>6. IsReadOn(F, base, n)
  BY <1>3, <1>4, <1>5 DEF IsReadOn, s
<1> QED BY <1>6

\* DecodeStringDeltaLength reads the first text, then the suffixes.
LEMMA DecodeDeltaLengthIs ==
  ASSUME NEW data, NEW count
  PROVE  DecodeStringDeltaLength(data, count)
           = SuffixesRead([values |-> <<TakeString(Tail(data), data[1]).string>>,
                           rest |-> TakeString(Tail(data), data[1]).rest],
                          [n \in 1 .. count - 1 |-> n]).values
BY DEF DecodeStringDeltaLength, SuffixesRead, TakeSuffixOf

\* What t does not share with s.
SuffixOf(s, t) ==
  <<CommonLength(s, t), Len(t) - CommonLength(s, t)>> \o Behind(t, CommonLength(s, t))

\* The suffix in the file is a sequence of elements.
LEMMA SuffixType ==
  ASSUME NEW s \in Seq(Int), NEW t \in Seq(Int)
  PROVE  SuffixOf(s, t) \in Seq(Int)
<1> DEFINE p == CommonLength(s, t)
<1>1. p \in Nat /\ p <= Len(t) /\ Len(t) \in Nat
  BY CommonIs DEF Agree
<1>2. Behind(t, p) \in Seq(Int)
  BY <1>1, Split
<1>3. <<p, Len(t) - p>> \in Seq(Int)
  BY <1>1
<1> QED BY <1>2, <1>3, ConcatProperties DEF SuffixOf

\* From the text before it and its suffix a text is rebuilt.
LEMMA TakeSuffix ==
  ASSUME NEW data \in Seq(Int), NEW s \in Seq(Int), NEW t \in Seq(Int), NEW p,
         At(data, p, SuffixOf(s, t)), NEW vs, NEW acc,
         acc.rest = Behind(data, p), acc.values = vs, Last(vs) = s, NEW n
  PROVE  TakeSuffixOf(acc, n)
           = [values |-> Append(vs, t), rest |-> Behind(data, p + Len(SuffixOf(s, t)))]
<1> DEFINE c == CommonLength(s, t)  u == Behind(t, c)  x == SuffixOf(s, t)
           two == <<c, Len(t) - c>>
<1>1. c \in Nat /\ c <= Len(t) /\ c <= Len(s) /\ Len(t) \in Nat /\ Len(s) \in Nat /\ Agree(s, t, c)
  BY CommonIs DEF Agree
<1>2. u \in Seq(Int) /\ Len(u) = Len(t) - c /\ SubSeq(t, 1, c) \o u = t
  BY <1>1, Split
<1>3. SubSeq(s, 1, c) = SubSeq(t, 1, c)
  BY <1>1, AgreeIs
<1>4. x = two \o u /\ two \in Seq(Int) /\ Len(two) = 2 /\ two[1] = c /\ two[2] = Len(u)
  BY <1>1, <1>2 DEF SuffixOf
<1> HIDE DEF c, u, x, two
<1>5. x \in Seq(Int) /\ Len(x) = 2 + Len(u) /\ Len(u) \in Nat
      /\ At(x, 2, u) /\ At(x, 0, two)
  <2>0. x \in Seq(Int) /\ Len(x) = Len(two) + Len(u)
    BY <1>2, <1>4, ConcatProperties, Zenon
  <2>1. x \in Seq(Int) /\ Len(x) = 2 + Len(u) /\ Len(u) \in Nat
    BY <1>2, <1>4, <2>0
  <2>2. At(x, Len(two) + 0, u) /\ At(x, 0, two)
    BY <1>2, <1>4, AtSelf, AtRight, AtLeft
  <2> QED BY <1>4, <2>1, <2>2
<1>6. /\ p \in Nat /\ Len(data) \in Nat /\ p + (2 + Len(u)) <= Len(data)
      /\ data[p + 1] = c /\ data[p + 2] = Len(u)
  <2>1. At(data, p, x) /\ p \in Nat /\ p + Len(x) <= Len(data)
    BY DEF At, x
  <2>2. At(data, p + 0, two)
    BY <1>4, <1>5, <2>1, AtInner
  <2>3. data[p + 0 + 1] = two[1] /\ data[p + 0 + 2] = two[2]
    BY <1>4, <2>2 DEF At
  <2> QED BY <1>4, <1>5, <2>1, <2>3
<1>7. At(data, p + 2, u)
  <2>1. At(data, p, x)
    BY DEF x
  <2> QED BY <1>2, <1>5, <2>1, AtInner
<1> DEFINE r == Behind(data, p)
<1>8. r \in Seq(Int) /\ Len(r) = Len(data) - p /\ r[1] = c /\ r[2] = Len(u)
  <2>1. 1 \in 1 .. Len(data) - p /\ 2 \in 1 .. Len(data) - p /\ p <= Len(data)
    <3> DEFINE l == Len(data)  m == Len(u)
    <3>1. p \in Nat /\ l \in Nat /\ m \in Nat /\ p + (2 + m) <= l
      BY <1>5, <1>6
    <3> HIDE DEF l, m
    <3>2. 1 \in 1 .. l - p /\ 2 \in 1 .. l - p /\ p <= l
      BY <3>1
    <3> QED BY <3>2 DEF l
  <2> QED BY <1>6, <2>1, BehindFacts DEF IsRest
<1>9. SubSeq(r, 3, Len(r)) = Behind(data, p + 2)
  <2>1. p + 2 <= Len(data)
    BY <1>5, <1>6
  <2>2. Behind(r, 2) = Behind(data, p + 2)
    BY <1>6, <2>1, BehindBehind
  <2>3. Behind(r, 2) = SubSeq(r, 3, Len(r))
    BY DEF Behind
  <2> QED BY <2>2, <2>3
<1>10. TakeString(Behind(data, p + 2), Len(u)) = [string |-> u, rest |-> Behind(data, (p + 2) + Len(u))]
  BY <1>2, <1>7, TakeAt
<1>11. (p + 2) + Len(u) = p + Len(x)
  BY <1>5, <1>6
<1> DEFINE take == TakeString(SubSeq(acc.rest, 3, Len(acc.rest)), acc.rest[2])
<1>12. take.string = u /\ take.rest = Behind(data, p + Len(x)) /\ acc.rest[1] = c
  <2>1. take = [string |-> u, rest |-> Behind(data, p + Len(x))]
    BY <1>8, <1>9, <1>10, <1>11
  <2> HIDE DEF take
  <2>2. take.string = u /\ take.rest = Behind(data, p + Len(x))
    BY <2>1
  <2> QED BY <1>8, <2>2
<1>13. TakeSuffixOf(acc, n) = [values |-> Append(vs, SubSeq(s, 1, c) \o take.string), rest |-> take.rest]
  BY <1>12 DEF TakeSuffixOf
<1> HIDE DEF take
<1>14. SubSeq(s, 1, c) \o take.string = t
  BY <1>2, <1>3, <1>12
<1> QED BY <1>12, <1>13, <1>14 DEF x

\* The first n strings, and what is behind them.
HasReadOn(acc, vs, n, rest) ==
  /\ acc.values \in Seq(Texts) /\ Len(acc.values) = n
  /\ \A k \in 1 .. n : acc.values[k] = vs[k]
  /\ acc.rest = rest

\* Reading the next suffix adds its text.
LEMMA TakeSuffixStep ==
  ASSUME NEW data \in Seq(Int), NEW vs \in Seq(Texts), NEW acc, NEW n \in 1 .. Len(vs) - 1,
         NEW p, HasReadOn(acc, vs, n, Behind(data, p)),
         At(data, p, SuffixOf(vs[n], vs[n + 1]))
  PROVE  HasReadOn(TakeSuffixOf(acc, n), vs, n + 1,
                   Behind(data, p + Len(SuffixOf(vs[n], vs[n + 1]))))
<1> DEFINE s == vs[n]  t == vs[n + 1]  new == TakeSuffixOf(acc, n)
           r == Behind(data, p + Len(SuffixOf(s, t)))  held == acc.values
<1>1. s \in Seq(Int) /\ t \in Seq(Int)
  <2>1. n \in 1 .. Len(vs) /\ n + 1 \in 1 .. Len(vs)
    OBVIOUS
  <2> QED BY <2>1, ElementOfSeq DEF Texts
<1>2. /\ acc.rest = Behind(data, p) /\ held \in Seq(Texts) /\ Len(held) = n
      /\ \A k \in 1 .. n : held[k] = vs[k]
  BY DEF HasReadOn
<1> HIDE DEF held, s, t, r
<1>3. Last(held) = s
  <2>1. n \in 1 .. n /\ n \in Nat
    OBVIOUS
  <2> QED BY <1>2, <2>1 DEF Last, s
<1>4. new = [values |-> Append(held, t), rest |-> r]
  <2>1. acc.values = held
    BY DEF held
  <2>2. At(data, p, SuffixOf(s, t))
    BY DEF s, t
  <2> HIDE DEF new
  <2>3. TakeSuffixOf(acc, n) = [values |-> Append(held, t), rest |-> Behind(data, p + Len(SuffixOf(s, t)))]
    BY <1>1, <1>2, <1>3, <2>1, <2>2, TakeSuffix
  <2> QED BY <2>3 DEF new, r
<1> DEFINE e == Append(held, t)
<1>5. new.values = e /\ new.rest = r
  BY <1>4
<1>6. e \in Seq(Texts) /\ Len(e) = n + 1
  BY <1>1, <1>2 DEF Texts
<1>7. ASSUME NEW k \in 1 .. n + 1 PROVE e[k] = vs[k]
  <2>1. CASE k = n + 1
    BY <1>1, <1>2, <2>1 DEF t
  <2>2. CASE k \in 1 .. n
    BY <1>1, <1>2, <2>2
  <2>3. k = n + 1 \/ k \in 1 .. n
    OBVIOUS
  <2> QED BY <2>1, <2>2, <2>3, Zenon
<1> HIDE DEF e, new
<1>8. HasReadOn(new, vs, n + 1, r)
  BY <1>5, <1>6, <1>7 DEF HasReadOn
<1> QED BY <1>8 DEF new, r, s, t

\* The prefix encoding of a text column is undone by its decoding.
LEMMA DeltaLengthRoundTrip ==
  ASSUME NEW values \in Seq(Texts), values # <<>>
  PROVE  /\ EncodeStringDeltaLength(values) \in Seq(Int)
         /\ DecodeStringDeltaLength(EncodeStringDeltaLength(values), Len(values)) = values
<1> DEFINE n == Len(values)  m == n - 1  v == values[1]  e == Entry(v)
           es == [k \in 1 .. n - 1 |-> SuffixOf(values[k], values[k + 1])]
           flat == FlattenSeq(es)
           data == EncodeStringDeltaLength(values)
<1>1. n \in Nat \ {0} /\ m \in Nat /\ n = m + 1 /\ 1 \in 1 .. n
  BY LengthOf
<1>2. \A k \in 1 .. n : values[k] \in Seq(Int)
  BY ElementOfSeq DEF Texts
<1>3. v \in Seq(Int) /\ e \in Seq(Int) /\ Len(e) \in Nat
  BY <1>1, <1>2, EntryType
<1>4. data = e \o flat
  <2>1. \A k \in 1 .. Len(values) - 1 : values[(k + 1) - 1] = values[k]
    <3>1. \A k \in 1 .. Len(values) - 1 : (k + 1) - 1 = k
      OBVIOUS
    <3> QED BY <3>1
  <2>2. es = [k \in 1 .. Len(values) - 1 |->
               <<CommonLength(values[(k + 1) - 1], values[k + 1]),
                 Len(values[k + 1]) - CommonLength(values[(k + 1) - 1], values[k + 1])>>
               \o SubSeq(values[k + 1], CommonLength(values[(k + 1) - 1], values[k + 1]) + 1,
                         Len(values[k + 1]))]
    BY <2>1 DEF SuffixOf, Behind
  <2> HIDE DEF es
  <2>3. data = <<Len(values[1])>> \o values[1] \o flat
    BY <2>2 DEF EncodeStringDeltaLength
  <2> QED BY <2>3 DEF Entry
<1>5. /\ es \in Seq(Seq(Int)) /\ Len(es) = m
      /\ \A k \in 1 .. m : es[k] = SuffixOf(values[k], values[k + 1])
  <2>1. \A k \in 1 .. m : es[k] \in Seq(Int)
    <3> TAKE k \in 1 .. m
    <3>1. k \in 1 .. n /\ k + 1 \in 1 .. n
      BY <1>1
    <3> QED BY <1>2, <3>1, SuffixType
  <2>2. es = [k \in 1 .. m |-> es[k]]
    OBVIOUS
  <2>3. \A k \in 1 .. m : es[k] = SuffixOf(values[k], values[k + 1])
    OBVIOUS
  <2> HIDE DEF es, m
  <2>4. es \in [1 .. m -> Seq(Int)]
    BY <2>1, <2>2
  <2> QED BY <1>1, <2>3, <2>4, SeqOfFunction
<1> HIDE DEF es, data, e
<1>6. PICK G : IsFlat(G, es, Int) /\ FlattenSeq(es) = G[Len(es)]
  BY <1>5, FlattenTrace
<1>7. /\ G \in [0 .. m -> Seq(Int)] /\ G[0] = <<>> /\ flat = G[m]
      /\ IsFlat(G, es, Int)
  BY <1>5, <1>6 DEF IsFlat
<1>8. flat \in Seq(Int)
  <2>1. m \in 0 .. m
    BY <1>1
  <2> QED BY <1>7, <2>1
<1> HIDE DEF flat
<1>9. data \in Seq(Int) /\ At(data, 0, e) /\ At(data, Len(e) + 0, flat)
  <2>1. data \in Seq(Int)
    BY <1>3, <1>4, <1>8, ConcatProperties
  <2> QED BY <1>3, <1>4, <1>8, <2>1, AtSelf, AtLeft, AtRight
<1> DEFINE q == Len(e)
<1>10. At(data, q, flat) /\ q \in Nat
  BY <1>3, <1>9
<1>11. data # <<>> /\ data[1] = Len(v)
       /\ TakeString(Tail(data), data[1]) = [string |-> v, rest |-> Behind(data, q)]
  <2>1. Behind(data, 0) = data
    <3>1. At(data, 0, data) /\ Len(data) \in Nat
      BY <1>9, AtSelf
    <3>2. SubSeq(data, 0 + 1, 0 + Len(data)) = data
      BY <1>9, <3>1, AtSub
    <3> QED BY <3>1, <3>2 DEF Behind
  <2>2. Behind(data, 0)[1] = Len(v)
        /\ TakeString(Tail(Behind(data, 0)), Len(v))
             = [string |-> v, rest |-> Behind(data, 0 + Len(e))]
    BY <1>3, <1>9, TakeEntry DEF e
  <2>3. data # <<>>
    <3>0. Len(Entry(v)) = Len(v) + 1
      BY <1>3, EntryType
    <3>1. Len(e) = Len(v) + 1 /\ Len(v) \in Nat
      BY <1>3, <3>0 DEF e
    <3>2. 0 + Len(e) <= Len(data)
      BY <1>9 DEF At
    <3> DEFINE l == Len(e)
    <3>3. l > 0 /\ l <= Len(data)
      BY <1>3, <3>1, <3>2
    <3> QED BY <3>3
  <2>4. 0 + Len(e) = q
    BY <1>3
  <2> QED BY <2>1, <2>2, <2>3, <2>4
<1> HIDE DEF q
<1> DEFINE base == [values |-> <<TakeString(Tail(data), data[1]).string>>,
                    rest |-> TakeString(Tail(data), data[1]).rest]
<1>12. base = [values |-> <<v>>, rest |-> Behind(data, q)]
  BY <1>11
<1>13. DecodeStringDeltaLength(data, n) = SuffixesRead(base, [k \in 1 .. m |-> k]).values
  BY DecodeDeltaLengthIs
<1> HIDE DEF base
<1>14. PICK F : IsReadOn(F, base, m)
  <2> HIDE DEF m
  <2> QED BY <1>1, ReadOnTrace
<1>15. /\ F[0] = base
       /\ \A i \in 1 .. m : F[i] = TakeSuffixOf(F[i - 1], i)
       /\ SuffixesRead(base, [k \in 1 .. m |-> k]) = F[m]
  BY <1>14 DEF IsReadOn
<1> DEFINE P == {i \in 0 .. m : HasReadOn(F[i], values, i + 1, Behind(data, q + Len(G[i])))}
<1>16. 0 \in P
  <2>1. q + Len(G[0]) = q
    BY <1>7, <1>10
  <2>2. <<v>> \in Seq(Texts) /\ Len(<<v>>) = 1 /\ <<v>>[1] = values[1]
    BY <1>3 DEF Texts
  <2>3. F[0].values = <<v>> /\ F[0].rest = Behind(data, q)
    BY <1>12, <1>15
  <2>4. \A k \in 1 .. 1 : k = 1
    OBVIOUS
  <2> HIDE DEF v
  <2>5. HasReadOn(F[0], values, 1, Behind(data, q))
    BY <2>2, <2>3, <2>4 DEF HasReadOn
  <2>6. 0 + 1 = 1 /\ 0 \in 0 .. m
    BY <1>1
  <2> QED BY <2>1, <2>5, <2>6
<1>17. ASSUME NEW i \in 0 .. m - 1, i \in P PROVE i + 1 \in P
  <2> DEFINE j == i + 1
  <2>1. j \in 1 .. m /\ j \in 0 .. m /\ j - 1 = i /\ j \in 1 .. Len(es) /\ j \in 1 .. Len(values) - 1
    BY <1>1, <1>5
  <2>2. At(G[m], Len(G[i]), es[j]) /\ Len(G[j]) = Len(G[i]) + Len(es[j])
    BY <1>5, <1>7, <2>1, FlatAt
  <2>3. G[m] \in Seq(Int) /\ es[j] \in Seq(Int) /\ G[i] \in Seq(Int)
    <3>1. m \in 0 .. m /\ i \in 0 .. m
      BY <1>1
    <3>2. es[j] \in Seq(Int)
      BY <1>5, <2>1, ElementOfSeq
    <3> QED BY <1>7, <3>1, <3>2
  <2> DEFINE p == q + Len(G[i])
  <2>4. At(data, p, es[j])
    <3>1. At(data, q, G[m])
      BY <1>7, <1>10
    <3> QED BY <1>9, <2>2, <2>3, <3>1, AtInner
  <2>5. p + Len(es[j]) = q + Len(G[j]) /\ es[j] = SuffixOf(values[j], values[j + 1])
    <3> DEFINE a == Len(G[i])  b == Len(es[j])
    <3>1. a \in Nat /\ b \in Nat
      BY <2>3
    <3>2. q + Len(G[j]) = q + (a + b)
      BY <2>2, Zenon
    <3>3. q + (a + b) = (q + a) + b
      <4> HIDE DEF a, b
      <4> QED BY <1>10, <3>1
    <3> QED BY <1>5, <2>1, <3>2, <3>3
  <2>6. HasReadOn(F[i], values, j, Behind(data, p))
    BY <1>17
  <2>7. F[j] = TakeSuffixOf(F[i], j)
    BY <1>15, <2>1
  <2> HIDE DEF p, j
  <2>8. HasReadOn(F[j], values, j + 1, Behind(data, p + Len(SuffixOf(values[j], values[j + 1]))))
    BY <1>9, <2>1, <2>4, <2>5, <2>6, <2>7, TakeSuffixStep
  <2>9. HasReadOn(F[j], values, j + 1, Behind(data, q + Len(G[j])))
    BY <2>5, <2>8
  <2> QED BY <2>1, <2>9 DEF j
<1> HIDE DEF P
<1>18. m \in P
  <2> HIDE DEF m
  <2>1. 0 .. m \subseteq P
    BY <1>1, <1>16, <1>17, Induct, Numbers!UpTo
  <2> QED BY <1>1, <2>1
<1> DEFINE r == Behind(data, q + Len(G[m]))
<1>19. HasReadOn(F[m], values, n, r)
  <2>1. m + 1 = n
    BY <1>1
  <2> QED BY <1>18, <2>1 DEF P
<1>20. F[m].values = values
  <2>1. /\ F[m].values \in Seq(Texts) /\ Len(F[m].values) = Len(values)
        /\ \A k \in 1 .. n : F[m].values[k] = values[k]
    BY <1>19 DEF HasReadOn
  <2>2. Matches(F[m].values, values)
    BY <2>1 DEF Matches
  <2> QED BY <2>1, <2>2, MatchEqual
<1>21. DecodeStringDeltaLength(data, n) = values
  BY <1>13, <1>15, <1>20
<1> QED BY <1>9, <1>21 DEF data

\* Whichever encoding of a text column is smaller, DecodeString undoes it.
LEMMA StringRoundTrip ==
  ASSUME NEW values \in Seq(Texts), Len(values) <= Words
  PROVE  EncodeString(values) \in Seq(Int) /\ DecodeString(EncodeString(values)) = values
<1> DEFINE n == Len(values)  data == EncodeString(values)
<1>1. CASE values = <<>>
  BY <1>1 DEF EncodeString, DecodeString
<1>2. ASSUME values # <<>>, NEW tag \in Int, NEW s \in Seq(Int), data = <<n, tag>> \o s
      PROVE  /\ data \in Seq(Int) /\ data[1] = n /\ data[1] # 0 /\ data[2] = tag
             /\ SubSeq(data, 3, Len(data)) = s
  <2> DEFINE t == <<n, tag>>
  <2>1. t \in Seq(Int) /\ Len(t) = 2 /\ t[1] = n /\ t[2] = tag /\ n \in Nat \ {0}
    BY <1>2, LengthOf
  <2>2. data = t \o s
    BY <1>2
  <2> HIDE DEF t, data
  <2>3. data \in Seq(Int) /\ Len(data) = Len(t) + Len(s) /\ Len(s) \in Nat
        /\ At(data, Len(t) + 0, s) /\ At(data, 0, t)
    <3>1. At(t, 0, t) /\ At(s, 0, s)
      BY <2>1, AtSelf
    <3>2. At(t \o s, 0, t) /\ At(t \o s, Len(t) + 0, s)
      BY <2>1, <3>1, AtRight, AtLeft
    <3>3. t \o s \in Seq(Int) /\ Len(t \o s) = Len(t) + Len(s)
      BY <2>1, ConcatProperties, Zenon
    <3> QED BY <2>2, <3>2, <3>3
  <2>4. SubSeq(data, 2 + 1, 2 + Len(s)) = s
    <3>1. At(data, 2, s)
      BY <2>1, <2>3
    <3> QED BY <2>3, <3>1, AtSub
  <2>5. data[0 + 1] = t[1] /\ data[0 + 2] = t[2]
    BY <2>1, <2>3 DEF At
  <2> QED BY <2>1, <2>3, <2>4, <2>5
<1> HIDE DEF data
<1>3. CASE values # <<>> /\ ShouldUseDictionaryEncoding(values)
  <2> DEFINE s == EncodeStringDictionary(values)
  <2>1. s \in Seq(Int) /\ DecodeStringDictionary(s, n) = values
    BY <1>3, DictionaryRoundTrip
  <2>2. data = <<n, DictionaryTag>> \o s /\ DictionaryTag \in Int
    BY <1>3 DEF EncodeString, data, DictionaryTag
  <2> HIDE DEF s
  <2>3. /\ data \in Seq(Int) /\ data[1] = n /\ data[1] # 0 /\ data[2] = DictionaryTag
        /\ SubSeq(data, 3, Len(data)) = s
    BY <1>2, <1>3, <2>1, <2>2
  <2>4. DecodeString(data) = DecodeStringDictionary(s, n)
    BY <2>3, Zenon DEF DecodeString
  <2> QED BY <2>1, <2>3, <2>4 DEF data
<1>4. CASE values # <<>> /\ ~ShouldUseDictionaryEncoding(values)
  <2> DEFINE s == EncodeStringDeltaLength(values)
  <2>1. s \in Seq(Int) /\ DecodeStringDeltaLength(s, n) = values
    BY <1>4, DeltaLengthRoundTrip
  <2>2. data = <<n, DeltaLengthTag>> \o s /\ DeltaLengthTag \in Int
    BY <1>4 DEF EncodeString, data, DeltaLengthTag
  <2> HIDE DEF s
  <2>3. /\ data \in Seq(Int) /\ data[1] = n /\ data[1] # 0 /\ data[2] = DeltaLengthTag
        /\ SubSeq(data, 3, Len(data)) = s
    BY <1>2, <1>4, <2>1, <2>2
  <2>4. DeltaLengthTag # DictionaryTag
    BY DEF DeltaLengthTag, DictionaryTag
  <2>5. DecodeString(data) = DecodeStringDeltaLength(s, n)
    BY <2>3, <2>4, Zenon DEF DecodeString
  <2> QED BY <2>1, <2>3, <2>5 DEF data
<1> QED BY <1>1, <1>3, <1>4 DEF data

\* A column that the writer encodes.
IsColumn(type, values) ==
  /\ type \in IntType \cup DateType => Ranged(type, values)
  /\ type = "Double" => values \in Seq(Int)
  /\ type = "String" => values \in Seq(Texts) /\ Len(values) <= Words

\* Every column that a Column object can hold, encoded by whatever encoding its
\* type chooses, is decoded as it was, for all values and lengths.
THEOREM CodecRoundTrip ==
  ASSUME NEW type \in Type, NEW values, IsColumn(type, values)
  PROVE  Encode(type, values) \in Seq(Int) /\ Decode(type, Encode(type, values)) = values
<1>1. CASE type \in {"Int16", "Int32"}
  <2>1. type \in IntType \cup DateType
    BY <1>1 DEF IntType
  <2>2. \A d : Encode(type, values) = EncodeMinBitPacked(values)
               /\ Decode(type, d) = DecodeMinBitPacked(type, d)
    BY <1>1 DEF Encode, Decode, DateType
  <2> QED BY <2>1, <2>2, MinPackedRoundTrip DEF IsColumn
<1>2. CASE type = "Int64"
  <2>1. type \in IntType \cup DateType
    BY <1>2 DEF IntType
  <2>2. \A d : Encode(type, values) = EncodeInt64(values) /\ Decode(type, d) = DecodeInt64(d)
    BY <1>2 DEF Encode, Decode, DateType
  <2> QED BY <1>2, <2>1, <2>2, Int64RoundTrip DEF IsColumn
<1>3. CASE type \in DateType
  <2>1. \A d : Encode(type, values) = EncodeDeltaBitPacked(values)
               /\ Decode(type, d) = DecodeDeltaBitPacked(type, d)
    BY <1>3 DEF Encode, Decode, DateType
  <2> QED BY <1>3, <2>1, DeltaRoundTrip DEF IsColumn
<1>4. CASE type = "String"
  <2>1. \A d : Encode(type, values) = EncodeString(values) /\ Decode(type, d) = DecodeString(d)
    BY <1>4 DEF Encode, Decode, DateType
  <2> QED BY <1>4, <2>1, StringRoundTrip DEF IsColumn
<1>5. CASE type = "Double"
  <2>1. \A d : Encode(type, values) = EncodeRaw(values) /\ Decode(type, d) = DecodeRaw(d)
    BY <1>5 DEF Encode, Decode, DateType
  <2> QED BY <1>5, <2>1, RawRoundTrip DEF IsColumn
<1> QED BY <1>1, <1>2, <1>3, <1>4, <1>5 DEF Type, IntType

-----------------------------------------------------------------------------
\* The CSV reader.

\* The fold of the CSV reader over the characters of a line.
Chars == INSTANCE ProofRules
  WITH Op <- LAMBDA e, acc, i : TakeChar(e, acc, i), Val <- LAMBDA a, b, x : x

\* What the reader keeps while it goes through a record.
Partial == [record : Seq(Texts), token : Seq(Int), in_quotes : BOOLEAN, skip : BOOLEAN,
            position : Nat, ended : BOOLEAN]

\* The special characters are numbers, as all characters are.
LEMMA Specials == {Quote, Comma, NewLine, Return} \subseteq Int
BY DEF Quote, Comma, NewLine, Return

\* The end of a line leaves what has been read a record under way.
LEMMA EndLineType ==
  ASSUME NEW r \in Partial
  PROVE  EndLine(r) \in Partial /\ EndLine(r).position = r.position
<1>1. NewLine \in Int
  BY Specials
<1>2. CASE r.in_quotes
  <2>1. EndLine(r) = [r EXCEPT !.token = Append(@, NewLine)]
    BY <1>2 DEF EndLine
  <2>2. r.token \in Seq(Int)
    BY DEF Partial
  <2>3. Append(r.token, NewLine) \in Seq(Int)
    BY <1>1, <2>2
  <2> QED BY <2>1, <2>3 DEF Partial
<1>3. CASE ~r.in_quotes
  BY <1>3 DEF EndLine, Partial
<1> QED BY <1>2, <1>3

\* So does the end of a token, which it adds to the record.
LEMMA PushTokenType ==
  ASSUME NEW r \in Partial
  PROVE  /\ PushToken(r) \in Partial /\ PushToken(r).position = r.position
         /\ PushToken(r).record = Append(r.record, r.token)
<1>1. r.token \in Texts /\ r.record \in Seq(Texts) /\ <<>> \in Seq(Int)
  BY DEF Partial, Texts
<1>2. Append(r.record, r.token) \in Seq(Texts)
  BY <1>1
<1> QED BY <1>1, <1>2 DEF PushToken, Partial

\* So does a character; the position is that of the last one taken, and nothing
\* is taken any more once the line has ended.
LEMMA TakeCharType ==
  ASSUME NEW text \in Seq(Int), NEW i \in 1 .. Len(text), NEW acc \in Partial
  PROVE  /\ TakeChar(text, acc, i) \in Partial
         /\ acc.ended => TakeChar(text, acc, i) = acc
         /\ ~acc.ended => TakeChar(text, acc, i).position = i
<1> DEFINE c == text[i]  r == [acc EXCEPT !.position = i]  new == TakeChar(text, acc, i)
<1>0. c \in Int /\ i \in Nat
  OBVIOUS
<1>1. r \in Partial /\ r.position = i
  BY <1>0 DEF Partial
<1>2. CASE acc.ended
  <2>1. new = acc
    BY <1>2, Zenon DEF TakeChar
  <2> QED BY <1>2, <2>1
<1>3. CASE ~acc.ended
  <2> HIDE DEF r
  <2> DEFINE Right(x) == x \in Partial /\ x.position = i
  <2>1. \A q : Right([r EXCEPT !.skip = q]) \/ q \notin BOOLEAN
    BY <1>1 DEF Partial
  <2>2. Right(EndLine(r)) /\ Right(PushToken(r)) /\ Right(r)
    BY <1>1, EndLineType, PushTokenType
  <2>6. r.token \in Seq(Int) /\ Quote \in Int
    BY <1>1, Specials DEF Partial
  <2>7. Append(r.token, Quote) \in Seq(Int) /\ Append(r.token, c) \in Seq(Int)
    BY <1>0, <2>6
  <2>3. /\ Right([r EXCEPT !.token = Append(@, Quote), !.skip = TRUE])
        /\ Right([r EXCEPT !.in_quotes = ~@])
        /\ Right([r EXCEPT !.token = Append(@, c)])
        /\ Right([r EXCEPT !.skip = FALSE])
    BY <1>1, <2>7 DEF Partial
  <2>4. \/ new = EndLine(r) \/ new = PushToken(r) \/ new = r
        \/ new = [r EXCEPT !.token = Append(@, Quote), !.skip = TRUE]
        \/ new = [r EXCEPT !.in_quotes = ~@]
        \/ new = [r EXCEPT !.token = Append(@, c)]
        \/ new = [r EXCEPT !.skip = FALSE]
    BY <1>3 DEF TakeChar, r
  <2> HIDE DEF new
  <2>5. Right(new)
    BY <2>2, <2>3, <2>4, Zenon
  <2> QED BY <1>3, <2>5 DEF new
<1> QED BY <1>2, <1>3

\* U is what the reader keeps behind each character from p on.
IsScan(U, text, p) ==
  /\ U[p] = NoToken
  /\ \A i \in p + 1 .. Len(text) : U[i] = TakeChar(text, U[i - 1], i)

\* What one record and the end of the text are found to be, from such a U.
FoundBy(U, text, p) ==
  LET r == U[Len(text)]
      rest == IF r.in_quotes /\ Last(text) # NewLine THEN EndLine(r) ELSE r
  IN [record |-> PushToken(rest).record, position |-> r.position, eof |-> ~r.ended]

\* The reader takes one character of the text after the other.
LEMMA ScanExists ==
  ASSUME NEW text \in Seq(Int), NEW p \in 0 .. Len(text)
  PROVE  \E U : /\ IsScan(U, text, p)
                /\ p # Len(text) => GetNextLineAndSplitIntoTokens(text, p) = FoundBy(U, text, p)
<1> DEFINE n == Len(text)  m == n - p  s == [k \in 1 .. m |-> p + k]
           IsRec(f) == f = [i \in p .. n |-> IF i = p THEN NoToken ELSE TakeChar(text, f[i - 1], i)]
<1>1. n \in Nat /\ p \in Nat /\ p <= n /\ m \in Nat /\ n = p + m
  OBVIOUS
<1>2. DOMAIN s = 1 .. m /\ \A k \in 1 .. m : s[k] = p + k
  OBVIOUS
<1> HIDE DEF s, m
<1>3. PICK F : Chars!IsTrace(F, text, NoToken, s, m)
  BY <1>1, <1>2, Induct, Chars!FoldTrace DEF Numbers!NatInduction, Chars!NatInduction
<1>4. F[0] = NoToken /\ \A k \in 1 .. m : F[k] = TakeChar(text, F[k - 1], p + k)
  BY <1>2, <1>3 DEF Chars!IsTrace
<1> HIDE DEF n
<1> DEFINE f == [i \in p .. n |-> F[i - p]]
<1>5. ASSUME NEW i \in p .. n
      PROVE  f[i] = IF i = p THEN NoToken ELSE TakeChar(text, f[i - 1], i)
  <2>1. CASE i = p
    <3>1. i - p = 0
      BY <1>1, <2>1
    <3> QED BY <1>4, <2>1, <3>1
  <2>2. CASE i # p
    <3>1. i - p \in 1 .. m /\ p + (i - p) = i /\ i - 1 \in p .. n /\ (i - p) - 1 = (i - 1) - p
      BY <1>1, <2>2
    <3>2. f[i - 1] = F[(i - p) - 1] /\ f[i] = F[i - p]
      BY <3>1
    <3> HIDE DEF f
    <3> QED BY <1>4, <2>2, <3>1, <3>2
  <2> QED BY <2>1, <2>2
<1>6. IsRec(f)
  <2>1. f = [i \in p .. n |-> f[i]]
    OBVIOUS
  <2> HIDE DEF f
  <2> QED BY <1>5, <2>1
<1>7. \E g : IsRec(g)
  BY <1>6
<1> DEFINE U == CHOOSE g : IsRec(g)
<1>8. IsRec(U)
  BY <1>7
<1>9. p # n => GetNextLineAndSplitIntoTokens(text, p) = FoundBy(U, text, p)
  BY DEF GetNextLineAndSplitIntoTokens, FoundBy, n
<1> HIDE DEF U
<1>10. U[p] = NoToken /\ \A i \in p + 1 .. n : U[i] = TakeChar(text, U[i - 1], i)
  <2>1. \A i \in p .. n : U[i] = IF i = p THEN NoToken ELSE TakeChar(text, U[i - 1], i)
    BY <1>8
  <2>2. p \in p .. n /\ \A i \in p + 1 .. n : i \in p .. n /\ i # p
    BY <1>1
  <2> QED BY <2>1, <2>2
<1>11. IsScan(U, text, p)
  BY <1>10 DEF IsScan, n
<1> QED BY <1>9, <1>11 DEF n

\* A record behind position p, and where the next one begins.
IsNext(next, text, p) ==
  /\ p = Len(text) => next = [record |-> <<>>, position |-> p, eof |-> TRUE]
  /\ p # Len(text) =>
       /\ next.record \in Seq(Texts) /\ next.record # <<>>
       /\ next.position \in p + 1 .. Len(text) /\ next.eof \in BOOLEAN

\* The reader finds no record only at the end of the text; else it moves on.
LEMMA NextIs ==
  ASSUME NEW text \in Seq(Int), NEW p \in 0 .. Len(text)
  PROVE  IsNext(GetNextLineAndSplitIntoTokens(text, p), text, p)
<1> DEFINE next == GetNextLineAndSplitIntoTokens(text, p)  n == Len(text)
<1>0. n \in Nat /\ p \in 0 .. n
  OBVIOUS
<1>1. CASE p = Len(text)
  <2>1. next = [record |-> <<>>, position |-> p, eof |-> TRUE]
    BY <1>1 DEF GetNextLineAndSplitIntoTokens
  <2> HIDE DEF next
  <2>2. IsNext(next, text, p)
    BY <1>1, <2>1 DEF IsNext
  <2> QED BY <2>2 DEF next
<1>2. CASE p # Len(text)
  <2>1. PICK U : IsScan(U, text, p) /\ next = FoundBy(U, text, p)
    BY <1>2, ScanExists
  <2>2. U[p] = NoToken /\ \A i \in p + 1 .. n : U[i] = TakeChar(text, U[i - 1], i)
    BY <2>1 DEF IsScan
  <2> DEFINE Good(x, i) == /\ x \in Partial /\ (x.ended => x.position \in p + 1 .. i)
                           /\ (~x.ended /\ i > p => x.position = i)
             m == n - p
             P == {k \in 0 .. m : Good(U[p + k], p + k)}
  <2>3. m \in Nat /\ p + m = n /\ m > 0
    BY <1>0, <1>2
  <2>4. 0 \in P
    <3>1. NoToken \in Partial /\ ~NoToken.ended
      BY DEF NoToken, Partial
    <3>2. p + 0 = p /\ ~(p + 0 > p)
      BY <1>0
    <3> QED BY <2>2, <2>3, <3>1, <3>2
  <2>5. ASSUME NEW k \in 0 .. m - 1, k \in P PROVE k + 1 \in P
    <3> DEFINE i == p + (k + 1)
    <3>1. i \in p + 1 .. n /\ i - 1 = p + k /\ i \in 1 .. Len(text) /\ k + 1 \in 0 .. m
          /\ i > p /\ p + 1 .. i - 1 \subseteq p + 1 .. i
      BY <1>0, <2>3
    <3> DEFINE x == U[i - 1]  y == U[i]
    <3>2. Good(x, i - 1)
      BY <2>5, <3>1
    <3>3. y = TakeChar(text, x, i)
      BY <2>2, <3>1
    <3> HIDE DEF x, y, i
    <3>4. /\ y \in Partial /\ (x.ended => y = x) /\ (~x.ended => y.position = i)
      BY <3>1, <3>2, <3>3, TakeCharType
    <3>5. i \in p + 1 .. i
      BY <1>0, <3>1
    <3>6. ASSUME x.ended PROVE Good(y, i)
      <4>1. y \in Partial /\ y.ended /\ y.position \in p + 1 .. i - 1
        BY <3>2, <3>4, <3>6
      <4> QED BY <3>1, <4>1
    <3>7. ASSUME ~x.ended PROVE Good(y, i)
      <4>1. y \in Partial /\ y.position = i
        BY <3>4, <3>7
      <4> QED BY <3>5, <4>1
    <3> HIDE DEF Good
    <3>8. Good(y, i)
      BY <3>6, <3>7
    <3> QED BY <3>1, <3>8 DEF y, i, Good
  <2> HIDE DEF P
  <2>6. m \in P
    <3> HIDE DEF m
    <3>1. 0 .. m \subseteq P
      BY <2>3, <2>4, <2>5, Induct, Numbers!UpTo
    <3> QED BY <2>3, <3>1
  <2> DEFINE r == U[n]
  <2>7. Good(r, n)
    BY <2>3, <2>6 DEF P
  <2> HIDE DEF m, r
  <2> DEFINE rest == IF r.in_quotes /\ Last(text) # NewLine THEN EndLine(r) ELSE r
  <2>8. r \in Partial /\ r.position \in p + 1 .. n /\ r.ended \in BOOLEAN
    <3>1. n \in p + 1 .. n /\ n > p
      BY <1>0, <1>2
    <3> QED BY <2>7, <3>1 DEF Partial
  <2>9. rest \in Partial
    BY <2>8, EndLineType
  <2>10. next = [record |-> PushToken(rest).record, position |-> r.position, eof |-> ~r.ended]
    BY <2>1 DEF FoundBy, r
  <2> HIDE DEF rest, next
  <2>11. PushToken(rest).record = Append(rest.record, rest.token)
    BY <2>9, PushTokenType
  <2>12. rest.record \in Seq(Texts) /\ rest.token \in Texts
    BY <2>9 DEF Partial, Texts
  <2> DEFINE record == Append(rest.record, rest.token)
  <2>13. record \in Seq(Texts) /\ record # <<>>
    BY <2>12
  <2>14. next.record = record /\ next.position = r.position /\ next.eof = ~r.ended
    BY <2>10, <2>11
  <2>15. IsNext(next, text, p)
    BY <1>2, <2>8, <2>13, <2>14 DEF IsNext
  <2> QED BY <2>15 DEF next
<1> QED BY <1>1, <1>2

\* One more record of a text.
StepOf(text, acc) ==
  LET next == GetNextLineAndSplitIntoTokens(text, acc.position)
  IN IF acc.eof \/ next.record = <<>> THEN [acc EXCEPT !.eof = TRUE]
     ELSE [records |-> Append(acc.records, next.record),
           position |-> next.position, eof |-> next.eof]

\* The fold of Records over the records of a text.
Lines == INSTANCE ProofRules
  WITH Op <- LAMBDA e, acc, k : StepOf(e, acc), Val <- LAMBDA a, b, x : x

\* What it begins with.
NoRecords == [records |-> <<>>, position |-> 0, eof |-> FALSE]

\* T has what is read after 0, 1, .. records.
IsLines(T, text) ==
  /\ T[0] = NoRecords
  /\ \A k \in 1 .. Len(text) : T[k] = StepOf(text, T[k - 1])
  /\ Records(text) = T[Len(text)].records

\* The records of a text as they are read.
LinesOf(text) == CHOOSE T : IsLines(T, text)

\* The fold of Records reads one record after the other.
LEMMA LinesTrace ==
  ASSUME NEW text \in Seq(Int)
  PROVE  IsLines(LinesOf(text), text)
<1> DEFINE n == Len(text)  s == [k \in 1 .. n |-> k]
<1>1. n \in Nat /\ DOMAIN s = 1 .. n
  OBVIOUS
<1> HIDE DEF s, n
<1>2. PICK T : Lines!IsTrace(T, text, NoRecords, s, n)
  BY <1>1, Induct, Lines!FoldTrace DEF Numbers!NatInduction, Lines!NatInduction
<1>3. /\ T[0] = NoRecords /\ \A k \in 1 .. n : T[k] = StepOf(text, T[k - 1])
      /\ Lines!Folded(text, NoRecords, s) = T[n]
  BY <1>2 DEF Lines!IsTrace
<1>4. Records(text) = Lines!Folded(text, NoRecords, s).records
  BY DEF Records, StepOf, NoRecords, s, n, FoldLeft, MapThenFoldSet, Max, Lines!Folded,
         Lines!MapThenFoldSet, Lines!Greatest
<1>5. IsLines(T, text)
  BY <1>3, <1>4 DEF IsLines, n
<1> QED BY <1>5 DEF LinesOf

\* The rows of a CSV file: records of texts.
Rows == Seq(Texts)

\* What is kept between two records.
IsKept(acc, text) ==
  /\ acc = [records |-> acc.records, position |-> acc.position, eof |-> acc.eof]
  /\ acc.records \in Seq(Rows) /\ acc.position \in 0 .. Len(text) /\ acc.eof \in BOOLEAN

\* Reading a record keeps those before it; behind the end nothing is read.
LEMMA StepType ==
  ASSUME NEW text \in Seq(Int), NEW acc, IsKept(acc, text)
  PROVE  /\ IsKept(StepOf(text, acc), text)
         /\ At(StepOf(text, acc).records, 0, acc.records)
         /\ acc.eof => StepOf(text, acc) = acc
<1> DEFINE p == acc.position  next == GetNextLineAndSplitIntoTokens(text, p)
           new == StepOf(text, acc)  rs == acc.records
<1>1. /\ acc = [records |-> rs, position |-> p, eof |-> acc.eof]
      /\ rs \in Seq(Rows) /\ p \in 0 .. Len(text) /\ acc.eof \in BOOLEAN
  BY DEF IsKept
<1>2. IsNext(next, text, p)
  BY <1>1, NextIs
<1>3. new = IF acc.eof \/ next.record = <<>> THEN [acc EXCEPT !.eof = TRUE]
            ELSE [records |-> Append(rs, next.record), position |-> next.position, eof |-> next.eof]
  BY DEF StepOf
<1> HIDE DEF next, new, p, rs
<1>4. CASE acc.eof \/ next.record = <<>>
  <2>1. new = [records |-> rs, position |-> p, eof |-> TRUE]
    <3>1. new = [acc EXCEPT !.eof = TRUE]
      BY <1>3, <1>4
    <3> DEFINE e == acc.eof
    <3>2. acc = [records |-> rs, position |-> p, eof |-> e]
      BY <1>1
    <3> HIDE DEF e
    <3> QED BY <3>1, <3>2
  <2>2. IsKept(new, text)
    BY <1>1, <2>1 DEF IsKept
  <2>3. At(new.records, 0, rs)
    BY <1>1, <2>1, AtSelf
  <2>4. acc.eof => new = acc
    BY <1>1, <2>1
  <2> QED BY <2>2, <2>3, <2>4 DEF new, rs
<1>5. CASE ~acc.eof /\ next.record # <<>>
  <2> DEFINE q == next.position  e == next.eof  r == next.record  qs == Append(rs, r)
  <2>1. new = [records |-> qs, position |-> q, eof |-> e]
    BY <1>3, <1>5
  <2>2. r \in Rows /\ q \in 0 .. Len(text) /\ e \in BOOLEAN
    <3>1. p # Len(text)
      BY <1>2, <1>5 DEF IsNext
    <3>2. r \in Rows /\ q \in p + 1 .. Len(text) /\ e \in BOOLEAN
      BY <1>2, <3>1 DEF IsNext, Rows
    <3> HIDE DEF q
    <3> QED BY <1>1, <3>2
  <2> HIDE DEF q, e, r
  <2>3. qs \in Seq(Rows) /\ At(qs, 0, rs)
    BY <1>1, <2>2 DEF At
  <2> HIDE DEF qs
  <2>4. IsKept(new, text) /\ At(new.records, 0, rs)
    BY <2>1, <2>2, <2>3 DEF IsKept
  <2> QED BY <1>5, <2>4 DEF new, rs
<1> QED BY <1>4, <1>5 DEF new, rs

\* k records have been read, and all of a text before position p.
Unread(text, k, p) ==
  /\ k \in 0 .. Len(text) /\ k <= p
  /\ LET acc == LinesOf(text)[k]
     IN Len(acc.records) = k /\ acc.position = p /\ ~acc.eof

\* At each step there are records, a position and the end-of-file flag.
LEMMA LinesKept ==
  ASSUME NEW text \in Seq(Int), NEW i \in 0 .. Len(text)
  PROVE  IsKept(LinesOf(text)[i], text)
<1> DEFINE T == LinesOf(text)  n == Len(text)  P == {k \in 0 .. n : IsKept(T[k], text)}
<1>1. n \in Nat /\ i \in 0 .. n
  OBVIOUS
<1>2. T[0] = NoRecords /\ \A k \in 1 .. n : T[k] = StepOf(text, T[k - 1])
  BY LinesTrace DEF IsLines
<1>3. 0 \in P
  <2>1. IsKept(NoRecords, text)
    <3>1. <<>> \in Seq(Rows) /\ 0 \in 0 .. n
      BY <1>1
    <3> QED BY <3>1 DEF NoRecords, IsKept
  <2> QED BY <1>1, <1>2, <2>1
<1> HIDE DEF n, T
<1>4. ASSUME NEW k \in 0 .. n - 1, k \in P PROVE k + 1 \in P
  <2>1. k + 1 \in 1 .. n /\ (k + 1) - 1 = k /\ k + 1 \in 0 .. n
    BY <1>1
  <2>2. T[k + 1] = StepOf(text, T[k]) /\ IsKept(T[k], text)
    BY <1>2, <1>4, <2>1
  <2>3. IsKept(T[k + 1], text)
    BY <2>2, StepType
  <2> QED BY <2>1, <2>3
<1> HIDE DEF P
<1>5. i \in P
  <2>1. 0 .. n \subseteq P
    BY <1>1, <1>3, <1>4, Induct, Numbers!UpTo
  <2> QED BY <1>1, <2>1
<1> QED BY <1>5 DEF P, T

\* What has been read remains: the first records of the text are those.
LEMMA LinesGrow ==
  ASSUME NEW text \in Seq(Int), NEW i \in 0 .. Len(text)
  PROVE  /\ At(Records(text), 0, LinesOf(text)[i].records)
         /\ LinesOf(text)[i].eof => Records(text) = LinesOf(text)[i].records
         /\ Records(text) \in Seq(Rows)
<1> DEFINE T == LinesOf(text)  n == Len(text)  d == n - i
           P == {k \in 0 .. d : /\ At(T[i + k].records, 0, T[i].records)
                                /\ T[i].eof => T[i + k] = T[i]}
<1>1. n \in Nat /\ i \in 0 .. n /\ d \in Nat /\ i + d = n /\ i + 0 = i /\ n \in 0 .. Len(text)
  OBVIOUS
<1>2. (\A k \in 1 .. n : T[k] = StepOf(text, T[k - 1])) /\ Records(text) = T[n].records
  BY LinesTrace DEF IsLines
<1>3. \A k \in 0 .. n : IsKept(T[k], text) /\ T[k].records \in Seq(Rows)
  BY LinesKept DEF IsKept
<1> HIDE DEF T
<1>4. 0 \in P
  <2>1. At(T[i].records, 0, T[i].records)
    BY <1>3, AtSelf
  <2> QED BY <1>1, <2>1
<1> HIDE DEF n, d
<1>5. ASSUME NEW k \in 0 .. d - 1, k \in P PROVE k + 1 \in P
  <2>1. i + (k + 1) \in 1 .. n /\ (i + (k + 1)) - 1 = i + k /\ k + 1 \in 0 .. d
        /\ i + k \in 0 .. n /\ i + (k + 1) \in 0 .. n
    BY <1>1
  <2> DEFINE x == T[i]  y == T[i + k]  z == T[i + (k + 1)]
  <2>2. z = StepOf(text, y)
    BY <1>2, <2>1
  <2>3. At(y.records, 0, x.records) /\ (x.eof => y = x)
    BY <1>5
  <2>4. x.records \in Seq(Rows) /\ y.records \in Seq(Rows) /\ z.records \in Seq(Rows)
        /\ IsKept(y, text)
    BY <1>1, <1>3, <2>1
  <2> HIDE DEF x, y, z
  <2>5. At(z.records, 0, y.records) /\ (y.eof => z = y)
    BY <2>2, <2>4, StepType
  <2>6. At(z.records, 0 + 0, x.records)
    BY <2>3, <2>4, <2>5, AtInner
  <2>7. x.eof => z = x
    BY <2>3, <2>5
  <2> QED BY <2>1, <2>6, <2>7 DEF x, z
<1> HIDE DEF P
<1>6. d \in P
  <2>1. 0 .. d \subseteq P
    BY <1>1, <1>4, <1>5, Induct, Numbers!UpTo
  <2> QED BY <1>1, <2>1
<1>7. At(T[n].records, 0, T[i].records) /\ (T[i].eof => T[n] = T[i])
  BY <1>1, <1>6 DEF P
<1>8. T[n].records \in Seq(Rows)
  BY <1>1, <1>3
<1> QED BY <1>2, <1>7, <1>8 DEF T

\* Before the first read no record of the text has been read.
LEMMA FirstUnread ==
  ASSUME NEW text \in Seq(Int)
  PROVE  Unread(text, 0, 0)
<1>1. LinesOf(text)[0] = NoRecords
  BY LinesTrace DEF IsLines
<1>2. 0 \in 0 .. Len(text) /\ 0 <= 0
  OBVIOUS
<1> QED BY <1>1, <1>2 DEF Unread, NoRecords

\* The next record is the next one of the text.
THEOREM NextUnread ==
  ASSUME NEW text \in Seq(Int), NEW k, NEW p, Unread(text, k, p), NEW next,
         next = GetNextLineAndSplitIntoTokens(text, p)
  PROVE  /\ p \in 0 .. Len(text) /\ k \in Nat
         /\ next.record = <<>> => Len(Records(text)) = k
         /\ next.record # <<>> =>
              /\ k + 1 <= Len(Records(text)) /\ next.record = Records(text)[k + 1]
              /\ next.eof \in BOOLEAN /\ next.position \in p + 1 .. Len(text)
              /\ IF next.eof THEN Len(Records(text)) = k + 1
                             ELSE Unread(text, k + 1, next.position)
<1> DEFINE T == LinesOf(text)  n == Len(text)  R == Records(text)  acc == T[k]
<1>1. /\ k \in 0 .. n /\ k <= p /\ Len(acc.records) = k /\ acc.position = p /\ ~acc.eof
      /\ n \in Nat
  BY DEF Unread
<1>2. T[0] = NoRecords /\ (\A j \in 1 .. n : T[j] = StepOf(text, T[j - 1])) /\ R = T[n].records
  BY LinesTrace DEF IsLines
<1>3. IsKept(acc, text)
  BY <1>1, LinesKept
<1>4. p \in 0 .. n /\ acc.records \in Seq(Rows)
      /\ acc = [records |-> acc.records, position |-> p, eof |-> acc.eof]
  BY <1>1, <1>3 DEF IsKept
<1>5. IsNext(next, text, p)
  BY <1>4, NextIs
<1>6. At(R, 0, acc.records) /\ R \in Seq(Rows)
  BY <1>1, LinesGrow
<1>7. k < n => T[k + 1] = StepOf(text, acc) /\ k + 1 \in 0 .. n
  <2> SUFFICES ASSUME k < n PROVE T[k + 1] = StepOf(text, acc) /\ k + 1 \in 0 .. n
    OBVIOUS
  <2>1. k + 1 \in 1 .. n /\ (k + 1) - 1 = k /\ k + 1 \in 0 .. n
    BY <1>1
  <2> HIDE DEF T
  <2> QED BY <1>2, <2>1
<1> HIDE DEF T, R, n
<1>8. ASSUME next.record = <<>> PROVE Len(R) = k
  <2>1. CASE k = n
    BY <1>1, <1>2, <2>1
  <2>2. CASE k # n
    <3>1. k < n
      BY <1>1, <2>2
    <3>2. StepOf(text, acc) = [acc EXCEPT !.eof = TRUE]
      BY <1>1, <1>8 DEF StepOf
    <3> DEFINE new == T[k + 1]
    <3>3. new.eof /\ new.records = acc.records
      BY <1>4, <1>7, <3>1, <3>2
    <3>4. R = new.records
      BY <1>7, <3>1, <3>3, LinesGrow DEF T, R, n
    <3> HIDE DEF new
    <3> QED BY <1>1, <3>3, <3>4
  <2> QED BY <2>1, <2>2
<1>9. ASSUME next.record # <<>>
      PROVE  /\ k + 1 <= Len(R) /\ next.record = R[k + 1]
             /\ next.eof \in BOOLEAN /\ next.position \in p + 1 .. Len(text)
             /\ IF next.eof THEN Len(R) = k + 1 ELSE Unread(text, k + 1, next.position)
  <2>1. /\ p # Len(text) /\ next.record \in Rows
        /\ next.position \in p + 1 .. Len(text) /\ next.eof \in BOOLEAN
    BY <1>5, <1>9 DEF IsNext, Rows
  <2>2. k < n
    BY <1>1, <1>4, <2>1 DEF n
  <2> DEFINE new == T[k + 1]  rs == acc.records  r == next.record  qs == Append(rs, r)
  <2>3. new = [records |-> qs, position |-> next.position, eof |-> next.eof]
    BY <1>1, <1>7, <1>9, <2>2 DEF StepOf
  <2>4. new.records = qs /\ new.position = next.position /\ new.eof = next.eof
    BY <2>3
  <2>5. At(R, 0, new.records) /\ (new.eof => R = new.records)
    BY <1>7, <2>2, LinesGrow DEF T, R, n
  <2> HIDE DEF new, r, rs
  <2>6. rs \in Seq(Rows) /\ Len(rs) = k /\ r \in Rows
    BY <1>1, <1>4, <2>1 DEF rs, r
  <2>7. qs \in Seq(Rows) /\ Len(qs) = k + 1 /\ qs[k + 1] = r
    BY <1>1, <2>6
  <2> HIDE DEF qs
  <2>8. 0 + Len(qs) <= Len(R) /\ R[0 + (k + 1)] = qs[k + 1]
    <3>1. k + 1 \in 1 .. Len(qs)
      BY <1>1, <2>7
    <3>2. At(R, 0, qs)
      BY <2>4, <2>5
    <3> QED BY <3>1, <3>2 DEF At
  <2>9. k + 1 <= Len(R) /\ r = R[k + 1]
    <3>1. 0 + (k + 1) = k + 1
      BY <1>1
    <3> QED BY <2>7, <2>8, <3>1
  <2>10. next.eof => Len(R) = k + 1
    BY <2>4, <2>5, <2>7
  <2>11. ~next.eof => Unread(text, k + 1, next.position)
    <3>1. k + 1 \in 0 .. Len(text) /\ k + 1 <= next.position
      BY <1>1, <1>4, <1>7, <2>1, <2>2 DEF n
    <3>2. new = LinesOf(text)[k + 1]
      BY DEF new, T
    <3> QED BY <2>4, <2>7, <3>1, <3>2 DEF Unread
  <2> QED BY <2>1, <2>9, <2>10, <2>11 DEF r
<1> QED BY <1>1, <1>4, <1>8, <1>9 DEF R, n

-----------------------------------------------------------------------------
\* Sources, rows and row groups.

\* What a cell counts for in a row group.
CellSize(types, record, c) ==
  SizeOf[types[c]] + (IF types[c] = "String" THEN Len(record[c]) ELSE 0)

\* The sums over the cells of a record.
CellSizes == INSTANCE ProofRules
  WITH Op <- LAMBDA e, x, y : x,
       Val <- LAMBDA types, record, c : CellSize(types, record, c)

\* The size of a row, as a sum.
SizeOfRow(types, record) == CellSizes!SumOver(types, record, 1 .. Len(types))

\* The sums over the rows of a source.
RowSizes == INSTANCE ProofRules
  WITH Op <- LAMBDA e, x, y : x,
       Val <- LAMBDA types, records, r : SizeOfRow(types, records[r])

\* The size of the rows lo + 1 .. hi.
Weight(s, lo, hi) == RowSizes!SumOver(s.types, s.records, lo + 1 .. hi)

\* What EggFileAssumption says of a source.
IsSource(s) ==
  /\ s.types \in Seq(Type) /\ s.header \in BOOLEAN
  /\ s.names \in Seq(Texts)
  /\ s.text \in Seq(Int) /\ s.records \in Seq(Rows)
  /\ Records(s.text) = (IF s.header THEN <<s.names>> ELSE <<>>) \o s.records
  /\ Len(s.records) <= Words

\* Row r is in the source and has all its cells.
Taken(s, r) ==
  /\ r \in 1 .. Len(s.records)
  /\ Len(s.types) <= Len(s.records[r])

\* RowSize is that sum.
LEMMA RowSizeIs ==
  ASSUME NEW record
  PROVE  RowSize(record) = SizeOfRow(Types, record)
BY DEF RowSize, SizeOfRow, CellSizes!SumOver, CellSize, ColumnNum, MapThenSumSet, MapThenFoldSet, CellSizes!MapThenFoldSet

\* A sum of RowSize over rows of the source is their weight.
LEMMA WeightIs ==
  ASSUME NEW lo, NEW hi
  PROVE  MapThenSumSet(LAMBDA r : RowSize(source.records[r]), lo + 1 .. hi)
           = Weight(source, lo, hi)
<1>1. \A record : RowSize(record) = SizeOfRow(source.types, record)
  BY RowSizeIs DEF Types
<1> QED BY <1>1 DEF Weight, RowSizes!SumOver, MapThenSumSet, MapThenFoldSet, RowSizes!MapThenFoldSet

\* The size of a row is a number.
LEMMA RowNat ==
  ASSUME NEW s, IsSource(s), NEW r, Taken(s, r)
  PROVE  SizeOfRow(s.types, s.records[r]) \in Nat
<1> DEFINE types == s.types  record == s.records[r]  n == Len(types)
<1>1. types \in Seq(Type) /\ record \in Rows /\ n <= Len(record) /\ n \in Nat
  BY DEF IsSource, Taken
<1> HIDE DEF types, record
<1>2. ASSUME NEW c \in 1 .. n PROVE CellSize(types, record, c) \in Nat
  <2>1. types[c] \in Type /\ record[c] \in Seq(Int)
    BY <1>1 DEF Rows, Texts
  <2>2. SizeOf[types[c]] \in Nat /\ Len(record[c]) \in Nat
    BY <2>1, EggFileAssumption
  <2> QED BY <2>2 DEF CellSize
<1> HIDE DEF n
<1>3. CellSizes!SumOver(types, record, 1 .. n) \in Nat
  BY <1>1, <1>2, Induct, CellSizes!SumNat DEF Numbers!NatInduction, CellSizes!NatInduction
<1> QED BY <1>3 DEF SizeOfRow, types, record, n

\* The rows S of b have sizes.
AllSized(a, b, S) == \A y \in S : SizeOfRow(a, b[y]) \in Int

\* A row more adds its size.
LEMMA WeightAdd ==
  ASSUME NEW a, NEW b, NEW S, NEW x, RowSizes!Bounded(S \cup {x}), x \notin S,
         AllSized(a, b, S \cup {x})
  PROVE  RowSizes!SumOver(a, b, S \cup {x}) = RowSizes!SumOver(a, b, S) + SizeOfRow(a, b[x])
<1>1. PICK n \in Nat : S \cup {x} \in SUBSET (1 .. n)
  BY DEF RowSizes!Bounded
<1>2. \A y \in S \cup {x} : SizeOfRow(a, b[y]) \in Int
  BY DEF AllSized
<1>3. S \in SUBSET (1 .. n) /\ x \in (1 .. n) \ S
  BY <1>1
<1>4. RowSizes!NatInduction
  BY Induct DEF Numbers!NatInduction, RowSizes!NatInduction
<1> QED BY <1>2, <1>3, <1>4, RowSizes!SumAdd

\* The weight of rows: nothing, and one row more.
LEMMA WeightFacts ==
  ASSUME NEW s, IsSource(s), NEW lo \in Nat, NEW hi \in Nat, lo <= hi,
         \A r \in lo + 1 .. hi : Taken(s, r)
  PROVE  /\ Weight(s, lo, hi) \in Nat
         /\ Weight(s, lo, lo) = 0
         /\ Weight(s, lo, lo - 1) = 0
         /\ Taken(s, hi + 1) =>
              Weight(s, lo, hi + 1) = Weight(s, lo, hi) + SizeOfRow(s.types, s.records[hi + 1])
<1> DEFINE S == lo + 1 .. hi  a == s.types  b == s.records  n == hi
<1>1. S \in SUBSET (1 .. n) /\ n \in Nat
  OBVIOUS
<1>2. \A r \in S : SizeOfRow(a, b[r]) \in Nat
  BY RowNat
<1>3. lo + 1 .. lo = {} /\ lo + 1 .. lo - 1 = {}
  OBVIOUS
<1>4. ASSUME Taken(s, hi + 1)
      PROVE  RowSizes!SumOver(a, b, lo + 1 .. hi + 1) = RowSizes!SumOver(a, b, S) + SizeOfRow(a, b[hi + 1])
  <2>1. SizeOfRow(a, b[hi + 1]) \in Nat
    BY <1>4, RowNat
  <2>2. lo + 1 .. hi + 1 = S \cup {hi + 1} /\ hi + 1 \notin S
    OBVIOUS
  <2> DEFINE x == hi + 1
  <2>3. x \notin S /\ AllSized(a, b, S \cup {x})
    BY <1>2, <2>1, <2>2 DEF AllSized
  <2>4. RowSizes!Bounded(S \cup {x})
    <3>1. hi + 1 \in Nat /\ S \cup {x} \in SUBSET (1 .. hi + 1)
      BY <1>1
    <3> QED BY <3>1 DEF RowSizes!Bounded
  <2> HIDE DEF S, x, a, b
  <2>5. RowSizes!SumOver(a, b, S \cup {x}) = RowSizes!SumOver(a, b, S) + SizeOfRow(a, b[x])
    BY <2>3, <2>4, WeightAdd
  <2> QED BY <2>2, <2>5 DEF x
<1>5. RowSizes!SumOver(a, b, S) \in Nat
  <2> HIDE DEF S, n, a, b
  <2> QED BY <1>1, <1>2, Induct, RowSizes!SumNat DEF Numbers!NatInduction, RowSizes!NatInduction
<1>6. RowSizes!SumOver(a, b, {}) = 0
  BY Induct, RowSizes!SumEmpty DEF Numbers!NatInduction, RowSizes!NatInduction
<1> HIDE DEF n
<1> QED BY <1>3, <1>4, <1>5, <1>6 DEF Weight, S, a, b

\* A cell that is a date is in the range of dates.
DatesFit(s) ==
  \A r \in DOMAIN s.records : \A c \in DOMAIN s.records[r] \cap DOMAIN s.types :
    s.types[c] \in DateType /\ s.records[r][c] # <<>> =>
      s.records[r][c][1] \in Low[s.types[c]] .. High[s.types[c]]

\* What EggFileAssumption says of a source.
LEMMA SourceFacts ==
  ASSUME NEW s \in Sources
  PROVE  IsSource(s) /\ DatesFit(s)
BY EggFileAssumption DEF IsSource, DatesFit, Rows, Texts, Words

\* Row r has all its cells, and each of them parses.
Parsed(s, r) ==
  Taken(s, r) /\ \A c \in 1 .. Len(s.types) : ~Throws(s.types[c], s.records[r][c])

\* The value of cell c of row r.
Cell(s, c, r) == Parse(s.types[c], s.records[r][c])

\* What parses is a value of its type.
LEMMA ParseIs ==
  ASSUME NEW type \in Type, NEW token \in Seq(Int), ~Throws(type, token),
         type \in DateType /\ token # <<>> => token[1] \in Low[type] .. High[type]
  PROVE  Parse(type, token) \in Value(type)
<1>1. CASE type \in IntType
  <2>1. token # <<>>
    BY <1>1 DEF Throws
  <2>2. token[1] \in Int
    BY <2>1
  <2>3. Parse(type, token) = CastTo(type, token[1])
    BY <1>1 DEF Parse, IntType, DateType
  <2>4. CastTo(type, token[1]) \in Low[type] .. High[type]
    BY <1>1, <2>2, CastInRange
  <2>5. Value(type) = Low[type] .. High[type]
    BY <1>1 DEF Value, IntType, DateType
  <2> QED BY <2>3, <2>4, <2>5
<1>2. CASE type \in DateType
  <2>1. Parse(type, token) = IF token = <<>> THEN 0 ELSE token[1]
    BY <1>2 DEF Parse, IntType, DateType
  <2>2. Value(type) = Low[type] .. High[type]
    BY <1>2 DEF Value, IntType, DateType
  <2>3. 0 \in Low[type] .. High[type]
    BY <1>2, TypeFacts
  <2> QED BY <1>2, <2>1, <2>2, <2>3
<1>3. CASE type = "String"
  BY <1>3 DEF Parse, Value, IntType, DateType
<1>4. CASE type = "Double"
  <2>1. Parse(type, token) = IF token = <<>> THEN 0 ELSE token[1]
    BY <1>4 DEF Parse, IntType, DateType
  <2>2. Value(type) = Int
    BY <1>4 DEF Value, IntType, DateType
  <2>3. token # <<>> => token[1] \in Int
    OBVIOUS
  <2> QED BY <2>1, <2>2, <2>3
<1> QED BY <1>1, <1>2, <1>3, <1>4 DEF Type

\* So is every cell of a parsed row.
LEMMA CellValue ==
  ASSUME NEW s, IsSource(s), DatesFit(s), NEW r, Parsed(s, r), NEW c \in 1 .. Len(s.types)
  PROVE  s.types[c] \in Type /\ Cell(s, c, r) \in Value(s.types[c])
<1> DEFINE types == s.types  record == s.records[r]
<1>1. types \in Seq(Type) /\ s.records \in Seq(Rows)
  BY DEF IsSource
<1>2. r \in 1 .. Len(s.records) /\ record \in Rows /\ Len(types) <= Len(record)
  BY <1>1 DEF Parsed, Taken
<1>3. c \in 1 .. Len(record) /\ types[c] \in Type
  BY <1>1, <1>2 DEF Rows
<1>4. record[c] \in Seq(Int)
  BY <1>2, <1>3 DEF Rows, Texts
<1>5. ~Throws(types[c], record[c])
  BY DEF Parsed
<1>6. types[c] \in DateType /\ record[c] # <<>> => record[c][1] \in Low[types[c]] .. High[types[c]]
  <2>1. r \in DOMAIN s.records /\ c \in DOMAIN record \cap DOMAIN types
    BY <1>1, <1>2, <1>3 DEF Rows
  <2> QED BY <2>1 DEF DatesFit
<1> HIDE DEF record, types
<1>7. Parse(types[c], record[c]) \in Value(types[c])
  BY <1>3, <1>4, <1>5, <1>6, ParseIs
<1> QED BY <1>3, <1>7 DEF Cell, record, types

\* The cells of column c in the rows lo + 1 .. hi.
CellsOf(s, lo, hi, c) == [k \in 1 .. hi - lo |-> Cell(s, c, lo + k)]

\* The rows lo + 1 .. hi of a source can make a row group.
AreRows(s, lo, hi) ==
  /\ IsSource(s) /\ DatesFit(s)
  /\ lo \in Nat /\ hi \in Nat /\ lo <= hi /\ hi <= Len(s.records)
  /\ \A r \in lo + 1 .. hi : Parsed(s, r)

\* They are a column that can be encoded, of hi - lo cells.
LEMMA CellsAre ==
  ASSUME NEW s, NEW lo, NEW hi, AreRows(s, lo, hi), NEW c \in 1 .. Len(s.types)
  PROVE  /\ s.types[c] \in Type
         /\ IsColumn(s.types[c], CellsOf(s, lo, hi, c))
         /\ CellsOf(s, lo, hi, c) \in Seq(Value(s.types[c]))
         /\ Len(CellsOf(s, lo, hi, c)) = hi - lo
         /\ \A k \in 1 .. hi - lo : CellsOf(s, lo, hi, c)[k] = Cell(s, c, lo + k)
<1> DEFINE cells == CellsOf(s, lo, hi, c)  type == s.types[c]  n == hi - lo
<1>1. n \in Nat /\ lo \in Nat /\ hi \in Nat /\ n <= Len(s.records) /\ Len(s.records) <= Words
      /\ Len(s.records) \in Nat
  BY DEF AreRows, IsSource
<1>2. type \in Type
  BY DEF AreRows, IsSource
<1>3. ASSUME NEW k \in 1 .. n PROVE cells[k] = Cell(s, c, lo + k) /\ cells[k] \in Value(type)
  <2>1. lo + k \in lo + 1 .. hi
    BY <1>1
  <2>2. Parsed(s, lo + k)
    BY <2>1 DEF AreRows
  <2>3. Cell(s, c, lo + k) \in Value(type)
    BY <2>2, CellValue DEF AreRows
  <2> QED BY <2>3 DEF CellsOf
<1>4. DOMAIN cells = 1 .. n
  BY DEF CellsOf
<1>5. cells = [k \in 1 .. n |-> cells[k]]
  BY DEF CellsOf
<1> HIDE DEF cells, n
<1> USE DEF Texts
<1>6. cells \in [1 .. n -> Value(type)]
  BY <1>3, <1>5
<1>7. cells \in Seq(Value(type)) /\ Len(cells) = n
  BY <1>1, <1>6, SeqOfFunction
<1>9. Len(cells) <= Words
  BY <1>1, <1>7, WordFacts
<1> HIDE DEF type
<1>8. IsColumn(type, cells)
  <2>1. CASE type \in IntType \cup DateType
    <3>0. Low[type] \in Int /\ High[type] \in Int
      BY <2>1, TypeFacts
    <3>1. Value(type) = Low[type] .. High[type]
      BY <2>1 DEF Value, IntType, DateType
    <3>2. \A k \in 1 .. n : cells[k] \in Low[type] .. High[type] /\ cells[k] \in Int
      BY <1>3, <3>0, <3>1
    <3>3. cells \in [1 .. n -> Int]
      BY <1>5, <3>2
    <3>4. cells \in Seq(Int)
      BY <1>1, <3>3, SeqOfFunction
    <3>5. Ranged(type, cells)
      BY <1>7, <3>2, <3>4 DEF Ranged
    <3> QED BY <2>1, <3>5 DEF IsColumn, IntType, DateType
  <2>2. CASE type = "String"
    <3>1. Value(type) = Seq(Int)
      BY <2>2 DEF Value, IntType, DateType
    <3> QED BY <1>7, <1>9, <2>2, <3>1 DEF IsColumn, IntType, DateType
  <2>3. CASE type = "Double"
    <3>1. Value(type) = Int
      BY <2>3 DEF Value, IntType, DateType
    <3> QED BY <1>7, <2>3, <3>1 DEF IsColumn, IntType, DateType
  <2> QED BY <1>2, <2>1, <2>2, <2>3 DEF Type
<1> QED BY <1>2, <1>3, <1>7, <1>8 DEF cells, type, n

\* The encoded columns of the rows lo + 1 .. hi.
Coded(s, lo, hi) ==
  [c \in 1 .. Len(s.types) |-> Encode(s.types[c], CellsOf(s, lo, hi, c))]

\* Each encoded column decodes to the cells that it was made of.
LEMMA CodedAre ==
  ASSUME NEW s, NEW lo, NEW hi, AreRows(s, lo, hi)
  PROVE  /\ Coded(s, lo, hi) \in Seq(Seq(Int)) /\ Len(Coded(s, lo, hi)) = Len(s.types)
         /\ \A c \in 1 .. Len(s.types) :
              Decode(s.types[c], Coded(s, lo, hi)[c]) = CellsOf(s, lo, hi, c)
<1> DEFINE n == Len(s.types)  code == Coded(s, lo, hi)
<1>1. n \in Nat
  BY DEF AreRows, IsSource
<1>2. ASSUME NEW c \in 1 .. n
      PROVE  /\ code[c] \in Seq(Int)
             /\ Decode(s.types[c], code[c]) = CellsOf(s, lo, hi, c)
  <2>1. code[c] = Encode(s.types[c], CellsOf(s, lo, hi, c))
    BY DEF Coded
  <2>2. s.types[c] \in Type /\ IsColumn(s.types[c], CellsOf(s, lo, hi, c))
    BY CellsAre
  <2> QED BY <2>1, <2>2, CodecRoundTrip
<1>3. code = [c \in 1 .. n |-> code[c]]
  BY DEF Coded
<1> HIDE DEF code, n
<1>4. code \in [1 .. n -> Seq(Int)]
  BY <1>2, <1>3
<1>5. code \in Seq(Seq(Int)) /\ Len(code) = n
  BY <1>1, <1>4, SeqOfFunction
<1> QED BY <1>2, <1>5 DEF code, n

\* G has the sums of the first 0, 1, .. sizes.
IsAccumulated(G, sizes) ==
  G[0] = 0 /\ \A i \in 1 .. Len(sizes) : G[i] = G[i - 1] + sizes[i]

\* SizeUpTo is such a sum.
LEMMA SizesOf ==
  ASSUME NEW sizes \in Seq(Nat), NEW G, IsAccumulated(G, sizes), NEW n \in 0 .. Len(sizes)
  PROVE  SizeUpTo(sizes, n) = G[n]
<1> DEFINE s == SubSeq(sizes, 1, n)  P == {i \in 0 .. n : TRUE}
<1>1. n \in Nat /\ Len(sizes) \in Nat /\ n <= Len(sizes) /\ DOMAIN s = 1 .. n
      /\ \A i \in 1 .. n : s[i] = sizes[i]
  <2>1. n \in Nat /\ Len(sizes) \in Nat /\ n <= Len(sizes)
    OBVIOUS
  <2>2. Len(s) = n /\ s \in Seq(Nat) /\ \A i \in 1 .. n : s[i] = sizes[i]
    BY <2>1, SubSeqProperties
  <2> HIDE DEF s
  <2>3. DOMAIN s = 1 .. n
    BY <2>2
  <2> QED BY <2>1, <2>2, <2>3
<1> HIDE DEF s
<1>2. PICK F : Numbers!IsTrace(F, 0, 0, s, n)
  BY <1>1, Induct, Numbers!FoldTrace
<1>3. F[0] = 0 /\ (\A i \in 1 .. n : F[i] = F[i - 1] + s[i]) /\ Numbers!Folded(0, 0, s) = F[n]
  BY <1>2 DEF Numbers!IsTrace
<1>4. SizeUpTo(sizes, n) = Numbers!Folded(0, 0, s)
  BY DEF SizeUpTo, s, FoldLeft, MapThenFoldSet, Max, Numbers!Folded,
         Numbers!MapThenFoldSet, Numbers!Greatest
<1> DEFINE Q == {i \in 0 .. n : F[i] = G[i]}
<1>5. 0 \in Q
  BY <1>1, <1>3 DEF IsAccumulated
<1>6. ASSUME NEW i \in 0 .. n - 1, i \in Q PROVE i + 1 \in Q
  <2>1. i + 1 \in 1 .. n /\ i + 1 \in 1 .. Len(sizes) /\ (i + 1) - 1 = i /\ i + 1 \in 0 .. n
    BY <1>1
  <2>2. F[i + 1] = F[i] + s[i + 1] /\ s[i + 1] = sizes[i + 1]
    BY <1>1, <1>3, <2>1, Zenon
  <2>3. G[i + 1] = G[i] + sizes[i + 1]
    BY <2>1, Zenon DEF IsAccumulated
  <2>4. F[i] = G[i]
    BY <1>6
  <2> QED BY <2>1, <2>2, <2>3, <2>4
<1> HIDE DEF Q
<1>7. n \in Q
  <2>1. 0 .. n \subseteq Q
    BY <1>1, <1>5, <1>6, Induct, Numbers!UpTo
  <2> QED BY <1>1, <2>1
<1> QED BY <1>3, <1>4, <1>7 DEF Q

\* The lengths of texts, and where in all of them together each begins.
LengthsOf(ss) == [i \in 1 .. Len(ss) |-> Len(ss[i])]

\* The sizes of the first sequences are the length of their concatenation.
LEMMA SizesOfFlat ==
  ASSUME NEW ss \in Seq(Seq(Int)), NEW F, IsFlat(F, ss, Int), NEW n \in 0 .. Len(ss)
  PROVE  /\ LengthsOf(ss) \in Seq(Nat) /\ Len(LengthsOf(ss)) = Len(ss)
         /\ SizeUpTo(LengthsOf(ss), n) = Len(F[n])
<1> DEFINE k == Len(ss)  sizes == LengthsOf(ss)  G == [i \in 0 .. k |-> Len(F[i])]
<1>1. k \in Nat /\ n \in 0 .. k
  OBVIOUS
<1>2. \A i \in 1 .. k : Len(ss[i]) \in Nat
  OBVIOUS
<1>3. sizes \in [1 .. k -> Nat] /\ \A i \in 1 .. k : sizes[i] = Len(ss[i])
  BY <1>2 DEF LengthsOf
<1> HIDE DEF sizes
<1>4. sizes \in Seq(Nat) /\ Len(sizes) = k
  BY <1>1, <1>3, SeqOfFunction
<1>5. G[0] = 0
  <2>1. F[0] = <<>>
    BY DEF IsFlat
  <2> QED BY <1>1, <2>1
<1>6. ASSUME NEW i \in 1 .. k PROVE G[i] = G[i - 1] + sizes[i]
  <2>1. Len(F[i]) = Len(F[i - 1]) + Len(ss[i])
    BY FlatAt
  <2>2. i \in 0 .. k /\ i - 1 \in 0 .. k
    BY <1>1
  <2> QED BY <1>3, <2>1, <2>2
<1>7. G[n] = Len(F[n])
  BY <1>1
<1> HIDE DEF G, k
<1>8. IsAccumulated(G, sizes)
  BY <1>4, <1>5, <1>6 DEF IsAccumulated
<1>9. SizeUpTo(sizes, n) = G[n]
  BY <1>1, <1>4, <1>8, SizesOf
<1> QED BY <1>4, <1>7, <1>9 DEF sizes, k

\* The sizes of the encoded columns of the rows lo + 1 .. hi.
Lengths(s, lo, hi) == LengthsOf(Coded(s, lo, hi))

\* What the metadata have for the rows lo + 1 .. hi: the size of the group,
\* those of its columns, its rows.
Section(s, lo, hi) ==
  <<SizeUpTo(Lengths(s, lo, hi), Len(s.types))>> \o Lengths(s, lo, hi) \o <<hi - lo>>

\* Its parts are where the reader looks for them.
LEMMA SectionIs ==
  ASSUME NEW s, NEW lo, NEW hi, AreRows(s, lo, hi)
  PROVE  /\ Section(s, lo, hi) \in Seq(Int)
         /\ Len(Section(s, lo, hi)) = Len(s.types) + 2
         /\ SubSeq(Section(s, lo, hi), 2, Len(s.types) + 1) = Lengths(s, lo, hi)
         /\ Section(s, lo, hi)[Len(s.types) + 2] = hi - lo
         /\ Last(Section(s, lo, hi)) = hi - lo
         /\ Lengths(s, lo, hi) \in Seq(Nat) /\ Len(Lengths(s, lo, hi)) = Len(s.types)
         /\ SizeUpTo(Lengths(s, lo, hi), Len(s.types)) \in Int
<1> DEFINE n == Len(s.types)  code == Coded(s, lo, hi)  sizes == Lengths(s, lo, hi)
           all == SizeUpTo(sizes, n)  sec == Section(s, lo, hi)
<1>1. code \in Seq(Seq(Int)) /\ Len(code) = n /\ n \in Nat
  <2>1. code \in Seq(Seq(Int)) /\ Len(code) = n
    BY CodedAre
  <2>2. n \in Nat
    BY DEF AreRows, IsSource
  <2> QED BY <2>1, <2>2
<1>2. PICK F : IsFlat(F, code, Int) /\ FlattenSeq(code) = F[Len(code)]
  BY <1>1, FlattenTrace
<1>3. n \in 0 .. Len(code)
  BY <1>1
<1>4. sizes \in Seq(Nat) /\ Len(sizes) = n /\ all = Len(F[n])
  BY <1>1, <1>2, <1>3, SizesOfFlat DEF Lengths
<1>5. F[n] \in Seq(Int)
  BY <1>2, <1>3 DEF IsFlat
<1>6. all \in Int /\ hi - lo \in Int
  <2>1. hi - lo \in Int
    BY DEF AreRows
  <2>2. Len(F[n]) \in Nat
    BY <1>5
  <2> QED BY <1>4, <2>1, <2>2
<1> DEFINE m == hi - lo
<1>7. sec = <<all>> \o sizes \o <<m>>
  BY DEF Section
<1>8. sizes \in Seq(Int)
  BY <1>4
<1> HIDE DEF sec, all, sizes, m, n
<1>9. <<all>> \in Seq(Int) /\ <<m>> \in Seq(Int) /\ Len(<<all>>) = 1 /\ Len(<<m>>) = 1 /\ <<m>>[1] = m
  BY <1>6 DEF m
<1>10. sec \in Seq(Int) /\ IsLaid(sec, <<all>>, sizes, <<m>>)
  BY <1>7, <1>8, <1>9, Laid
<1>11. Len(sec) = 1 + n + 1 /\ At(sec, 1, sizes) /\ At(sec, 1 + n, <<m>>)
  BY <1>4, <1>9, <1>10 DEF IsLaid
<1>12. SubSeq(sec, 1 + 1, 1 + n) = sizes
  BY <1>4, <1>8, <1>10, <1>11, AtSub
<1>13. sec[1 + n + 1] = m
  BY <1>9, <1>11 DEF At
<1>14. Len(sec) = n + 2 /\ 1 + n + 1 = n + 2 /\ 1 + n = n + 1 /\ 1 + 1 = 2
  BY <1>1, <1>11
<1>15. Last(sec) = m
  BY <1>13, <1>14 DEF Last
<1> QED BY <1>4, <1>6, <1>10, <1>12, <1>13, <1>14, <1>15 DEF all, sec, sizes, n, m

-----------------------------------------------------------------------------
\* The order of texts and the statistics.

\* s is before t, and n is where they part.
IsBefore(s, t, n) ==
  /\ Agree(s, t, n)
  /\ Len(s) = n \/ (Len(s) > n /\ Len(t) > n /\ s[n + 1] < t[n + 1])

\* The order of texts is decided where they part, and it is total.
LEMMA BeforeIs ==
  ASSUME NEW s \in Seq(Int), NEW t \in Seq(Int)
  PROVE  /\ Before(s, t) => \E n \in Nat : IsBefore(s, t, n)
         /\ (\E n \in Nat : IsBefore(s, t, n)) => Before(s, t)
         /\ Before(s, t) \/ Before(t, s)
<1> DEFINE m == CommonLength(s, t)  k == CommonLength(t, s)
<1>1. Agree(s, t, m) /\ (m < Len(s) /\ m < Len(t) => s[m + 1] # t[m + 1])
  BY CommonIs
<1>2. Agree(t, s, k) /\ (k < Len(s) /\ k < Len(t) => s[k + 1] # t[k + 1])
  BY CommonIs
<1>3. Before(s, t) <=> (Len(s) = m \/ (Len(t) > m /\ s[m + 1] < t[m + 1]))
  BY DEF Before
<1>4. Before(t, s) <=> (Len(t) = k \/ (Len(s) > k /\ t[k + 1] < s[k + 1]))
  BY DEF Before
<1> HIDE DEF m, k
<1>5. Len(s) \in Nat /\ Len(t) \in Nat
  OBVIOUS
<1>6. m \in Nat /\ k \in Nat /\ m <= Len(s) /\ m <= Len(t) /\ k <= Len(s) /\ k <= Len(t)
  BY <1>1, <1>2 DEF Agree
<1>7. ASSUME Before(s, t) PROVE \E n \in Nat : IsBefore(s, t, n)
  <2>1. IsBefore(s, t, m)
    BY <1>1, <1>3, <1>5, <1>6, <1>7 DEF IsBefore
  <2> QED BY <1>6, <2>1
<1>8. ASSUME NEW n \in Nat, IsBefore(s, t, n) PROVE Before(s, t)
  <2>1. Agree(s, t, n) /\ n <= Len(s) /\ n <= Len(t)
    BY <1>8 DEF IsBefore, Agree
  <2>2. ~ (m < n)
    <3> SUFFICES ASSUME m < n PROVE FALSE
      OBVIOUS
    <3>1. m + 1 \in 1 .. n /\ m < Len(s) /\ m < Len(t)
      BY <1>5, <1>6, <2>1
    <3>2. s[m + 1] = t[m + 1]
      BY <2>1, <3>1 DEF Agree
    <3> QED BY <1>1, <3>1, <3>2
  <2>3. CASE Len(s) = n
    BY <1>3, <1>5, <1>6, <2>2, <2>3
  <2>4. CASE Len(s) > n /\ Len(t) > n /\ s[n + 1] < t[n + 1]
    <3>1. ~ (n < m)
      <4> SUFFICES ASSUME n < m PROVE FALSE
        OBVIOUS
      <4>1. n + 1 \in 1 .. m /\ n + 1 \in 1 .. Len(s)
        BY <1>5, <1>6
      <4>2. s[n + 1] = t[n + 1] /\ s[n + 1] \in Int
        BY <1>1, <4>1 DEF Agree
      <4> QED BY <2>4, <4>2
    <3>2. n = m
      BY <1>6, <2>2, <3>1
    <3> QED BY <1>3, <2>4, <3>2
  <2> QED BY <1>8, <2>3, <2>4 DEF IsBefore
<1>9. Agree(t, s, m)
  BY <1>1 DEF Agree
<1>10. Before(s, t) \/ Before(t, s)
  <2>1. CASE Len(s) = m
    BY <1>3, <2>1
  <2>2. CASE Len(t) = m
    <3>1. ~ (k < m)
      <4> SUFFICES ASSUME k < m PROVE FALSE
        OBVIOUS
      <4>1. k + 1 \in 1 .. m /\ k < Len(s) /\ k < Len(t)
        BY <1>5, <1>6
      <4>2. s[k + 1] = t[k + 1]
        BY <1>9, <4>1 DEF Agree
      <4> QED BY <1>2, <4>1, <4>2
    <3>2. Len(t) = k
      BY <1>6, <2>2, <3>1
    <3> QED BY <1>4, <3>2
  <2>3. CASE Len(s) # m /\ Len(t) # m
    <3>1. m < Len(s) /\ m < Len(t) /\ m + 1 \in 1 .. Len(s) /\ m + 1 \in 1 .. Len(t)
      BY <1>5, <1>6, <2>3
    <3>2. s[m + 1] # t[m + 1] /\ s[m + 1] \in Int /\ t[m + 1] \in Int
      BY <1>1, <3>1
    <3>3. CASE s[m + 1] < t[m + 1]
      BY <1>3, <1>6, <3>1, <3>3
    <3>4. CASE t[m + 1] < s[m + 1]
      <4>1. ~ (k < m)
        <5> SUFFICES ASSUME k < m PROVE FALSE
          OBVIOUS
        <5>1. k + 1 \in 1 .. m /\ k < Len(s) /\ k < Len(t)
          BY <1>5, <1>6
        <5>2. s[k + 1] = t[k + 1]
          BY <1>9, <5>1 DEF Agree
        <5> QED BY <1>2, <5>1, <5>2
      <4>2. ~ (m < k)
        <5> SUFFICES ASSUME m < k PROVE FALSE
          OBVIOUS
        <5>1. m + 1 \in 1 .. k
          BY <1>5, <1>6
        <5>2. s[m + 1] = t[m + 1]
          BY <1>2, <5>1 DEF Agree
        <5> QED BY <3>2, <5>2
      <4>3. k = m
        BY <1>6, <4>1, <4>2
      <4> QED BY <1>4, <1>6, <3>1, <3>4, <4>3
    <3> QED BY <3>2, <3>3, <3>4
  <2> QED BY <2>1, <2>2, <2>3
<1> QED BY <1>7, <1>8, <1>10

\* The order of texts is transitive.
LEMMA BeforeTransitive ==
  ASSUME NEW s \in Seq(Int), NEW t \in Seq(Int), NEW u \in Seq(Int), Before(s, t), Before(t, u)
  PROVE  Before(s, u)
<1>1. PICK n \in Nat : IsBefore(s, t, n)
  BY BeforeIs
<1>2. PICK m \in Nat : IsBefore(t, u, m)
  BY BeforeIs
<1>3. Len(s) \in Nat /\ Len(t) \in Nat /\ Len(u) \in Nat
  OBVIOUS
<1>4. n <= Len(s) /\ n <= Len(t) /\ \A j \in 1 .. n : s[j] = t[j]
  BY <1>1 DEF IsBefore, Agree
<1>5. m <= Len(t) /\ m <= Len(u) /\ \A j \in 1 .. m : t[j] = u[j]
  BY <1>2 DEF IsBefore, Agree
<1>6. Len(s) = n \/ (Len(s) > n /\ Len(t) > n /\ s[n + 1] < t[n + 1])
  BY <1>1 DEF IsBefore
<1>7. Len(t) = m \/ (Len(t) > m /\ Len(u) > m /\ t[m + 1] < u[m + 1])
  BY <1>2 DEF IsBefore
<1>8. CASE n <= m
  <2>1. Agree(s, u, n)
    BY <1>3, <1>4, <1>5, <1>8 DEF Agree
  <2>2. Len(s) = n \/ (Len(s) > n /\ Len(u) > n /\ s[n + 1] < u[n + 1])
    <3> SUFFICES ASSUME Len(s) # n PROVE Len(s) > n /\ Len(u) > n /\ s[n + 1] < u[n + 1]
      OBVIOUS
    <3>1. Len(s) > n /\ Len(t) > n /\ s[n + 1] < t[n + 1]
      BY <1>6
    <3>2. CASE n < m
      <4>1. n + 1 \in 1 .. m /\ Len(u) > n
        BY <1>3, <1>5, <3>2
      <4> QED BY <1>5, <3>1, <4>1
    <3>3. CASE n = m
      <4>1. Len(u) > n /\ t[n + 1] < u[n + 1]
        BY <1>3, <1>7, <3>1, <3>3
      <4>2. s[n + 1] \in Int /\ t[n + 1] \in Int /\ u[n + 1] \in Int
        <5>1. n + 1 \in 1 .. Len(s) /\ n + 1 \in 1 .. Len(t) /\ n + 1 \in 1 .. Len(u)
          BY <1>3, <3>1, <4>1
        <5> QED BY <5>1
      <4> QED BY <3>1, <4>1, <4>2
    <3> QED BY <1>8, <3>2, <3>3
  <2>3. IsBefore(s, u, n)
    BY <2>1, <2>2 DEF IsBefore
  <2> QED BY <2>3, BeforeIs
<1>9. CASE m < n
  <2>1. Agree(s, u, m)
    BY <1>3, <1>4, <1>5, <1>9 DEF Agree
  <2>2. Len(u) > m /\ t[m + 1] < u[m + 1] /\ Len(s) > m
    BY <1>3, <1>4, <1>7, <1>9
  <2>3. s[m + 1] = t[m + 1]
    BY <1>4, <1>9
  <2>4. IsBefore(s, u, m)
    BY <2>1, <2>2, <2>3 DEF IsBefore
  <2> QED BY <2>4, BeforeIs
<1> QED BY <1>8, <1>9

\* A column of texts has a first and a last one.
LEMMA LeastText ==
  ASSUME NEW v \in Seq(Texts), v # <<>>
  PROVE  /\ \E k \in 1 .. Len(v) : \A j \in 1 .. Len(v) : Before(v[k], v[j])
         /\ \E k \in 1 .. Len(v) : \A j \in 1 .. Len(v) : Before(v[j], v[k])
<1> DEFINE n == Len(v)
           Lowest(i) == \E k \in 1 .. i : \A j \in 1 .. i : Before(v[k], v[j])
           Topmost(i) == \E k \in 1 .. i : \A j \in 1 .. i : Before(v[j], v[k])
           P == {i \in 0 .. n : i = 0 \/ (Lowest(i) /\ Topmost(i))}
<1>1. n \in Nat \ {0} /\ \A i \in 1 .. n : v[i] \in Seq(Int)
  BY DEF Texts
<1>2. 0 \in P
  BY <1>1
<1> HIDE DEF n
<1>3. ASSUME NEW i \in 0 .. n - 1, i \in P PROVE i + 1 \in P
  <2> DEFINE x == v[i + 1]
  <2>1. i + 1 \in 1 .. n /\ i + 1 \in 0 .. n /\ i \in Nat /\ x \in Seq(Int)
        /\ \A j \in 1 .. i + 1 : j = i + 1 \/ j \in 1 .. i
    BY <1>1
  <2>2. Before(x, x)
    BY <2>1, BeforeIs
  <2>3. \A j \in 1 .. i : j \in 1 .. n /\ v[j] \in Seq(Int) /\ j \in 1 .. i + 1
    BY <1>1, <2>1
  <2>4. CASE i = 0
    <3>1. Lowest(i + 1) /\ Topmost(i + 1)
      <4>1. \A j \in 1 .. i + 1 : j = i + 1
        BY <2>4
      <4>2. i + 1 \in 1 .. i + 1
        BY <2>4
      <4> QED BY <2>2, <4>1, <4>2
    <3> QED BY <2>1, <3>1
  <2>5. CASE i # 0
    <3>1. PICK k \in 1 .. i : \A j \in 1 .. i : Before(v[k], v[j])
      BY <1>3, <2>5
    <3>2. PICK l \in 1 .. i : \A j \in 1 .. i : Before(v[j], v[l])
      BY <1>3, <2>5
    <3>3. i + 1 \in 1 .. i + 1
      BY <2>1
    <3>4. Lowest(i + 1)
      <4>1. CASE Before(v[k], x)
        <5>1. \A j \in 1 .. i + 1 : Before(v[k], v[j])
          BY <2>1, <3>1, <4>1
        <5> QED BY <2>3, <5>1
      <4>2. CASE Before(x, v[k])
        <5>1. \A j \in 1 .. i : Before(x, v[j])
          BY <2>1, <2>3, <3>1, <4>2, BeforeTransitive
        <5>2. \A j \in 1 .. i + 1 : Before(x, v[j])
          BY <2>1, <2>2, <5>1
        <5> QED BY <3>3, <5>2
      <4> QED BY <2>1, <2>3, <4>1, <4>2, BeforeIs
    <3>5. Topmost(i + 1)
      <4>1. CASE Before(x, v[l])
        <5>1. \A j \in 1 .. i + 1 : Before(v[j], v[l])
          BY <2>1, <3>2, <4>1
        <5> QED BY <2>3, <5>1
      <4>2. CASE Before(v[l], x)
        <5>1. \A j \in 1 .. i : Before(v[j], x)
          BY <2>1, <2>3, <3>2, <4>2, BeforeTransitive
        <5>2. \A j \in 1 .. i + 1 : Before(v[j], x)
          BY <2>1, <2>2, <5>1
        <5> QED BY <3>3, <5>2
      <4> QED BY <2>1, <2>3, <4>1, <4>2, BeforeIs
    <3> QED BY <2>1, <3>4, <3>5
  <2> QED BY <2>4, <2>5
<1> HIDE DEF P
<1>4. n \in P
  <2>1. 0 .. n \subseteq P
    BY <1>1, <1>2, <1>3, Induct, Numbers!UpTo
  <2> QED BY <1>1, <2>1
<1> QED BY <1>1, <1>4 DEF P, n

\* A statistic of a column of this type.
IsStat(type, v) == IF type = "String" THEN v \in Texts ELSE v \in Int

\* The order that the statistics use.
AtMost(type, x, y) == IF type = "String" THEN Before(x, y) ELSE x <= y

\* The statistics of a column that has rows.
Bound(stats, type, cells) ==
  /\ stats = [min |-> stats.min, max |-> stats.max]
  /\ IsStat(type, stats.min) /\ IsStat(type, stats.max)
  /\ \E k \in 1 .. Len(cells) : stats.min = cells[k]
  /\ \E k \in 1 .. Len(cells) : stats.max = cells[k]
  /\ \A k \in 1 .. Len(cells) :
       AtMost(type, stats.min, cells[k]) /\ AtMost(type, cells[k], stats.max)

\* Least and Greatest of texts are among them, before and behind all.
LEMMA TextStats ==
  ASSUME NEW v \in Seq(Texts), v # <<>>
  PROVE  /\ \E k \in 1 .. Len(v) : Least("String", v) = v[k]
         /\ \E k \in 1 .. Len(v) : Greatest("String", v) = v[k]
         /\ \A k \in 1 .. Len(v) :
              Before(Least("String", v), v[k]) /\ Before(v[k], Greatest("String", v))
<1>1. ToSet(v) = {v[k] : k \in 1 .. Len(v)}
  BY DEF ToSet
<1>2. \E s \in ToSet(v) : \A t \in ToSet(v) : Before(s, t)
  <2>1. PICK k \in 1 .. Len(v) : \A j \in 1 .. Len(v) : Before(v[k], v[j])
    BY LeastText
  <2>2. v[k] \in ToSet(v)
    BY <1>1
  <2> QED BY <1>1, <2>1, <2>2
<1>3. \E s \in ToSet(v) : \A t \in ToSet(v) : Before(t, s)
  <2>1. PICK k \in 1 .. Len(v) : \A j \in 1 .. Len(v) : Before(v[j], v[k])
    BY LeastText
  <2>2. v[k] \in ToSet(v)
    BY <1>1
  <2> QED BY <1>1, <2>1, <2>2
<1>4. Least("String", v) = CHOOSE s \in ToSet(v) : \A t \in ToSet(v) : Before(s, t)
  BY DEF Least
<1>5. Greatest("String", v) = CHOOSE s \in ToSet(v) : \A t \in ToSet(v) : Before(t, s)
  BY DEF Greatest
<1>6. /\ Least("String", v) \in ToSet(v)
      /\ \A t \in ToSet(v) : Before(Least("String", v), t)
  BY <1>2, <1>4
<1>7. /\ Greatest("String", v) \in ToSet(v)
      /\ \A t \in ToSet(v) : Before(t, Greatest("String", v))
  BY <1>3, <1>5
<1> QED BY <1>1, <1>6, <1>7

\* Columns of the other types are numbers.
LEMMA NumberColumn ==
  ASSUME NEW type \in Type, type # "String", NEW cells, IsColumn(type, cells)
  PROVE  cells \in Seq(Int)
BY DEF IsColumn, Ranged, Type

\* The statistics of a column bound it and are values of it.
LEMMA StatsAre ==
  ASSUME NEW type \in Type, NEW cells, IsColumn(type, cells), cells # <<>>
  PROVE  Bound(ComputeColumnBlockStats(type, cells), type, cells)
<1> DEFINE stats == ComputeColumnBlockStats(type, cells)  n == Len(cells)
           min == Least(type, cells)  max == Greatest(type, cells)
<1>1. stats = [min |-> min, max |-> max]
  BY DEF ComputeColumnBlockStats
<1>2. stats.min = min /\ stats.max = max
  BY <1>1
<1>3. CASE type = "String"
  <2>1. cells \in Seq(Texts)
    BY <1>3 DEF IsColumn
  <2>2. \A k \in 1 .. n : cells[k] \in Texts
    BY <2>1
  <2>3. /\ \E k \in 1 .. n : min = cells[k]
        /\ \E k \in 1 .. n : max = cells[k]
        /\ \A k \in 1 .. n : Before(min, cells[k]) /\ Before(cells[k], max)
    BY <1>3, <2>1, TextStats
  <2>4. min \in Texts /\ max \in Texts
    BY <2>2, <2>3
  <2> HIDE DEF min, max, stats, n
  <2> QED BY <1>1, <1>2, <1>3, <2>3, <2>4 DEF Bound, IsStat, AtMost, stats, n
<1>4. CASE type # "String"
  <2>1. cells \in Seq(Int)
    BY <1>4, NumberColumn
  <2>2. \A k \in 1 .. n : cells[k] \in Int
    BY <2>1
  <2>3. min = Min(ToSet(cells)) /\ max = Max(ToSet(cells))
    BY <1>4 DEF Least, Greatest
  <2>4. (\E k \in 1 .. n : min = cells[k]) /\ (\A k \in 1 .. n : min <= cells[k])
    BY <2>1, <2>3, LeastIn
  <2>5. (\E k \in 1 .. n : max = cells[k]) /\ (\A k \in 1 .. n : max >= cells[k])
    BY <2>1, <2>3, GreatestIn
  <2>6. min \in Int /\ max \in Int
    BY <2>2, <2>4, <2>5
  <2> HIDE DEF min, max, stats, n
  <2>7. \A k \in 1 .. n : min <= cells[k] /\ cells[k] <= max
    BY <2>2, <2>4, <2>5, <2>6
  <2> QED BY <1>1, <1>2, <1>4, <2>4, <2>5, <2>6, <2>7 DEF Bound, IsStat, AtMost, stats, n
<1> QED BY <1>3, <1>4

\* The statistics of the rows lo + 1 .. hi; of a group without rows any.
IsStats(s, stats, lo, hi) ==
  /\ stats = [c \in 1 .. Len(s.types) |-> [min |-> stats[c].min, max |-> stats[c].max]]
  /\ \A c \in 1 .. Len(s.types) :
       /\ IsStat(s.types[c], stats[c].min) /\ IsStat(s.types[c], stats[c].max)
       /\ lo < hi => stats[c] = ComputeColumnBlockStats(s.types[c], CellsOf(s, lo, hi, c))

\* The rows lo + 1 .. hi of a source, as they are in the file f behind p, in
\* the metadata m behind q and in the statistics.
IsGroup(s, f, p, m, q, stats, lo, hi) ==
  /\ AreRows(s, lo, hi)
  /\ At(f, p, FlattenSeq(Coded(s, lo, hi)))
  /\ At(m, q, Section(s, lo, hi))
  /\ IsStats(s, stats, lo, hi)
  /\ Weight(s, lo, hi - 1) <= RowGroupSize

\* The data of a group are elements of the file.
LEMMA CodedFlat ==
  ASSUME NEW s, NEW lo, NEW hi, AreRows(s, lo, hi)
  PROVE  FlattenSeq(Coded(s, lo, hi)) \in Seq(Int)
<1> DEFINE code == Coded(s, lo, hi)
<1>1. code \in Seq(Seq(Int))
  BY CodedAre
<1> HIDE DEF code
<1>2. PICK F : IsFlat(F, code, Int) /\ FlattenSeq(code) = F[Len(code)]
  BY <1>1, FlattenTrace
<1>3. Len(code) \in 0 .. Len(code)
  BY <1>1
<1> QED BY <1>2, <1>3 DEF IsFlat, code

\* What is appended to the file and to the metadata leaves a group alone.
LEMMA GroupGrows ==
  ASSUME NEW s, NEW f \in Seq(Int), NEW p, NEW m \in Seq(Int), NEW q, NEW stats,
         NEW lo, NEW hi, IsGroup(s, f, p, m, q, stats, lo, hi),
         NEW x \in Seq(Int), NEW y \in Seq(Int)
  PROVE  IsGroup(s, f \o x, p, m \o y, q, stats, lo, hi)
<1>1. AreRows(s, lo, hi)
  BY DEF IsGroup
<1>2. FlattenSeq(Coded(s, lo, hi)) \in Seq(Int) /\ Section(s, lo, hi) \in Seq(Int)
  BY <1>1, CodedFlat, SectionIs
<1>3. At(f, p, FlattenSeq(Coded(s, lo, hi))) /\ At(m, q, Section(s, lo, hi))
  BY DEF IsGroup
<1>4. At(f \o x, p, FlattenSeq(Coded(s, lo, hi))) /\ At(m \o y, q, Section(s, lo, hi))
  BY <1>2, <1>3, AtLeft
<1> QED BY <1>4 DEF IsGroup

\* The data of column c lie in the file f behind those of the columns before it.
IsColumnAt(s, f, p, lo, hi, c) ==
  LET from == p + SizeUpTo(Lengths(s, lo, hi), c - 1)
  IN Decode(s.types[c], SubSeq(f, from + 1, from + Lengths(s, lo, hi)[c]))
       = CellsOf(s, lo, hi, c)

\* What the reader takes for the data of a column is the column.
LEMMA ColumnData ==
  ASSUME NEW s, NEW f \in Seq(Int), NEW p, NEW m, NEW q, NEW stats, NEW lo, NEW hi,
         IsGroup(s, f, p, m, q, stats, lo, hi), NEW c \in 1 .. Len(s.types)
  PROVE  IsColumnAt(s, f, p, lo, hi, c)
<1> DEFINE code == Coded(s, lo, hi)  sizes == Lengths(s, lo, hi)
           from == p + SizeUpTo(sizes, c - 1)
<1>1. AreRows(s, lo, hi) /\ At(f, p, FlattenSeq(code))
  BY DEF IsGroup
<1>2. code \in Seq(Seq(Int)) /\ Len(code) = Len(s.types) /\ Decode(s.types[c], code[c]) = CellsOf(s, lo, hi, c)
  BY <1>1, CodedAre
<1>3. sizes = LengthsOf(code) /\ from = p + SizeUpTo(sizes, c - 1)
  BY DEF Lengths
<1> HIDE DEF code, sizes, from
<1>4. PICK F : IsFlat(F, code, Int) /\ FlattenSeq(code) = F[Len(code)]
  BY <1>2, FlattenTrace
<1>5. c \in 1 .. Len(code) /\ c - 1 \in 0 .. Len(code) /\ Len(code) \in 0 .. Len(code)
  BY <1>2
<1>6. At(F[Len(code)], Len(F[c - 1]), code[c])
  BY <1>2, <1>4, <1>5, FlatAt
<1>7. SizeUpTo(sizes, c - 1) = Len(F[c - 1])
  BY <1>2, <1>3, <1>4, <1>5, SizesOfFlat
<1>8. sizes[c] = Len(code[c]) /\ code[c] \in Seq(Int)
  BY <1>2, <1>3, <1>5 DEF LengthsOf
<1>9. F[Len(code)] \in Seq(Int)
  BY <1>4, <1>5 DEF IsFlat
<1>10. At(f, p + Len(F[c - 1]), code[c])
  BY <1>1, <1>4, <1>6, <1>8, <1>9, AtInner
<1>11. SubSeq(f, from + 1, from + Len(code[c])) = code[c]
  <2>1. At(f, from, code[c])
    BY <1>3, <1>7, <1>10
  <2> QED BY <1>8, <2>1, AtSub
<1> QED BY <1>2, <1>8, <1>11 DEF sizes, from, IsColumnAt

-----------------------------------------------------------------------------
\* Statistics in the metadata.

\* The statistics of a column of a group.
Stat == [min : Texts \cup Int, max : Texts \cup Int]

\* A statistic is written as elements of the file.
LEMMA StatType ==
  ASSUME NEW type \in Type, NEW v, IsStat(type, v)
  PROVE  StatElements(type, v) \in Seq(Int)
<1>1. CASE type \in IntType \cup {"Double"}
  <2>1. StatElements(type, v) = <<v>>
    BY <1>1 DEF StatElements, IntType, DateType
  <2>2. v \in Int
    BY <1>1 DEF IsStat, IntType
  <2> QED BY <2>1, <2>2
<1>2. CASE type \in DateType
  <2>1. StatElements(type, v) = <<1, v>>
    BY <1>2 DEF StatElements, IntType, DateType
  <2>2. v \in Int
    BY <1>2 DEF IsStat, DateType
  <2> QED BY <2>1, <2>2
<1>3. CASE type = "String"
  <2>1. StatElements(type, v) = Entry(v)
    BY <1>3 DEF StatElements, Entry, IntType, DateType
  <2>2. v \in Seq(Int)
    BY <1>3 DEF IsStat, Texts
  <2> QED BY <2>1, <2>2, EntryType
<1> QED BY <1>1, <1>2, <1>3 DEF Type

\* A statistic is read back from where it was written.
LEMMA TakeStatAt ==
  ASSUME NEW type \in Type, NEW v, IsStat(type, v), NEW data \in Seq(Int), NEW p,
         At(data, p, StatElements(type, v))
  PROVE  /\ TakeStat(Behind(data, p), type).value = v
         /\ TakeStat(Behind(data, p), type).rest
              = Behind(data, p + Len(StatElements(type, v)))
<1> DEFINE e == StatElements(type, v)  d == Behind(data, p)
<1>1. e \in Seq(Int) /\ Len(e) \in Nat /\ p \in Nat /\ p + Len(e) <= Len(data) /\ Len(data) \in Nat
      /\ \A j \in 1 .. Len(e) : data[p + j] = e[j]
  <2>1. e \in Seq(Int)
    BY StatType
  <2> QED BY <2>1 DEF At
<1>2. d \in Seq(Int) /\ Len(d) = Len(data) - p /\ \A j \in 1 .. Len(data) - p : d[j] = data[p + j]
  <2>1. p <= Len(data)
    BY <1>1
  <2> QED BY <1>1, <2>1, BehindFacts DEF IsRest
<1>3. \A q \in Nat : p + q <= Len(data) => SubSeq(d, q + 1, Len(d)) = Behind(data, p + q)
  BY <1>1, BehindBehind DEF Behind
<1>4. CASE type \in IntType \cup {"Double"}
  <2>1. e = <<v>>
    BY <1>4 DEF StatElements, IntType, DateType
  <2>2. Len(e) = 1 /\ e[1] = v
    BY <2>1
  <2>3. TakeStat(d, type) = [value |-> d[1], rest |-> Tail(d)]
    BY <1>4 DEF TakeStat, IntType, DateType
  <2> HIDE DEF d, e
  <2>4. p + 1 <= Len(data) /\ 1 \in 1 .. Len(e) /\ 1 \in 1 .. Len(data) - p
    BY <1>1, <2>2
  <2>5. d[1] = v
    BY <1>1, <1>2, <2>2, <2>4
  <2>6. d # <<>>
    BY <1>1, <1>2, <2>4
  <2>7. Tail(d) = Behind(data, p + 1)
    <3>1. Tail(d) = Behind(d, 1)
      BY <1>2, <2>6, TailIsBehind
    <3> QED BY <1>1, <2>4, <3>1, BehindBehind DEF d
  <2> QED BY <2>2, <2>3, <2>5, <2>7 DEF d, e
<1>5. CASE type \in DateType
  <2>1. e = <<1, v>>
    BY <1>5 DEF StatElements, IntType, DateType
  <2>2. Len(e) = 2 /\ e[2] = v
    BY <2>1
  <2>3. TakeStat(d, type) = [value |-> d[2], rest |-> SubSeq(d, 3, Len(d))]
    BY <1>5 DEF TakeStat, IntType, DateType
  <2> HIDE DEF d, e
  <2>4. p + 2 <= Len(data) /\ 2 \in 1 .. Len(e) /\ 2 \in 1 .. Len(data) - p
    BY <1>1, <2>2
  <2>5. d[2] = v
    BY <1>1, <1>2, <2>2, <2>4
  <2>6. SubSeq(d, 2 + 1, Len(d)) = Behind(data, p + 2)
    BY <1>3, <2>4
  <2>7. 2 + 1 = 3
    OBVIOUS
  <2> QED BY <2>2, <2>3, <2>5, <2>6, <2>7 DEF d, e
<1>6. CASE type = "String"
  <2>1. e = Entry(v) /\ v \in Seq(Int)
    BY <1>6 DEF StatElements, Entry, IntType, DateType, IsStat, Texts
  <2> DEFINE t == TakeString(Tail(d), d[1])
  <2>2. TakeStat(d, type) = [value |-> t.string, rest |-> t.rest]
    BY <1>6 DEF TakeStat, IntType, DateType
  <2>3. d[1] = Len(v) /\ TakeString(Tail(d), Len(v)) = [string |-> v, rest |-> Behind(data, p + Len(Entry(v)))]
    <3>1. At(data, p, Entry(v))
      BY <2>1
    <3> QED BY <2>1, <3>1, TakeEntry
  <2>4. t = [string |-> v, rest |-> Behind(data, p + Len(Entry(v)))]
    BY <2>3
  <2> HIDE DEF t, d
  <2>5. t.string = v /\ t.rest = Behind(data, p + Len(Entry(v)))
    BY <2>4
  <2> QED BY <2>1, <2>2, <2>5 DEF d
<1> QED BY <1>4, <1>5, <1>6 DEF Type

\* A minimum and a maximum in the file.
PairText(type, stat) == StatElements(type, stat.min) \o StatElements(type, stat.max)

\* The statistics of a column of this type.
IsPair(type, stat) ==
  stat \in Stat /\ IsStat(type, stat.min) /\ IsStat(type, stat.max)

\* They are written as elements of the file.
LEMMA PairType ==
  ASSUME NEW type \in Type, NEW stat, IsPair(type, stat)
  PROVE  PairText(type, stat) \in Seq(Int)
BY StatType DEF PairText, IsPair

\* The next statistics, of a column of the given type.
PairRead(type, acc) ==
  LET min == TakeStat(acc.rest, type)
      max == TakeStat(min.rest, type)
  IN [stats |-> Append(acc.stats, [min |-> min.value, max |-> max.value]),
      rest |-> max.rest]

\* A pair is read back as it was written.
LEMMA TakePairAt ==
  ASSUME NEW type \in Type, NEW stat, IsPair(type, stat), NEW data \in Seq(Int), NEW p,
         At(data, p, PairText(type, stat)), NEW acc, acc.rest = Behind(data, p)
  PROVE  PairRead(type, acc)
           = [stats |-> Append(acc.stats, stat),
              rest |-> Behind(data, p + Len(PairText(type, stat)))]
<1> DEFINE a == StatElements(type, stat.min)  b == StatElements(type, stat.max)
           e == PairText(type, stat)
<1>1. a \in Seq(Int) /\ b \in Seq(Int) /\ IsStat(type, stat.min) /\ IsStat(type, stat.max)
      /\ stat \in Stat
  BY StatType DEF IsPair
<1>2. e = a \o b
  BY DEF PairText
<1> HIDE DEF a, b, e
<1>3. e \in Seq(Int) /\ Len(e) = Len(a) + Len(b) /\ Len(a) \in Nat /\ Len(b) \in Nat
  BY <1>1, <1>2
<1>4. At(e, 0, a)
  BY <1>1, <1>2, AtSelf, AtLeft
<1>5. At(e, Len(a) + 0, b)
  BY <1>1, <1>2, AtSelf, AtRight
<1>6. At(data, p, e) /\ p \in Nat
  BY DEF e, At
<1>7. At(data, p + 0, a) /\ At(data, p + (Len(a) + 0), b)
  BY <1>1, <1>3, <1>4, <1>5, <1>6, AtInner
<1>8. p + 0 = p /\ p + (Len(a) + 0) = p + Len(a)
  BY <1>3, <1>6
<1> DEFINE min == TakeStat(acc.rest, type)  max == TakeStat(min.rest, type)
<1>9. min.value = stat.min /\ min.rest = Behind(data, p + Len(a))
  <2>1. At(data, p, StatElements(type, stat.min))
    BY <1>7, <1>8 DEF a
  <2> QED BY <1>1, <2>1, TakeStatAt DEF a
<1> HIDE DEF min
<1>10. max.value = stat.max /\ max.rest = Behind(data, (p + Len(a)) + Len(b))
  <2> DEFINE q == p + Len(a)
  <2>1. At(data, q, StatElements(type, stat.max))
    BY <1>7, <1>8 DEF b
  <2>2. min.rest = Behind(data, q)
    BY <1>9
  <2> HIDE DEF q
  <2>3. max.value = stat.max /\ max.rest = Behind(data, q + Len(b))
    BY <1>1, <2>1, <2>2, TakeStatAt DEF b
  <2> QED BY <2>3 DEF q
<1>11. (p + Len(a)) + Len(b) = p + Len(e)
  <2> DEFINE x == Len(a)  y == Len(b)
  <2>1. x \in Nat /\ y \in Nat /\ Len(e) = x + y
    BY <1>3
  <2> HIDE DEF x, y
  <2>2. (p + x) + y = p + (x + y)
    BY <1>6, <2>1
  <2> QED BY <2>1, <2>2 DEF x, y
<1> HIDE DEF max
<1>12. PairRead(type, acc)
         = [stats |-> Append(acc.stats, [min |-> min.value, max |-> max.value]), rest |-> max.rest]
  BY DEF PairRead, min, max
<1>13. [min |-> min.value, max |-> max.value] = stat
  BY <1>1, <1>9, <1>10 DEF Stat
<1> QED BY <1>10, <1>11, <1>12, <1>13 DEF e

\* The statistics of a group, column by column.
PairTexts(types, row) == [c \in 1 .. Len(types) |-> PairText(types[c], row[c])]

\* The statistics of a group in the file.
RowText(types, row) == FlattenSeq(PairTexts(types, row))

\* Those of all groups.
RowTexts(types, rows) == [b \in 1 .. Len(rows) |-> RowText(types, rows[b])]

\* The statistics in the file.
StatsText(types, rows) == FlattenSeq(RowTexts(types, rows))

\* The statistics of one row group, of all row groups.
IsStatRow(types, row) ==
  /\ row \in Seq(Stat) /\ Len(row) = Len(types)
  /\ \A c \in 1 .. Len(types) : IsPair(types[c], row[c])

\* The statistics of all groups.
AreStatRows(types, rows) ==
  /\ rows \in Seq(Seq(Stat))
  /\ \A b \in 1 .. Len(rows) : IsStatRow(types, rows[b])

\* Every column has its statistics.
LEMMA PairTextsType ==
  ASSUME NEW types \in Seq(Type), NEW row, IsStatRow(types, row)
  PROVE  /\ PairTexts(types, row) \in Seq(Seq(Int)) /\ Len(PairTexts(types, row)) = Len(types)
         /\ \A c \in 1 .. Len(types) : PairTexts(types, row)[c] = PairText(types[c], row[c])
<1> DEFINE n == Len(types)  ps == PairTexts(types, row)
<1>1. n \in Nat
  OBVIOUS
<1>2. ASSUME NEW c \in 1 .. n PROVE ps[c] = PairText(types[c], row[c]) /\ ps[c] \in Seq(Int)
  <2>1. types[c] \in Type /\ IsPair(types[c], row[c])
    BY DEF IsStatRow
  <2> QED BY <2>1, PairType DEF PairTexts
<1>3. ps = [c \in 1 .. n |-> ps[c]]
  BY DEF PairTexts
<1> HIDE DEF ps, n
<1>4. ps \in [1 .. n -> Seq(Int)]
  BY <1>2, <1>3
<1>5. ps \in Seq(Seq(Int)) /\ Len(ps) = n
  BY <1>1, <1>4, SeqOfFunction
<1> QED BY <1>2, <1>5 DEF ps, n

\* Those of a group are elements of the file.
LEMMA RowTextType ==
  ASSUME NEW types \in Seq(Type), NEW row, IsStatRow(types, row)
  PROVE  RowText(types, row) \in Seq(Int)
<1> DEFINE ps == PairTexts(types, row)
<1>1. ps \in Seq(Seq(Int))
  BY PairTextsType
<1> HIDE DEF ps
<1>2. PICK F : IsFlat(F, ps, Int) /\ FlattenSeq(ps) = F[Len(ps)]
  BY <1>1, FlattenTrace
<1>3. Len(ps) \in 0 .. Len(ps)
  BY <1>1
<1> QED BY <1>2, <1>3 DEF IsFlat, RowText, ps

\* So are those of all groups.
LEMMA RowTextsType ==
  ASSUME NEW types \in Seq(Type), NEW rows, AreStatRows(types, rows)
  PROVE  /\ RowTexts(types, rows) \in Seq(Seq(Int)) /\ Len(RowTexts(types, rows)) = Len(rows)
         /\ \A b \in 1 .. Len(rows) : RowTexts(types, rows)[b] = RowText(types, rows[b])
         /\ StatsText(types, rows) \in Seq(Int)
<1> DEFINE n == Len(rows)  ts == RowTexts(types, rows)
<1>1. n \in Nat
  BY DEF AreStatRows
<1>2. ASSUME NEW b \in 1 .. n PROVE ts[b] = RowText(types, rows[b]) /\ ts[b] \in Seq(Int)
  <2>1. IsStatRow(types, rows[b])
    BY DEF AreStatRows
  <2> QED BY <2>1, RowTextType DEF RowTexts
<1>3. ts = [b \in 1 .. n |-> ts[b]]
  BY DEF RowTexts
<1> HIDE DEF ts, n
<1>4. ts \in [1 .. n -> Seq(Int)]
  BY <1>2, <1>3
<1>5. ts \in Seq(Seq(Int)) /\ Len(ts) = n
  BY <1>1, <1>4, SeqOfFunction
<1>6. PICK F : IsFlat(F, ts, Int) /\ FlattenSeq(ts) = F[Len(ts)]
  BY <1>5, FlattenTrace
<1>7. Len(ts) \in 0 .. Len(ts)
  BY <1>5
<1>8. FlattenSeq(ts) \in Seq(Int)
  BY <1>6, <1>7 DEF IsFlat
<1> QED BY <1>2, <1>5, <1>8 DEF ts, n, StatsText

\* ParseStats parses the statistics one by one.
TakeStatsOf(types, acc, k) == PairRead(types[((k - 1) % Len(types)) + 1], acc)

\* The fold that reads the statistics back.
StatReads == INSTANCE ProofRules
  WITH Op <- LAMBDA e, acc, k : TakeStatsOf(e, acc, k), Val <- LAMBDA a, b, x : x

\* What it begins with.
NoStats(data) == [stats |-> <<>>, rest |-> data]

\* F has what is read after each pair.
IsStatsRead(F, types, data, m) ==
  /\ F[0] = NoStats(data)
  /\ \A k \in 1 .. m : F[k] = TakeStatsOf(types, F[k - 1], k)

\* The statistics of all columns, cut into groups.
Regrouped(all, size, n) == [b \in 1 .. n |-> SubSeq(all, (b - 1) * size + 1, b * size)]

\* ParseStats reads one pair after the other and cuts them into groups.
LEMMA ParseStatsIs ==
  ASSUME NEW data, NEW types \in Seq(Type), NEW n \in Nat
  PROVE  \E F : /\ IsStatsRead(F, types, data, n * Len(types))
                /\ ParseStats(data, types, n)
                     = Regrouped(F[n * Len(types)].stats, Len(types), n)
<1> DEFINE m == n * Len(types)  s == [k \in 1 .. m |-> k]
<1>1. m \in Nat /\ DOMAIN s = 1 .. m /\ \A k \in 1 .. m : s[k] = k
  OBVIOUS
<1> HIDE DEF s, m
<1>2. PICK F : StatReads!IsTrace(F, types, NoStats(data), s, m)
  BY <1>1, Induct, StatReads!FoldTrace DEF Numbers!NatInduction, StatReads!NatInduction
<1>3. /\ F[0] = NoStats(data) /\ \A k \in 1 .. m : F[k] = TakeStatsOf(types, F[k - 1], s[k])
      /\ StatReads!Folded(types, NoStats(data), s) = F[m]
  BY <1>2 DEF StatReads!IsTrace
<1>4. IsStatsRead(F, types, data, m)
  BY <1>1, <1>3 DEF IsStatsRead
<1>5. ParseStats(data, types, n)
        = Regrouped(StatReads!Folded(types, NoStats(data), s).stats, Len(types), n)
  BY DEF ParseStats, Regrouped, NoStats, TakeStatsOf, PairRead, s, m, FoldLeft, MapThenFoldSet, Max,
         StatReads!Folded, StatReads!MapThenFoldSet, StatReads!Greatest
<1> QED BY <1>3, <1>4, <1>5 DEF m

\* The first k statistics have been parsed.
PairAt(rows, size, k) == rows[((k - 1) \div size) + 1][((k - 1) % size) + 1]

\* The first k statistics have been read, and rest is what is left.
HasStats(acc, rows, size, k, rest) ==
  /\ acc.stats \in Seq(Stat) /\ Len(acc.stats) = k
  /\ \A j \in 1 .. k : acc.stats[j] = PairAt(rows, size, j)
  /\ acc.rest = rest

\* stat is the k-th of the statistics.
IsStatAt(stat, rows, size, k) == stat = PairAt(rows, size, k)

\* Reading the next pair adds it.
LEMMA HasNextStat ==
  ASSUME NEW acc, NEW rows, NEW size, NEW k \in Nat, NEW data \in Seq(Int), NEW p,
         HasStats(acc, rows, size, k, Behind(data, p)),
         NEW type \in Type, NEW stat, IsPair(type, stat), IsStatAt(stat, rows, size, k + 1),
         At(data, p, PairText(type, stat))
  PROVE  HasStats(PairRead(type, acc), rows, size, k + 1,
                  Behind(data, p + Len(PairText(type, stat))))
<1> DEFINE old == acc.stats  new == Append(old, stat)  r == Behind(data, p + Len(PairText(type, stat)))
           next == PairRead(type, acc)
<1>1. old \in Seq(Stat) /\ Len(old) = k /\ (\A j \in 1 .. k : old[j] = PairAt(rows, size, j))
      /\ acc.rest = Behind(data, p) /\ stat \in Stat
  BY DEF HasStats, IsPair
<1>2. next = [stats |-> new, rest |-> r]
  BY <1>1, TakePairAt
<1> HIDE DEF old, r, next
<1>3. new \in Seq(Stat) /\ Len(new) = k + 1 /\ new[k + 1] = stat
      /\ \A j \in 1 .. k : new[j] = old[j]
  BY <1>1
<1> HIDE DEF new
<1>4. ASSUME NEW j \in 1 .. k + 1 PROVE new[j] = PairAt(rows, size, j)
  <2>1. j = k + 1 \/ j \in 1 .. k
    OBVIOUS
  <2> QED BY <1>1, <1>3, <2>1 DEF IsStatAt
<1>5. next.stats = new /\ next.rest = r
  BY <1>2
<1> QED BY <1>3, <1>4, <1>5 DEF HasStats, next, r

\* Rows of equal length: where element c + 1 of row b + 1 is.
LEMMA PlaceOf ==
  ASSUME NEW size \in Nat, NEW n \in Nat, NEW b \in 0 .. n - 1, NEW c \in 0 .. size - 1
  PROVE  /\ size * b + c \in Nat /\ (size * b + c) + 1 \in 1 .. n * size
         /\ (size * b + c) % size = c /\ (size * b + c) \div size = b
<1>1. size \in Nat \ {0} /\ b \in Int /\ n \in Int
  OBVIOUS
<1>2. size * (b + 1) <= size * n
  OBVIOUS
<1>3. size * (b + 1) = size * b + size /\ size * n = n * size /\ size * b \in Nat
  BY <1>1
<1>4. size * b + c \in Nat /\ (size * b + c) + 1 <= n * size /\ n * size \in Nat
  <2> DEFINE x == size * b  y == size * n
  <2>1. x \in Nat /\ y \in Nat /\ x + size <= y /\ n * size = y
    BY <1>2, <1>3
  <2> HIDE DEF x, y
  <2>2. x + c \in Nat /\ (x + c) + 1 <= y
    BY <2>1
  <2> QED BY <2>1, <2>2 DEF x
<1>5. (size * b + c) % size = c /\ (size * b + c) \div size = b
  BY <1>1, Numbers!ModUnique
<1> QED BY <1>4, <1>5

\* Reading as many pairs as there are columns reads the statistics of a group.
LEMMA ReadRowOfStats ==
  ASSUME NEW types \in Seq(Type), NEW rows, AreStatRows(types, rows), NEW data \in Seq(Int),
         NEW F, IsStatsRead(F, types, data, Len(rows) * Len(types)),
         NEW b \in 0 .. Len(rows) - 1, NEW p,
         HasStats(F[Len(types) * b], rows, Len(types), Len(types) * b, Behind(data, p)),
         At(data, p, RowText(types, rows[b + 1]))
  PROVE  HasStats(F[Len(types) * (b + 1)], rows, Len(types), Len(types) * (b + 1),
                  Behind(data, p + Len(RowText(types, rows[b + 1]))))
<1> DEFINE size == Len(types)  n == Len(rows)  row == rows[b + 1]  ps == PairTexts(types, row)
           text == RowText(types, row)
<1>1. size \in Nat /\ n \in Nat /\ b + 1 \in 1 .. n /\ b \in Nat
  BY DEF AreStatRows
<1>2. IsStatRow(types, row)
  BY <1>1 DEF AreStatRows
<1>3. ps \in Seq(Seq(Int)) /\ Len(ps) = size
      /\ \A c \in 1 .. size : ps[c] = PairText(types[c], row[c])
  BY <1>2, PairTextsType
<1>4. PICK G : IsFlat(G, ps, Int) /\ text = G[Len(ps)]
  BY <1>3, FlattenTrace DEF RowText
<1>5. \A k \in 1 .. n * size : F[k] = TakeStatsOf(types, F[k - 1], k)
  BY DEF IsStatsRead
<1>6. At(data, p, text) /\ p \in Nat /\ HasStats(F[size * b], rows, size, size * b, Behind(data, p))
  BY DEF At
<1> HIDE DEF ps, text
<1> DEFINE Done(c) == HasStats(F[size * b + c], rows, size, size * b + c, Behind(data, p + Len(G[c])))
           P == {c \in 0 .. size : Done(c)}
<1>7. 0 \in P
  <2>1. G[0] = <<>>
    BY <1>4 DEF IsFlat
  <2>2. p + Len(G[0]) = p /\ size * b + 0 = size * b
    BY <1>1, <1>6, <2>1
  <2> QED BY <1>1, <1>6, <2>2
<1>8. ASSUME NEW c \in 0 .. size - 1, c \in P PROVE c + 1 \in P
  <2> DEFINE k == size * b + c  q == p + Len(G[c])  type == types[c + 1]  stat == row[c + 1]
  <2>1. k \in Nat /\ k + 1 \in 1 .. n * size /\ k % size = c /\ k \div size = b
    BY <1>1, PlaceOf
  <2>2. c + 1 \in 1 .. size /\ c + 1 \in 0 .. size /\ (c + 1) - 1 = c /\ c \in 0 .. size
    BY <1>1
  <2>3. type \in Type /\ IsPair(type, stat) /\ ps[c + 1] = PairText(type, stat)
    BY <1>2, <1>3, <2>2 DEF IsStatRow
  <2>4. At(G[Len(ps)], Len(G[c]), ps[c + 1]) /\ Len(G[c + 1]) = Len(G[c]) + Len(ps[c + 1])
    <3> DEFINE i == c + 1
    <3>1. i \in 1 .. Len(ps) /\ i - 1 = c
      BY <1>3, <2>2
    <3> HIDE DEF i
    <3>2. At(G[Len(ps)], Len(G[i - 1]), ps[i]) /\ Len(G[i]) = Len(G[i - 1]) + Len(ps[i])
      BY <1>3, <1>4, <3>1, FlatAt
    <3> QED BY <3>1, <3>2 DEF i
  <2>5. ps[c + 1] \in Seq(Int) /\ G[Len(ps)] \in Seq(Int) /\ G[c] \in Seq(Int)
    <3>1. Len(ps) \in 0 .. Len(ps) /\ c \in 0 .. Len(ps)
      BY <1>1, <1>3, <2>2
    <3>2. c + 1 \in 1 .. Len(ps)
      BY <1>3, <2>2
    <3>3. ps[c + 1] \in Seq(Int)
      BY <1>3, <3>2, ElementOfSeq
    <3> QED BY <1>4, <3>1, <3>3 DEF IsFlat
  <2>6. At(data, q, ps[c + 1])
    BY <1>4, <1>6, <2>4, <2>5, AtInner
  <2>7. IsStatAt(stat, rows, size, k + 1)
    <3>1. (k + 1) - 1 = k
      BY <2>1
    <3> HIDE DEF k
    <3> QED BY <2>1, <3>1 DEF IsStatAt, PairAt
  <2>8. F[k + 1] = PairRead(type, F[k])
    <3>1. (k + 1) - 1 = k
      BY <2>1
    <3> HIDE DEF k
    <3>2. F[k + 1] = TakeStatsOf(types, F[k], k + 1)
      BY <1>5, <2>1, <3>1
    <3> QED BY <2>1, <3>1, <3>2 DEF TakeStatsOf
  <2>9. HasStats(F[k], rows, size, k, Behind(data, q))
    BY <1>8
  <2>10. q + Len(ps[c + 1]) = p + Len(G[c + 1])
    <3> DEFINE x == Len(G[c])  y == Len(ps[c + 1])
    <3>1. x \in Nat /\ y \in Nat /\ Len(G[c + 1]) = x + y
      BY <2>4, <2>5
    <3> HIDE DEF x, y
    <3>2. (p + x) + y = p + (x + y)
      BY <1>6, <3>1
    <3> QED BY <3>1, <3>2 DEF x, y
  <2>11. k + 1 = size * b + (c + 1)
    BY <1>1
  <2> HIDE DEF k, q, type, stat
  <2>12. HasStats(F[k + 1], rows, size, k + 1, Behind(data, q + Len(PairText(type, stat))))
    <3>1. HasStats(PairRead(type, F[k]), rows, size, k + 1, Behind(data, q + Len(PairText(type, stat))))
      BY <2>1, <2>3, <2>6, <2>7, <2>9, HasNextStat
    <3> QED BY <2>8, <3>1
  <2>13. Done(c + 1)
    BY <2>3, <2>10, <2>11, <2>12
  <2> QED BY <2>2, <2>13
<1> HIDE DEF P
<1>9. size \in P
  <2> HIDE DEF size
  <2>1. 0 .. size \subseteq P
    BY <1>1, <1>7, <1>8, Induct, Numbers!UpTo
  <2> QED BY <1>1, <2>1
<1>10. Done(size)
  BY <1>9 DEF P
<1>11. size * b + size = size * (b + 1) /\ G[size] = text
  BY <1>1, <1>3, <1>4
<1> QED BY <1>10, <1>11 DEF text

\* The statistics that the file holds are those of the row groups.
THEOREM StatsRoundTrip ==
  ASSUME NEW types \in Seq(Type), NEW rows, AreStatRows(types, rows)
  PROVE  ParseStats(StatsText(types, rows), types, Len(rows)) = rows
<1> DEFINE size == Len(types)  n == Len(rows)  data == StatsText(types, rows)
           ts == RowTexts(types, rows)
<1>1. size \in Nat /\ n \in Nat /\ rows \in Seq(Seq(Stat))
  BY DEF AreStatRows
<1>2. /\ ts \in Seq(Seq(Int)) /\ Len(ts) = n /\ data \in Seq(Int)
      /\ \A b \in 1 .. n : ts[b] = RowText(types, rows[b])
  BY RowTextsType
<1>3. PICK G : IsFlat(G, ts, Int) /\ data = G[Len(ts)]
  BY <1>2, FlattenTrace DEF StatsText
<1> HIDE DEF ts, data
<1>4. PICK F : /\ IsStatsRead(F, types, data, n * size)
               /\ ParseStats(data, types, n) = Regrouped(F[n * size].stats, size, n)
  BY <1>1, ParseStatsIs
<1> DEFINE Done(b) == HasStats(F[size * b], rows, size, size * b, Behind(data, Len(G[b])))
           P == {b \in 0 .. n : Done(b)}
<1>5. 0 \in P
  <2>1. G[0] = <<>> /\ F[0] = NoStats(data) /\ size * 0 = 0
    BY <1>1, <1>3, <1>4 DEF IsFlat, IsStatsRead
  <2>2. Behind(data, Len(G[0])) = data
    BY <1>2, <2>1 DEF Behind
  <2>3. F[0].stats = <<>> /\ F[0].rest = data
    BY <2>1 DEF NoStats
  <2>4. Len(<<>>) = 0 /\ <<>> \in Seq(Stat)
    OBVIOUS
  <2>5. HasStats(F[0], rows, size, 0, data)
    BY <2>3, <2>4 DEF HasStats
  <2>6. Done(0)
    BY <2>1, <2>2, <2>5
  <2> QED BY <1>1, <2>6
<1>6. ASSUME NEW b \in 0 .. n - 1, b \in P PROVE b + 1 \in P
  <2>1. b + 1 \in 1 .. n /\ b + 1 \in 0 .. n /\ (b + 1) - 1 = b /\ b \in 0 .. n
    BY <1>1
  <2>2. At(G[Len(ts)], Len(G[b]), ts[b + 1]) /\ Len(G[b + 1]) = Len(G[b]) + Len(ts[b + 1])
    <3> DEFINE i == b + 1
    <3>1. i \in 1 .. Len(ts) /\ i - 1 = b
      BY <1>2, <2>1
    <3> HIDE DEF i
    <3>2. At(G[Len(ts)], Len(G[i - 1]), ts[i]) /\ Len(G[i]) = Len(G[i - 1]) + Len(ts[i])
      BY <1>2, <1>3, <3>1, FlatAt
    <3> QED BY <3>1, <3>2 DEF i
  <2> DEFINE p == Len(G[b])
  <2>3. At(data, p, RowText(types, rows[b + 1]))
    BY <1>2, <1>3, <2>1, <2>2
  <2>4. HasStats(F[size * b], rows, size, size * b, Behind(data, p))
    BY <1>6
  <2> HIDE DEF p
  <2>5. HasStats(F[size * (b + 1)], rows, size, size * (b + 1),
                 Behind(data, p + Len(RowText(types, rows[b + 1]))))
    BY <1>2, <1>4, <2>3, <2>4, ReadRowOfStats
  <2>6. Done(b + 1)
    BY <1>2, <2>1, <2>2, <2>5 DEF p
  <2> QED BY <2>1, <2>6
<1> HIDE DEF P
<1>7. n \in P
  <2> HIDE DEF n
  <2>1. 0 .. n \subseteq P
    BY <1>1, <1>5, <1>6, Induct, Numbers!UpTo
  <2> QED BY <1>1, <2>1
<1>8. Done(n) /\ n * size = size * n
  BY <1>1, <1>7 DEF P
<1> DEFINE all == F[n * size].stats
<1>9. all \in Seq(Stat) /\ Len(all) = size * n
      /\ \A j \in 1 .. size * n : all[j] = PairAt(rows, size, j)
  BY <1>8 DEF HasStats
<1> HIDE DEF all
<1>10. ASSUME NEW b \in 1 .. n PROVE SubSeq(all, (b - 1) * size + 1, b * size) = rows[b]
  <2> DEFINE a == b - 1  from == size * a  part == SubSeq(all, from + 1, from + size)
  <2>1. a \in 0 .. n - 1 /\ a + 1 = b /\ a \in Nat /\ from \in Nat
    BY <1>1
  <2>2. (b - 1) * size = from /\ b * size = from + size /\ from + size <= size * n
        /\ size * n \in Nat
    <3>1. (b - 1) * size = from /\ b * size = from + size /\ size * n \in Nat
      BY <1>1
    <3>2. b * size <= n * size
      <4>1. b \in Nat /\ b <= n
        BY <1>1
      <4> HIDE DEF n, size
      <4> QED BY <1>1, <4>1
    <3> QED BY <1>1, <3>1, <3>2
  <2>3. part \in Seq(Stat) /\ Len(part) = size /\ \A c \in 1 .. size : part[c] = all[from + c]
    <3> HIDE DEF from
    <3>1. from + 1 \in 1 .. Len(all) + 1 /\ from + size \in from .. Len(all)
      BY <1>1, <1>9, <2>1, <2>2
    <3>2. (from + size) - (from + 1) + 1 = size
      BY <1>1, <2>1
    <3> QED BY <1>1, <1>9, <2>1, <2>2, <3>1, <3>2, SubSeqProperties
  <2>4. ASSUME NEW c \in 1 .. size PROVE part[c] = rows[b][c]
    <3> DEFINE d == c - 1
    <3>1. d \in 0 .. size - 1 /\ d + 1 = c
      BY <1>1
    <3>2. (from + d) + 1 \in 1 .. n * size /\ (from + d) % size = d /\ (from + d) \div size = a
          /\ from + d \in Nat
      BY <1>1, <2>1, <3>1, PlaceOf
    <3>3. from + c = (from + d) + 1 /\ ((from + d) + 1) - 1 = from + d
      BY <2>1, <3>1, <3>2
    <3> HIDE DEF from, d, a
    <3>4. all[from + c] = PairAt(rows, size, (from + d) + 1)
      BY <1>8, <1>9, <3>2, <3>3
    <3>5. PairAt(rows, size, (from + d) + 1) = rows[a + 1][d + 1]
      BY <3>2, <3>3 DEF PairAt
    <3> QED BY <2>1, <2>3, <3>1, <3>4, <3>5
  <2>5. rows[b] \in Seq(Stat) /\ Len(rows[b]) = size
    BY DEF AreStatRows, IsStatRow
  <2> HIDE DEF part
  <2>6. Matches(part, rows[b])
    BY <2>3, <2>4, <2>5 DEF Matches
  <2>7. part = rows[b]
    BY <2>3, <2>5, <2>6, MatchEqual
  <2> QED BY <2>2, <2>7 DEF part
<1>11. Regrouped(all, size, n) = [b \in 1 .. n |-> rows[b]]
  BY <1>10 DEF Regrouped
<1>12. rows = [b \in 1 .. n |-> rows[b]]
  BY <1>1
<1> QED BY <1>4, <1>11, <1>12 DEF all, data

-----------------------------------------------------------------------------
\* Names in the metadata.

\* One name is parsed from the front of what is left.
TakeNameOf(acc, n) ==
  LET t == TakeString(Tail(acc.rest), acc.rest[1])
  IN [names |-> Append(acc.names, t.string), rest |-> t.rest]

\* The fold that reads the names back.
NameReads == INSTANCE ProofRules
  WITH Op <- LAMBDA e, acc, n : TakeNameOf(acc, n), Val <- LAMBDA a, b, x : x

\* What it has read at the end.
NamesRead(base, s) == FoldLeft(LAMBDA acc, n : TakeNameOf(acc, n), base, s)

\* F has what is read after each name.
IsNamesRead(F, base, n) ==
  /\ F[0] = base
  /\ \A i \in 1 .. n : F[i] = TakeNameOf(F[i - 1], i)
  /\ NamesRead(base, [k \in 1 .. n |-> k]) = F[n]

\* The fold reads one name after the other.
LEMMA NamesTrace ==
  ASSUME NEW n \in Nat, NEW base
  PROVE  \E F : IsNamesRead(F, base, n)
<1> DEFINE s == [k \in 1 .. n |-> k]
<1>1. DOMAIN s = 1 .. n /\ \A i \in 1 .. n : s[i] = i
  OBVIOUS
<1> HIDE DEF s
<1>2. PICK F : NameReads!IsTrace(F, 0, base, s, n)
  BY <1>1, Induct, NameReads!FoldTrace DEF Numbers!NatInduction, NameReads!NatInduction
<1>3. /\ F[0] = base
      /\ \A i \in 1 .. n : F[i] = TakeNameOf(F[i - 1], s[i])
      /\ NameReads!Folded(0, base, s) = F[n]
  BY <1>2 DEF NameReads!IsTrace
<1>4. NamesRead(base, s) = NameReads!Folded(0, base, s)
  BY DEF NamesRead, FoldLeft, MapThenFoldSet, Max, NameReads!Folded,
         NameReads!MapThenFoldSet, NameReads!Greatest
<1>5. \A i \in 1 .. n : F[i] = TakeNameOf(F[i - 1], i)
  BY <1>1, <1>3
<1>6. IsNamesRead(F, base, n)
  BY <1>3, <1>4, <1>5 DEF IsNamesRead, s
<1> QED BY <1>6

\* The first n texts of d, and what is behind them.
HasNames(acc, d, n, rest) ==
  /\ acc.names \in Seq(Texts) /\ Len(acc.names) = n
  /\ \A k \in 1 .. n : acc.names[k] = d[k]
  /\ acc.rest = rest

\* Reading the next name adds it.
LEMMA TakeNameStep ==
  ASSUME NEW data \in Seq(Int), NEW d \in Seq(Texts), NEW acc, NEW n \in 1 .. Len(d),
         NEW p, HasNames(acc, d, n - 1, Behind(data, p)), At(data, p, Entry(d[n]))
  PROVE  HasNames(TakeNameOf(acc, n), d, n, Behind(data, p + Len(Entry(d[n]))))
<1> DEFINE t == d[n]  u == TakeString(Tail(acc.rest), acc.rest[1])
           new == TakeNameOf(acc, n)  r == Behind(data, p + Len(Entry(t)))
<1>1. t \in Seq(Int)
  BY ElementOfSeq DEF Texts
<1>2. acc.rest = Behind(data, p) /\ acc.names \in Seq(Texts)
      /\ Len(acc.names) = n - 1
      /\ \A k \in 1 .. n - 1 : acc.names[k] = d[k]
  BY DEF HasNames
<1>3. u = [string |-> t, rest |-> r]
  <2>1. acc.rest[1] = Len(t)
    BY <1>1, <1>2, TakeEntry
  <2> QED BY <1>1, <1>2, <2>1, TakeEntry
<1> HIDE DEF r, u
<1>4. new = [names |-> Append(acc.names, t), rest |-> r]
  <2>1. new = [names |-> Append(acc.names, u.string), rest |-> u.rest]
    BY DEF TakeNameOf, u
  <2>2. u.string = t /\ u.rest = r
    BY <1>3
  <2> QED BY <2>1, <2>2
<1> DEFINE e == Append(acc.names, t)
<1>5. new.names = e /\ new.rest = r
  BY <1>4
<1>6. e \in Seq(Texts) /\ Len(e) = n
  BY <1>1, <1>2 DEF Texts
<1>7. ASSUME NEW k \in 1 .. n PROVE e[k] = d[k]
  <2>1. CASE k = n
    <3>1. e[(n - 1) + 1] = t
      BY <1>1, <1>2
    <3>2. (n - 1) + 1 = n
      OBVIOUS
    <3> QED BY <2>1, <3>1, <3>2
  <2>2. CASE k \in 1 .. n - 1
    BY <1>1, <1>2, <2>2
  <2>3. k = n \/ k \in 1 .. n - 1
    OBVIOUS
  <2> QED BY <2>1, <2>2, <2>3, Zenon
<1> HIDE DEF e, new
<1>8. HasNames(new, d, n, r)
  BY <1>5, <1>6, <1>7 DEF HasNames
<1> QED BY <1>8 DEF new, r

\* Reading all names gives the names, and what is behind them.
LEMMA ReadNames ==
  ASSUME NEW data \in Seq(Int), NEW d \in Seq(Texts), NEW p, NEW base,
         base = [names |-> <<>>, rest |-> Behind(data, p)],
         At(data, p, FlattenSeq(EntriesOf(d)))
  PROVE  NamesRead(base, [k \in 1 .. Len(d) |-> k])
           = [names |-> d, rest |-> Behind(data, p + Len(FlattenSeq(EntriesOf(d))))]
<1> DEFINE m == Len(d)  es == EntriesOf(d)
<1>1. m \in Nat
  OBVIOUS
<1>2. es \in Seq(Seq(Int)) /\ Len(es) = m /\ \A n \in 1 .. m : es[n] = Entry(d[n])
  BY EntriesType
<1> HIDE DEF es
<1>3. PICK G : IsFlat(G, es, Int) /\ FlattenSeq(es) = G[Len(es)]
  BY <1>2, FlattenTrace
<1>4. /\ G \in [0 .. m -> Seq(Int)] /\ G[0] = <<>> /\ FlattenSeq(es) = G[m]
      /\ IsFlat(G, es, Int)
  BY <1>2, <1>3 DEF IsFlat
<1>5. PICK F : IsNamesRead(F, base, m)
  BY <1>1, NamesTrace
<1>6. /\ F[0] = base
      /\ \A i \in 1 .. m : F[i] = TakeNameOf(F[i - 1], i)
      /\ NamesRead(base, [k \in 1 .. m |-> k]) = F[m]
  BY <1>5 DEF IsNamesRead
<1>7. At(data, p, G[m]) /\ p \in Nat
  BY <1>4 DEF At, es
<1> DEFINE P == {i \in 0 .. m : HasNames(F[i], d, i, Behind(data, p + Len(G[i])))}
<1>8. 0 \in P
  <2>1. p + Len(G[0]) = p
    BY <1>4, <1>7
  <2>2. <<>> \in Seq(Texts) /\ Len(<<>>) = 0
    OBVIOUS
  <2>3. F[0].names = <<>> /\ F[0].rest = Behind(data, p)
    BY <1>6
  <2>4. HasNames(F[0], d, 0, Behind(data, p))
    BY <2>2, <2>3 DEF HasNames
  <2> QED BY <1>1, <2>1, <2>4
<1>9. ASSUME NEW i \in 0 .. m - 1, i \in P PROVE i + 1 \in P
  <2> DEFINE n == i + 1
  <2>1. n \in 1 .. m /\ n \in 0 .. m /\ n - 1 = i /\ n \in 1 .. Len(es)
    BY <1>1, <1>2
  <2>2. At(G[m], Len(G[i]), es[n]) /\ Len(G[n]) = Len(G[i]) + Len(es[n])
    BY <1>2, <1>4, <2>1, FlatAt
  <2>3. G[m] \in Seq(Int) /\ es[n] \in Seq(Int) /\ G[i] \in Seq(Int)
    <3>1. m \in 0 .. m /\ i \in 0 .. m
      BY <1>1
    <3>2. es[n] \in Seq(Int)
      BY <1>2, <2>1, ElementOfSeq
    <3> QED BY <1>4, <3>1, <3>2
  <2> DEFINE q == p + Len(G[i])
  <2>4. At(data, q, es[n])
    BY <1>7, <2>2, <2>3, AtInner
  <2>5. q + Len(es[n]) = p + Len(G[n]) /\ es[n] = Entry(d[n])
    <3> DEFINE a == Len(G[i])  b == Len(es[n])
    <3>1. a \in Nat /\ b \in Nat
      BY <2>3
    <3>2. p + Len(G[n]) = p + (a + b)
      BY <2>2, Zenon
    <3>3. p + (a + b) = (p + a) + b
      <4> HIDE DEF a, b
      <4> QED BY <1>7, <3>1
    <3> QED BY <1>2, <2>1, <3>2, <3>3
  <2>6. HasNames(F[i], d, n - 1, Behind(data, q))
    BY <1>9, <2>1
  <2>7. F[n] = TakeNameOf(F[i], n)
    BY <1>6, <2>1
  <2> HIDE DEF q, n
  <2>8. HasNames(F[n], d, n, Behind(data, q + Len(Entry(d[n]))))
    <3>1. n \in 1 .. Len(d)
      BY <2>1
    <3> QED BY <2>4, <2>5, <2>6, <2>7, <3>1, TakeNameStep
  <2>9. HasNames(F[n], d, n, Behind(data, p + Len(G[n])))
    BY <2>5, <2>8
  <2> QED BY <2>1, <2>9 DEF n
<1> HIDE DEF P
<1>10. m \in P
  <2> HIDE DEF m
  <2>1. 0 .. m \subseteq P
    BY <1>1, <1>8, <1>9, Induct, Numbers!UpTo
  <2> QED BY <1>1, <2>1
<1> DEFINE r == Behind(data, p + Len(G[m]))
<1>11. HasNames(F[m], d, m, r)
  BY <1>10 DEF P
<1>12. F[m].names = d /\ F[m].rest = r
  <2>1. /\ F[m].names \in Seq(Texts) /\ Len(F[m].names) = Len(d)
        /\ \A k \in 1 .. m : F[m].names[k] = d[k]
        /\ F[m].rest = r
    BY <1>11 DEF HasNames
  <2>2. Matches(F[m].names, d)
    BY <2>1 DEF Matches
  <2> QED BY <2>1, <2>2, MatchEqual
<1>13. F[m] = [names |-> F[m].names, rest |-> F[m].rest]
  <2>1. CASE m = 0
    BY <1>6, <2>1
  <2>2. CASE m # 0
    <3>1. F[m] = TakeNameOf(F[m - 1], m)
      BY <1>1, <1>6, <2>2
    <3> QED BY <3>1 DEF TakeNameOf
  <2> QED BY <2>1, <2>2
<1> QED BY <1>4, <1>6, <1>12, <1>13 DEF es

\* The names that the file holds are those of the scheme.
LEMMA NamesRoundTrip ==
  ASSUME NEW d \in Seq(Texts)
  PROVE  ParseNames(FlattenSeq(EntriesOf(d)), Len(d)) = d
<1> DEFINE data == FlattenSeq(EntriesOf(d))  base == [names |-> <<>>, rest |-> Behind(data, 0)]
<1>1. data \in Seq(Int)
  <2> DEFINE es == EntriesOf(d)
  <2>1. es \in Seq(Seq(Int))
    BY EntriesType
  <2> HIDE DEF es
  <2>2. PICK F : IsFlat(F, es, Int) /\ FlattenSeq(es) = F[Len(es)]
    BY <2>1, FlattenTrace
  <2>3. Len(es) \in 0 .. Len(es)
    BY <2>1
  <2> QED BY <2>2, <2>3 DEF IsFlat, es
<1>2. At(data, 0, FlattenSeq(EntriesOf(d)))
  BY <1>1, AtSelf
<1> HIDE DEF data
<1>3. NamesRead(base, [k \in 1 .. Len(d) |-> k])
        = [names |-> d, rest |-> Behind(data, 0 + Len(FlattenSeq(EntriesOf(d))))]
  BY <1>1, <1>2, ReadNames
<1>4. Behind(data, 0) = data
  BY <1>1 DEF Behind
<1>5. ParseNames(data, Len(d)) = NamesRead(base, [k \in 1 .. Len(d) |-> k]).names
  BY <1>4 DEF ParseNames, NamesRead, TakeNameOf
<1> QED BY <1>3, <1>5 DEF data

-----------------------------------------------------------------------------
\* The metadata.

\* t, which is behind the first p elements of s, has the piece i + 1 .. j there.
IsPiece(s, t, p, i, j) == SubSeq(s, (p + i) + 1, p + j) = SubSeq(t, i + 1, j)

\* A part of what lies in s is a part of s.
LEMMA SubOfAt ==
  ASSUME NEW s \in Seq(Int), NEW t \in Seq(Int), NEW p, At(s, p, t),
         NEW i \in Nat, NEW j \in Nat, i <= j, j <= Len(t)
  PROVE  IsPiece(s, t, p, i, j)
<1> DEFINE a == SubSeq(s, (p + i) + 1, p + j)  b == SubSeq(t, i + 1, j)  n == j - i
<1>1. p \in Nat /\ n \in Nat /\ Len(s) \in Nat /\ Len(t) \in Nat /\ p + Len(t) <= Len(s)
  BY DEF At
<1>2. a \in Seq(Int) /\ Len(a) = n /\ \A k \in 1 .. n : a[k] = s[(p + i) + k]
  <2>1. (p + i) + 1 \in 1 .. Len(s) + 1 /\ p + j \in p + i .. Len(s) /\ p + i \in Nat
        /\ (p + j) - ((p + i) + 1) + 1 = n
    BY <1>1
  <2> DEFINE q == p + i  r == p + j
  <2>2. q \in Nat /\ q + 1 \in 1 .. Len(s) + 1 /\ r \in q .. Len(s) /\ r - (q + 1) + 1 = n
    BY <2>1
  <2> HIDE DEF q, r, n
  <2>3. SubSeq(s, q + 1, r) \in Seq(Int) /\ Len(SubSeq(s, q + 1, r)) = n
        /\ \A k \in 1 .. n : SubSeq(s, q + 1, r)[k] = s[q + k]
    BY <1>1, <2>2, SubSeqProperties
  <2> QED BY <2>3 DEF q, r
<1>3. b \in Seq(Int) /\ Len(b) = n /\ \A k \in 1 .. n : b[k] = t[i + k]
  <2>1. i + 1 \in 1 .. Len(t) + 1 /\ j \in i .. Len(t) /\ j - (i + 1) + 1 = n
    BY <1>1
  <2> HIDE DEF n
  <2> QED BY <1>1, <2>1, SubSeqProperties
<1>4. ASSUME NEW k \in 1 .. n PROVE a[k] = b[k]
  <2>1. i + k \in 1 .. Len(t) /\ (p + i) + k = p + (i + k)
    BY <1>1
  <2>2. s[p + (i + k)] = t[i + k]
    BY <2>1 DEF At
  <2> QED BY <1>2, <1>3, <2>1, <2>2
<1> HIDE DEF a, b, n
<1>5. Matches(a, b)
  BY <1>2, <1>3, <1>4 DEF Matches
<1>6. a = b
  BY <1>2, <1>3, <1>5, MatchEqual
<1> QED BY <1>6 DEF a, b, IsPiece

\* Eight parts, one behind the other.
Chained(s, a, b, c, d, e, f, g, h) ==
  /\ s \in Seq(Int)
  /\ At(s, 0, a)
  /\ At(s, Len(a), b)
  /\ At(s, Len(a) + Len(b), c)
  /\ At(s, Len(a) + Len(b) + Len(c), d)
  /\ At(s, Len(a) + Len(b) + Len(c) + Len(d), e)
  /\ At(s, Len(a) + Len(b) + Len(c) + Len(d) + Len(e), f)
  /\ At(s, Len(a) + Len(b) + Len(c) + Len(d) + Len(e) + Len(f), g)
  /\ At(s, Len(a) + Len(b) + Len(c) + Len(d) + Len(e) + Len(f) + Len(g), h)
  /\ Len(s) = Len(a) + Len(b) + Len(c) + Len(d) + Len(e) + Len(f) + Len(g) + Len(h)

\* A part is behind what comes before it and stays there.
LEMMA PartIs ==
  ASSUME NEW s \in Seq(Int), NEW t \in Seq(Int)
  PROVE  s \o t \in Seq(Int) /\ At(s \o t, Len(s), t) /\ Len(s \o t) = Len(s) + Len(t)
<1>1. At(s \o t, Len(s) + 0, t)
  BY AtSelf, AtRight
<1> QED BY <1>1

\* A concatenation of eight has its parts one behind the other.
LEMMA Chain ==
  ASSUME NEW a \in Seq(Int), NEW b \in Seq(Int), NEW c \in Seq(Int), NEW d \in Seq(Int),
         NEW e \in Seq(Int), NEW f \in Seq(Int), NEW g \in Seq(Int), NEW h \in Seq(Int)
  PROVE  Chained(a \o b \o c \o d \o e \o f \o g \o h, a, b, c, d, e, f, g, h)
<1> DEFINE s2 == a \o b  s3 == s2 \o c  s4 == s3 \o d  s5 == s4 \o e  s6 == s5 \o f
           s7 == s6 \o g  s8 == s7 \o h
<1>2. s2 \in Seq(Int) /\ At(s2, Len(a), b) /\ Len(s2) = Len(a) + Len(b) /\ At(s2, 0, a)
  BY PartIs, AtSelf, AtLeft
<1> HIDE DEF s2
<1>3. s3 \in Seq(Int) /\ At(s3, Len(s2), c) /\ Len(s3) = Len(s2) + Len(c)
      /\ At(s3, 0, a) /\ At(s3, Len(a), b)
  BY <1>2, PartIs, AtLeft
<1> HIDE DEF s3
<1>4. s4 \in Seq(Int) /\ At(s4, Len(s3), d) /\ Len(s4) = Len(s3) + Len(d)
      /\ At(s4, 0, a) /\ At(s4, Len(a), b) /\ At(s4, Len(s2), c)
  BY <1>3, PartIs, AtLeft
<1> HIDE DEF s4
<1>5. s5 \in Seq(Int) /\ At(s5, Len(s4), e) /\ Len(s5) = Len(s4) + Len(e)
      /\ At(s5, 0, a) /\ At(s5, Len(a), b) /\ At(s5, Len(s2), c) /\ At(s5, Len(s3), d)
  BY <1>4, PartIs, AtLeft
<1> HIDE DEF s5
<1>6. s6 \in Seq(Int) /\ At(s6, Len(s5), f) /\ Len(s6) = Len(s5) + Len(f)
      /\ At(s6, 0, a) /\ At(s6, Len(a), b) /\ At(s6, Len(s2), c) /\ At(s6, Len(s3), d)
      /\ At(s6, Len(s4), e)
  BY <1>5, PartIs, AtLeft
<1> HIDE DEF s6
<1>7. s7 \in Seq(Int) /\ At(s7, Len(s6), g) /\ Len(s7) = Len(s6) + Len(g)
      /\ At(s7, 0, a) /\ At(s7, Len(a), b) /\ At(s7, Len(s2), c) /\ At(s7, Len(s3), d)
      /\ At(s7, Len(s4), e) /\ At(s7, Len(s5), f)
  BY <1>6, PartIs, AtLeft
<1> HIDE DEF s7
<1>8. s8 \in Seq(Int) /\ At(s8, Len(s7), h) /\ Len(s8) = Len(s7) + Len(h)
      /\ At(s8, 0, a) /\ At(s8, Len(a), b) /\ At(s8, Len(s2), c) /\ At(s8, Len(s3), d)
      /\ At(s8, Len(s4), e) /\ At(s8, Len(s5), f) /\ At(s8, Len(s6), g)
  BY <1>7, PartIs, AtLeft
<1>9. s8 = a \o b \o c \o d \o e \o f \o g \o h
  BY DEF s2, s3, s4, s5, s6, s7
<1> HIDE DEF s8
<1>10. Chained(s8, a, b, c, d, e, f, g, h)
  BY <1>2, <1>3, <1>4, <1>5, <1>6, <1>7, <1>8 DEF Chained
<1> QED BY <1>9, <1>10

\* A type is known by its code.
LEMMA CodeOfType ==
  ASSUME NEW type \in Type
  PROVE  TypeCode(type) \in Int /\ TypeOfCode(TypeCode(type)) = type
<1>1. /\ TypeCode("Int16") = 1 /\ TypeCode("Int32") = 2 /\ TypeCode("Int64") = 3
      /\ TypeCode("String") = 4 /\ TypeCode("Double") = 5 /\ TypeCode("Date") = 6
      /\ TypeCode("Timestamp") = 7
  BY DEF TypeCode
<1>2. Type = {"Int16", "Int32", "Int64", "Date", "Timestamp", "String", "Double"}
  BY DEF Type, IntType, DateType
<1>3. TypeCode(type) \in Int
  BY <1>1, <1>2
<1>4. \A t \in Type : TypeCode(t) = TypeCode(type) => t = type
  BY <1>1, <1>2
<1> QED BY <1>3, <1>4 DEF TypeOfCode

\* The codes of the types in the file.
Codes(types) == [c \in 1 .. Len(types) |-> TypeCode(types[c])]

\* The parts of the metadata fit together.
IsTable(types, starts, sections, rows, column_names) ==
  /\ types \in Seq(Type) /\ starts \in Seq(Nat) /\ sections \in Seq(Int)
  /\ Len(sections) = Len(starts) * (Len(types) + 2)
  /\ AreStatRows(types, rows) /\ Len(rows) = Len(starts)
  /\ column_names \in Seq(Texts) /\ Len(column_names) = Len(types)

\* The metadata in the file, without their size.
FooterOf(types, starts, sections, rows, column_names) ==
  <<Len(starts)>> \o starts \o <<Len(types)>> \o Codes(types) \o sections
    \o <<Len(StatsText(types, rows))>> \o StatsText(types, rows)
    \o FlattenSeq(EntriesOf(column_names))

\* The sections of the groups, cut apart.
SectionsOf(sections, size, n) ==
  [b \in 1 .. n |-> SubSeq(sections, (b - 1) * size + 1, b * size)]

\* What is to be read from them.
ContentOf(types, starts, sections, rows, column_names) ==
  [starts |-> starts, types |-> types,
   sizes |-> SectionsOf(sections, Len(types) + 2, Len(starts)),
   stats |-> rows, names |-> column_names]

\* The file f ends with this footer.
EndsWith(f, footer) ==
  /\ f \in Seq(Int) /\ footer \in Seq(Int) /\ Len(f) > Len(footer)
  /\ At(f, Len(f) - 1 - Len(footer), footer)
  /\ f[Len(f)] = Len(footer)

\* The parts of the metadata lie one behind the other.
LEMMA FooterType ==
  ASSUME NEW types, NEW starts, NEW sections, NEW rows, NEW column_names,
         IsTable(types, starts, sections, rows, column_names)
  PROVE  Chained(FooterOf(types, starts, sections, rows, column_names),
                 <<Len(starts)>>, starts, <<Len(types)>>, Codes(types), sections,
                 <<Len(StatsText(types, rows))>>, StatsText(types, rows),
                 FlattenSeq(EntriesOf(column_names)))
<1>1. types \in Seq(Type) /\ starts \in Seq(Int) /\ sections \in Seq(Int)
      /\ AreStatRows(types, rows) /\ column_names \in Seq(Texts)
      /\ Len(types) \in Nat /\ Len(starts) \in Nat
  BY DEF IsTable
<1>2. StatsText(types, rows) \in Seq(Int)
  BY <1>1, RowTextsType
<1>3. Codes(types) \in Seq(Int)
  <2> DEFINE n == Len(types)  cs == Codes(types)
  <2>1. \A c \in 1 .. n : TypeCode(types[c]) \in Int
    BY <1>1, CodeOfType
  <2>2. cs \in [1 .. n -> Int]
    BY <2>1 DEF Codes
  <2> HIDE DEF n, cs
  <2>3. n \in Nat
    BY <1>1 DEF n
  <2> QED BY <2>2, <2>3, SeqOfFunction DEF cs
<1>4. FlattenSeq(EntriesOf(column_names)) \in Seq(Int)
  <2> DEFINE es == EntriesOf(column_names)
  <2>1. es \in Seq(Seq(Int))
    BY <1>1, EntriesType
  <2> HIDE DEF es
  <2>2. PICK F : IsFlat(F, es, Int) /\ FlattenSeq(es) = F[Len(es)]
    BY <2>1, FlattenTrace
  <2>3. Len(es) \in 0 .. Len(es)
    BY <2>1
  <2> QED BY <2>2, <2>3 DEF IsFlat, es
<1>5. Len(StatsText(types, rows)) \in Nat
  BY <1>2
<1>6. <<Len(starts)>> \in Seq(Int) /\ <<Len(types)>> \in Seq(Int)
      /\ <<Len(StatsText(types, rows))>> \in Seq(Int)
  BY <1>1, <1>5
<1> QED BY <1>1, <1>2, <1>3, <1>4, <1>6, Chain DEF FooterOf

\* What Metadata::Read finds in a file is what the writer put there.
THEOREM MetadataRoundTrip ==
  ASSUME NEW types, NEW starts, NEW sections, NEW rows, NEW column_names,
         IsTable(types, starts, sections, rows, column_names), NEW f,
         EndsWith(f, FooterOf(types, starts, sections, rows, column_names))
  PROVE  ReadMetadata(f) = ContentOf(types, starts, sections, rows, column_names)
<1> DEFINE m == FooterOf(types, starts, sections, rows, column_names)
           stats == StatsText(types, rows)  scheme == FlattenSeq(EntriesOf(column_names))
           codes == Codes(types)
           B == Len(starts)  C == Len(types)  L == Len(stats)  S == C + 2  M == B * S
           n == <<B>>  k == <<C>>  l == <<L>>
<1>1. /\ types \in Seq(Type) /\ starts \in Seq(Nat) /\ sections \in Seq(Int)
      /\ Len(sections) = M /\ AreStatRows(types, rows) /\ Len(rows) = B
      /\ column_names \in Seq(Texts) /\ Len(column_names) = C
      /\ B \in Nat /\ C \in Nat /\ S \in Nat
  BY DEF IsTable
<1>2. Chained(m, n, starts, k, codes, sections, l, stats, scheme)
  BY FooterType
<1>3. stats \in Seq(Int) /\ L \in Nat
  <2>1. stats \in Seq(Int)
    BY <1>1, RowTextsType
  <2> QED BY <2>1
<1>4. SubSeq(f, Len(f) - f[Len(f)], Len(f) - 1) = m
  <2> DEFINE p == Len(f) - 1 - Len(m)
  <2>1. f \in Seq(Int) /\ m \in Seq(Int) /\ Len(f) > Len(m) /\ At(f, p, m) /\ f[Len(f)] = Len(m)
    BY DEF EndsWith
  <2>2. Len(f) - f[Len(f)] = p + 1 /\ Len(f) - 1 = p + Len(m)
    <3> HIDE DEF m
    <3>1. Len(f) \in Nat /\ Len(m) \in Nat
      BY <2>1
    <3> QED BY <2>1, <3>1
  <2> HIDE DEF m, p
  <2>3. SubSeq(f, p + 1, p + Len(m)) = m
    BY <2>1, AtSub
  <2> QED BY <2>2, <2>3
<1>5. M \in Nat
  BY <1>1
<1>6. Len(n) = 1 /\ n[1] = B /\ Len(k) = 1 /\ k[1] = C /\ Len(l) = 1 /\ l[1] = L
      /\ Len(codes) = C /\ \A c \in 1 .. C : codes[c] = TypeCode(types[c])
  <2>1. Len(n) = 1 /\ n[1] = B /\ Len(k) = 1 /\ k[1] = C /\ Len(l) = 1 /\ l[1] = L
    OBVIOUS
  <2>2. codes = [c \in 1 .. C |-> TypeCode(types[c])]
    BY DEF Codes
  <2>3. Len(codes) = C
    BY <1>1, <2>2
  <2> QED BY <2>1, <2>2, <2>3
<1> HIDE DEF n, k, l, codes, B, C, L, S, M, m, stats, scheme
<1> DEFINE sizesAt == B + C + 2  statsAt == sizesAt + M + 1
<1>7. /\ m \in Seq(Int) /\ At(m, 0, n) /\ At(m, 1, starts) /\ At(m, 1 + B, k)
      /\ At(m, (1 + B) + 1, codes) /\ At(m, ((1 + B) + 1) + C, sections)
      /\ At(m, (((1 + B) + 1) + C) + M, l)
      /\ At(m, ((((1 + B) + 1) + C) + M) + 1, stats)
      /\ At(m, (((((1 + B) + 1) + C) + M) + 1) + L, scheme)
      /\ Len(m) = (((((1 + B) + 1) + C) + M) + 1) + L + Len(scheme)
  BY <1>1, <1>2, <1>6 DEF Chained, B, C, L
<1>8. /\ 1 + B = B + 1 /\ (1 + B) + 1 = B + 2 /\ ((1 + B) + 1) + C = sizesAt
      /\ (((1 + B) + 1) + C) + M = sizesAt + M
      /\ ((((1 + B) + 1) + C) + M) + 1 = statsAt
      /\ (((((1 + B) + 1) + C) + M) + 1) + L = statsAt + L
      /\ sizesAt \in Nat /\ statsAt \in Nat /\ B + 2 \in Nat /\ B + 1 \in Nat
      /\ sizesAt + M \in Nat /\ statsAt + L \in Nat
  BY <1>1, <1>3, <1>5
<1>9. /\ At(m, 1, starts) /\ At(m, B + 1, k) /\ At(m, B + 2, codes)
      /\ At(m, sizesAt, sections) /\ At(m, sizesAt + M, l) /\ At(m, statsAt, stats)
      /\ At(m, statsAt + L, scheme) /\ Len(m) = statsAt + L + Len(scheme)
  BY <1>7, <1>8
<1>10. scheme \in Seq(Int) /\ ParseNames(scheme, C) = column_names
  <2>1. ParseNames(scheme, C) = column_names
    BY <1>1, NamesRoundTrip DEF scheme
  <2> DEFINE es == EntriesOf(column_names)
  <2>2. es \in Seq(Seq(Int))
    BY <1>1, EntriesType
  <2> HIDE DEF es
  <2>3. PICK F : IsFlat(F, es, Int) /\ FlattenSeq(es) = F[Len(es)]
    BY <2>2, FlattenTrace
  <2>4. Len(es) \in 0 .. Len(es)
    BY <2>2
  <2> QED BY <2>1, <2>3, <2>4 DEF IsFlat, es, scheme
<1> HIDE DEF sizesAt, statsAt
<1>11. m[1] = B
  <2>1. 1 \in 1 .. Len(n) /\ 0 + 1 = 1
    BY <1>6
  <2>2. m[0 + 1] = n[1]
    BY <1>7, <2>1 DEF At
  <2> QED BY <1>6, <2>1, <2>2
<1>12. m[B + 2] = C
  <2>1. 1 \in 1 .. Len(k) /\ (B + 1) + 1 = B + 2
    BY <1>1, <1>6
  <2>2. m[(B + 1) + 1] = k[1]
    BY <1>9, <2>1 DEF At
  <2> QED BY <1>6, <2>1, <2>2
<1>13. m[statsAt] = L
  <2>1. 1 \in 1 .. Len(l) /\ (sizesAt + M) + 1 = statsAt
    BY <1>6, <1>8 DEF statsAt
  <2>2. m[(sizesAt + M) + 1] = l[1]
    BY <1>9, <2>1 DEF At
  <2> QED BY <1>6, <2>1, <2>2
<1>14. SubSeq(m, 2, B + 1) = starts
  <2>0. starts \in Seq(Int) /\ m \in Seq(Int) /\ At(m, 1, starts) /\ 1 \in Nat
    BY <1>1, <1>7
  <2>1. SubSeq(m, 1 + 1, 1 + Len(starts)) = starts
    BY <2>0, AtSub
  <2> QED BY <1>8, <2>1 DEF B
<1>15. [c \in 1 .. C |-> TypeOfCode(m[B + 2 + c])] = types
  <2>1. ASSUME NEW c \in 1 .. C PROVE TypeOfCode(m[B + 2 + c]) = types[c]
    <3>1. m[(B + 2) + c] = codes[c]
      BY <1>6, <1>9 DEF At
    <3>2. types[c] \in Type
      BY <1>1 DEF C
    <3> QED BY <1>6, <3>1, <3>2, CodeOfType
  <2>2. types = [c \in 1 .. C |-> types[c]]
    BY <1>1 DEF C
  <2>3. [c \in 1 .. C |-> TypeOfCode(m[B + 2 + c])] = [c \in 1 .. C |-> types[c]]
    BY <2>1
  <2> QED BY <2>2, <2>3
<1>16. [b \in 1 .. B |-> SubSeq(m, sizesAt + (b - 1) * S + 1, sizesAt + b * S)]
         = SectionsOf(sections, S, B)
  <2>1. ASSUME NEW b \in 1 .. B
        PROVE  SubSeq(m, sizesAt + (b - 1) * S + 1, sizesAt + b * S)
                 = SubSeq(sections, (b - 1) * S + 1, b * S)
    <3> DEFINE i == (b - 1) * S  j == b * S
    <3>1. i \in Nat /\ j \in Nat /\ i <= j /\ j <= M
      <4>1. b \in Nat /\ b - 1 \in Nat /\ b <= B
        BY <1>1
      <4>2. i \in Nat /\ j \in Nat /\ j = i + S
        BY <1>1, <4>1
      <4>3. b * S <= B * S
        BY <1>1, <4>1
      <4> QED BY <1>1, <4>2, <4>3 DEF M
    <3> HIDE DEF i, j
    <3>2. m \in Seq(Int) /\ sections \in Seq(Int) /\ sizesAt \in Nat
          /\ At(m, sizesAt, sections) /\ j <= Len(sections)
      BY <1>1, <1>7, <1>8, <1>9, <3>1
    <3>3. IsPiece(m, sections, sizesAt, i, j)
      BY <3>1, <3>2, SubOfAt
    <3> QED BY <3>3 DEF i, j, IsPiece
  <2> QED BY <2>1 DEF SectionsOf
<1>17. ParseStats(SubSeq(m, statsAt + 1, statsAt + L), types, B) = rows
  <2>1. SubSeq(m, statsAt + 1, statsAt + L) = stats
    BY <1>3, <1>7, <1>9, AtSub DEF L
  <2>2. ParseStats(stats, types, B) = rows
    BY <1>1, StatsRoundTrip DEF stats
  <2> QED BY <2>1, <2>2
<1>18. SubSeq(m, statsAt + L + 1, Len(m)) = scheme
  <2> DEFINE p == statsAt + L
  <2>1. At(m, p, scheme) /\ Len(m) = p + Len(scheme)
    BY <1>9
  <2> HIDE DEF p
  <2>2. SubSeq(m, p + 1, p + Len(scheme)) = scheme
    BY <1>7, <1>10, <2>1, AtSub
  <2> QED BY <2>1, <2>2 DEF p
<1>19. ReadMetadata(f) =
         [starts |-> SubSeq(m, 2, B + 1), types |-> types,
          sizes |-> [b \in 1 .. B |-> SubSeq(m, sizesAt + (b - 1) * S + 1, sizesAt + b * S)],
          stats |-> ParseStats(SubSeq(m, statsAt + 1, statsAt + L), types, B),
          names |-> ParseNames(SubSeq(m, statsAt + L + 1, Len(m)), C)]
  <2> DEFINE w == SubSeq(f, Len(f) - Last(f), Len(f) - 1)
             batches == w[1]
             columns == w[batches + 2]
             at == batches + columns + 2
             next == at + batches * (columns + 2) + 1
             ty == [c \in 1 .. columns |-> TypeOfCode(w[batches + 2 + c])]
  <2>1. w = m
    BY <1>4 DEF Last
  <2>2. ReadMetadata(f) =
          [starts |-> SubSeq(w, 2, batches + 1), types |-> ty,
           sizes |-> [b \in 1 .. batches |->
              SubSeq(w, at + (b - 1) * (columns + 2) + 1, at + b * (columns + 2))],
           stats |-> ParseStats(SubSeq(w, next + 1, next + w[next]), ty, batches),
           names |-> ParseNames(SubSeq(w, next + w[next] + 1, Len(w)), columns)]
    BY DEF ReadMetadata
  <2> HIDE DEF w
  <2>3. batches = B /\ columns = C
    BY <1>11, <1>12, <2>1
  <2> HIDE DEF batches, columns
  <2>4. at = sizesAt /\ columns + 2 = S
    BY <2>3 DEF sizesAt, S
  <2>5. next = statsAt
    BY <2>3, <2>4 DEF statsAt, M, S
  <2> HIDE DEF at, next
  <2>6. w[next] = L
    BY <1>13, <2>1, <2>5
  <2>7. ty = types
    BY <1>15, <2>1, <2>3
  <2> HIDE DEF ty
  <2> QED BY <2>1, <2>2, <2>3, <2>4, <2>5, <2>6, <2>7
<1> QED BY <1>10, <1>14, <1>16, <1>17, <1>18, <1>19 DEF ContentOf, B, C, S

-----------------------------------------------------------------------------
\* The rows of the source as they are read.

\* Where the reader of the source is: n records are behind it, those of the
\* header not counted.
HeaderOf(s) == IF s.header THEN 1 ELSE 0

\* The first n rows of the source are read, and the next is at p, unless the
\* stream is at its end, which is behind the last row.
IsAhead(s, n, p, e) ==
  /\ n \in Nat /\ n <= Len(s.records)
  /\ IF e THEN n = Len(s.records) ELSE Unread(s.text, HeaderOf(s) + n, p)

\* next is row n + 1 of the source; nothing is read behind the last one.
IsNextRow(s, n, p, next) ==
  /\ p \in 0 .. Len(s.text)
  /\ next.record = <<>> => n = Len(s.records)
  /\ next.record # <<>> =>
       /\ n + 1 <= Len(s.records) /\ next.record = s.records[n + 1]
       /\ next.eof \in BOOLEAN /\ next.position \in p + 1 .. Len(s.text)
       /\ IsAhead(s, n + 1, next.position, next.eof)

\* The rows of a source are the records of its text behind the header.
LEMMA RecordsOf ==
  ASSUME NEW s, IsSource(s)
  PROVE  /\ s.text \in Seq(Int) /\ s.records \in Seq(Rows) /\ HeaderOf(s) \in {0, 1}
         /\ Len(Records(s.text)) = HeaderOf(s) + Len(s.records)
         /\ \A n \in 1 .. Len(s.records) : Records(s.text)[HeaderOf(s) + n] = s.records[n]
         /\ s.header => Records(s.text)[1] = s.names
<1>1. /\ s.text \in Seq(Int) /\ s.records \in Seq(Rows) /\ s.header \in BOOLEAN
      /\ s.names \in Rows
      /\ Records(s.text) = (IF s.header THEN <<s.names>> ELSE <<>>) \o s.records
  BY DEF IsSource, Rows
<1> DEFINE rs == s.records  ns == s.names
<1>2. CASE s.header
  <2>1. Records(s.text) = <<ns>> \o rs /\ HeaderOf(s) = 1
    BY <1>1, <1>2 DEF HeaderOf
  <2> HIDE DEF rs, ns
  <2>2. <<ns>> \in Seq(Rows) /\ rs \in Seq(Rows) /\ Len(<<ns>>) = 1 /\ <<ns>>[1] = ns
    BY <1>1 DEF ns, rs
  <2>3. /\ Len(<<ns>> \o rs) = 1 + Len(rs)
        /\ \A n \in 1 .. Len(rs) : (<<ns>> \o rs)[1 + n] = rs[n]
        /\ (<<ns>> \o rs)[1] = ns
    BY <2>2
  <2> QED BY <1>1, <2>1, <2>3 DEF rs, ns
<1>3. CASE ~s.header
  <2>1. Records(s.text) = <<>> \o rs /\ HeaderOf(s) = 0
    BY <1>1, <1>3 DEF HeaderOf
  <2> HIDE DEF rs
  <2>2. rs \in Seq(Rows)
    BY <1>1 DEF rs
  <2>3. <<>> \o rs = rs
    BY <2>2
  <2> QED BY <1>1, <1>3, <2>1, <2>2, <2>3 DEF rs
<1> QED BY <1>1, <1>2, <1>3

\* The reader finds the rows of the source one after the other.
LEMMA NextAhead ==
  ASSUME NEW s, IsSource(s), NEW n, NEW p, IsAhead(s, n, p, FALSE)
  PROVE  IsNextRow(s, n, p, GetNextLineAndSplitIntoTokens(s.text, p))
<1> DEFINE next == GetNextLineAndSplitIntoTokens(s.text, p)  k == HeaderOf(s) + n
<1>1. /\ s.text \in Seq(Int) /\ HeaderOf(s) \in {0, 1} /\ Len(s.records) \in Nat
      /\ Len(Records(s.text)) = HeaderOf(s) + Len(s.records)
      /\ \A i \in 1 .. Len(s.records) : Records(s.text)[HeaderOf(s) + i] = s.records[i]
  BY RecordsOf
<1>2. n \in Nat /\ n <= Len(s.records) /\ Unread(s.text, k, p)
  BY DEF IsAhead
<1> HIDE DEF k
<1>3. /\ p \in 0 .. Len(s.text) /\ k \in Nat
      /\ next.record = <<>> => Len(Records(s.text)) = k
      /\ next.record # <<>> =>
              /\ k + 1 <= Len(Records(s.text)) /\ next.record = Records(s.text)[k + 1]
              /\ next.eof \in BOOLEAN /\ next.position \in p + 1 .. Len(s.text)
              /\ IF next.eof THEN Len(Records(s.text)) = k + 1
                             ELSE Unread(s.text, k + 1, next.position)
  BY <1>1, <1>2, NextUnread
<1> HIDE DEF next
<1>4. next.record = <<>> => n = Len(s.records)
  BY <1>1, <1>2, <1>3 DEF k
<1>5. ASSUME next.record # <<>>
      PROVE  /\ n + 1 <= Len(s.records) /\ next.record = s.records[n + 1]
             /\ next.eof \in BOOLEAN /\ next.position \in p + 1 .. Len(s.text)
             /\ IsAhead(s, n + 1, next.position, next.eof)
  <2>1. k + 1 = HeaderOf(s) + (n + 1) /\ n + 1 \in Nat
    BY <1>1, <1>2 DEF k
  <2>2. n + 1 <= Len(s.records)
    BY <1>1, <1>2, <1>3, <1>5 DEF k
  <2>3. next.record = s.records[n + 1]
    BY <1>1, <1>2, <1>3, <1>5, <2>1, <2>2
  <2>4. next.eof => n + 1 = Len(s.records)
    BY <1>1, <1>2, <1>3, <1>5 DEF k
  <2>5. ~next.eof => Unread(s.text, HeaderOf(s) + (n + 1), next.position)
    BY <1>3, <1>5, <2>1
  <2>6. IsAhead(s, n + 1, next.position, next.eof)
    BY <2>1, <2>2, <2>4, <2>5 DEF IsAhead
  <2> QED BY <1>3, <1>5, <2>2, <2>3, <2>6
<1> QED BY <1>3, <1>4, <1>5 DEF IsNextRow, next

\* The names are where SetScheme looks for them, and the rows behind them.
LEMMA SchemeAhead ==
  ASSUME NEW s, IsSource(s), NEW next, next = GetNextLineAndSplitIntoTokens(s.text, 0)
  PROVE  /\ ~s.header => IsAhead(s, 0, 0, FALSE)
         /\ s.header => /\ next.record = s.names /\ next.eof \in BOOLEAN
                        /\ next.position \in 0 .. Len(s.text)
                        /\ IsAhead(s, 0, next.position, next.eof)
<1>1. /\ s.text \in Seq(Int) /\ HeaderOf(s) \in {0, 1} /\ Len(s.records) \in Nat
      /\ Len(Records(s.text)) = HeaderOf(s) + Len(s.records)
      /\ s.header => Records(s.text)[1] = s.names
  BY RecordsOf
<1>2. Unread(s.text, 0, 0)
  BY <1>1, FirstUnread
<1>3. ~s.header => IsAhead(s, 0, 0, FALSE)
  BY <1>1, <1>2 DEF IsAhead, HeaderOf
<1>4. /\ next.record = <<>> => Len(Records(s.text)) = 0
      /\ next.record # <<>> =>
              /\ 0 + 1 <= Len(Records(s.text)) /\ next.record = Records(s.text)[0 + 1]
              /\ next.eof \in BOOLEAN /\ next.position \in 0 + 1 .. Len(s.text)
              /\ IF next.eof THEN Len(Records(s.text)) = 0 + 1
                             ELSE Unread(s.text, 0 + 1, next.position)
  BY <1>1, <1>2, NextUnread
<1>5. ASSUME s.header
      PROVE  /\ next.record = s.names /\ next.eof \in BOOLEAN
             /\ next.position \in 0 .. Len(s.text)
             /\ IsAhead(s, 0, next.position, next.eof)
  <2>1. HeaderOf(s) = 1 /\ HeaderOf(s) + 0 = 1 /\ 0 + 1 = 1
    BY <1>5 DEF HeaderOf
  <2>2. next.record # <<>>
    BY <1>1, <1>4, <2>1
  <2>3. next.record = s.names /\ next.eof \in BOOLEAN /\ next.position \in 1 .. Len(s.text)
    BY <1>1, <1>4, <1>5, <2>1, <2>2
  <2>4. next.eof => 0 = Len(s.records)
    BY <1>1, <1>4, <2>1, <2>2
  <2>5. ~next.eof => Unread(s.text, HeaderOf(s) + 0, next.position)
    BY <1>4, <2>1, <2>2
  <2>6. IsAhead(s, 0, next.position, next.eof)
    BY <1>1, <2>4, <2>5 DEF IsAhead
  <2> QED BY <1>1, <2>3, <2>6
<1> QED BY <1>3, <1>5

-----------------------------------------------------------------------------
\* The groups written so far.

\* The row groups in the file f and in its metadata: the rows up to cut[b] of the
\* source are in the first b of them.
AreGroups(s, f, starts, m, stats, cut) ==
  /\ DOMAIN cut = 0 .. Len(stats) /\ cut[0] = 0
  /\ \A b \in 1 .. Len(stats) :
       IsGroup(s, f, starts[b], m, (b - 1) * (Len(s.types) + 2), stats[b], cut[b - 1], cut[b])

\* Row group b is full.
IsFull(s, cut, b) == Weight(s, cut[b - 1], cut[b]) > RowGroupSize

\* How many groups must be full: the last one only when there is more to read.
FullOnes(starts, stats, e) ==
  IF e /\ Len(starts) = Len(stats) THEN Len(stats) - 1 ELSE Len(stats)

\* Groups stay what they are when the file and the sizes grow.
LEMMA GroupsGrow ==
  ASSUME NEW s, NEW f \in Seq(Int), NEW starts, NEW m \in Seq(Int), NEW stats, NEW cut,
         AreGroups(s, f, starts, m, stats, cut), NEW x \in Seq(Int), NEW y \in Seq(Int)
  PROVE  AreGroups(s, f \o x, starts, m \o y, stats, cut)
<1> DEFINE q(b) == (b - 1) * (Len(s.types) + 2)
<1>1. /\ DOMAIN cut = 0 .. Len(stats) /\ cut[0] = 0
      /\ \A b \in 1 .. Len(stats) :
           IsGroup(s, f, starts[b], m, q(b), stats[b], cut[b - 1], cut[b])
  BY DEF AreGroups
<1>2. ASSUME NEW b \in 1 .. Len(stats)
      PROVE  IsGroup(s, f \o x, starts[b], m \o y, q(b), stats[b], cut[b - 1], cut[b])
  BY <1>1, GroupGrows
<1> QED BY <1>1, <1>2 DEF AreGroups

\* So they do when another group is begun.
LEMMA StartsGrow ==
  ASSUME NEW s, NEW f, NEW starts \in Seq(Nat), NEW m, NEW stats, NEW cut,
         AreGroups(s, f, starts, m, stats, cut), Len(stats) <= Len(starts), NEW p \in Nat,
         stats \in Seq(Seq(Stat))
  PROVE  AreGroups(s, f, Append(starts, p), m, stats, cut)
<1> DEFINE q(b) == (b - 1) * (Len(s.types) + 2)  n == Len(stats)
<1>1. /\ DOMAIN cut = 0 .. n /\ cut[0] = 0
      /\ \A b \in 1 .. n : IsGroup(s, f, starts[b], m, q(b), stats[b], cut[b - 1], cut[b])
  BY DEF AreGroups
<1>2. n \in Nat
  OBVIOUS
<1> HIDE DEF n, q
<1>3. n <= Len(starts)
  BY DEF n
<1>4. \A b \in 1 .. n : Append(starts, p)[b] = starts[b]
  BY <1>2, <1>3
<1>5. \A b \in 1 .. n :
        IsGroup(s, f, Append(starts, p)[b], m, q(b), stats[b], cut[b - 1], cut[b])
  BY <1>1, <1>4
<1> QED BY <1>1, <1>5 DEF AreGroups, n, q

\* The cuts with another one behind.
Extended(cut, n, hi) == [b \in 0 .. n |-> IF b = n THEN hi ELSE cut[b]]

\* The rows cut[n] + 1 .. hi can be row group n + 1, which begins at the end of
\* the file f.
CanAdd(s, f, starts, m, stats, cut, n, hi, row) ==
  /\ f \in Seq(Int) /\ m \in Seq(Int) /\ stats \in Seq(Seq(Stat)) /\ row \in Seq(Stat)
  /\ AreGroups(s, f, starts, m, stats, cut)
  /\ n = Len(stats) /\ starts[n + 1] = Len(f) /\ Len(m) = (Len(s.types) + 2) * n
  /\ AreRows(s, cut[n], hi) /\ IsStats(s, row, cut[n], hi)
  /\ Weight(s, cut[n], hi - 1) <= RowGroupSize

\* One group more: the rows behind the last cut, written at the end of the file.
LEMMA AddGroup ==
  ASSUME NEW s, NEW f, NEW starts, NEW m, NEW stats, NEW cut, NEW n, NEW hi, NEW row,
         CanAdd(s, f, starts, m, stats, cut, n, hi, row)
  PROVE  /\ AreGroups(s, f \o FlattenSeq(Coded(s, cut[n], hi)), starts,
                      m \o Section(s, cut[n], hi), Append(stats, row), Extended(cut, n + 1, hi))
         /\ Len(m \o Section(s, cut[n], hi)) = (Len(s.types) + 2) * (n + 1)
         /\ m \o Section(s, cut[n], hi) \in Seq(Int)
         /\ f \o FlattenSeq(Coded(s, cut[n], hi)) \in Seq(Int)
<1> DEFINE lo == cut[n]  x == FlattenSeq(Coded(s, lo, hi))  y == Section(s, lo, hi)
           w == Len(s.types) + 2  more == Append(stats, row)  longer == Extended(cut, n + 1, hi)
           q(b) == (b - 1) * w
<1>0. /\ f \in Seq(Int) /\ m \in Seq(Int) /\ stats \in Seq(Seq(Stat)) /\ row \in Seq(Stat)
      /\ AreGroups(s, f, starts, m, stats, cut)
      /\ n = Len(stats) /\ starts[n + 1] = Len(f) /\ Len(m) = w * n
      /\ AreRows(s, lo, hi) /\ IsStats(s, row, lo, hi)
      /\ Weight(s, lo, hi - 1) <= RowGroupSize
  BY DEF CanAdd
<1>1. n \in Nat /\ x \in Seq(Int) /\ y \in Seq(Int) /\ Len(y) = w /\ Len(s.types) \in Nat
  <2>1. n \in Nat
    BY <1>0
  <2>2. x \in Seq(Int)
    BY <1>0, CodedFlat
  <2>3. y \in Seq(Int) /\ Len(y) = w
    BY <1>0, SectionIs
  <2>4. Len(s.types) \in Nat
    BY <1>0 DEF AreRows, IsSource
  <2> QED BY <2>1, <2>2, <2>3, <2>4
<1>2. more \in Seq(Seq(Stat)) /\ Len(more) = n + 1 /\ more[n + 1] = row
      /\ \A b \in 1 .. n : more[b] = stats[b]
  BY <1>0, <1>1
<1>3. DOMAIN longer = 0 .. n + 1 /\ longer[n + 1] = hi
      /\ \A b \in 0 .. n : longer[b] = cut[b]
  BY <1>1 DEF Extended
<1>4. AreGroups(s, f \o x, starts, m \o y, stats, cut)
  <2> HIDE DEF x, y
  <2> QED BY <1>0, <1>1, GroupsGrow
<1>5. cut[0] = 0 /\ \A b \in 1 .. n :
        IsGroup(s, f \o x, starts[b], m \o y, q(b), stats[b], cut[b - 1], cut[b])
  BY <1>0, <1>4 DEF AreGroups
<1>6. IsGroup(s, f \o x, starts[n + 1], m \o y, q(n + 1), row, lo, hi)
  <2>1. At(f \o x, Len(f), x)
    <3> HIDE DEF x
    <3> QED BY <1>0, <1>1, PartIs
  <2>2. At(m \o y, Len(m), y)
    <3> HIDE DEF y
    <3> QED BY <1>0, <1>1, PartIs
  <2>3. q(n + 1) = Len(m)
    <3>1. (n + 1) - 1 = n /\ w \in Nat
      BY <1>1
    <3> HIDE DEF w
    <3>2. n * w = w * n
      BY <1>1, <3>1
    <3> QED BY <1>0, <3>1, <3>2 DEF w
  <2> HIDE DEF q
  <2> QED BY <1>0, <2>1, <2>2, <2>3 DEF IsGroup
<1> HIDE DEF w, more, longer, x, y, lo
<1>7. ASSUME NEW b \in 1 .. n + 1
      PROVE  IsGroup(s, f \o x, starts[b], m \o y, q(b), more[b], longer[b - 1], longer[b])
  <2>1. CASE b = n + 1
    <3>1. b - 1 = n /\ n \in 0 .. n
      BY <1>1, <2>1
    <3>2. longer[b - 1] = lo /\ longer[b] = hi /\ more[b] = row
      BY <1>2, <1>3, <2>1, <3>1 DEF lo
    <3> HIDE DEF q
    <3> QED BY <1>6, <2>1, <3>2
  <2>2. CASE b # n + 1
    <3>0. n \in Nat
      BY <1>1
    <3>1. b \in 1 .. n /\ b - 1 \in 0 .. n /\ b \in 0 .. n
      BY <2>2, <3>0
    <3>2. longer[b - 1] = cut[b - 1] /\ longer[b] = cut[b] /\ more[b] = stats[b]
      BY <1>2, <1>3, <3>1
    <3> HIDE DEF q
    <3> QED BY <1>5, <3>1, <3>2
  <2> QED BY <2>1, <2>2
<1>8. longer[0] = 0
  <2>1. 0 \in 0 .. n
    BY <1>1
  <2> QED BY <1>3, <1>5, <2>1
<1>9. AreGroups(s, f \o x, starts, m \o y, more, longer)
  BY <1>2, <1>3, <1>7, <1>8 DEF AreGroups, w
<1>10. Len(m \o y) = w * (n + 1) /\ m \o y \in Seq(Int) /\ f \o x \in Seq(Int)
  <2>1. Len(m \o y) = Len(m) + Len(y) /\ m \o y \in Seq(Int) /\ f \o x \in Seq(Int)
    BY <1>0, <1>1, PartIs
  <2>2. w \in Nat /\ Len(m) = w * n
    BY <1>0, <1>1 DEF w
  <2>3. w * n + w = w * (n + 1)
    BY <1>1, <2>2
  <2> QED BY <1>1, <2>1, <2>2, <2>3
<1> QED BY <1>9, <1>10 DEF more, longer, x, y, w, lo

\* The cuts lie in the source, one behind the other.
LEMMA CutsAre ==
  ASSUME NEW s, IsSource(s), NEW f, NEW starts, NEW m, NEW stats \in Seq(Seq(Stat)), NEW cut,
         AreGroups(s, f, starts, m, stats, cut), NEW b \in 0 .. Len(stats)
  PROVE  cut[b] \in Nat /\ cut[b] <= Len(s.records)
<1>1. DOMAIN cut = 0 .. Len(stats) /\ cut[0] = 0 /\ Len(stats) \in Nat
  BY DEF AreGroups
<1>2. Len(s.records) \in Nat
  BY DEF IsSource
<1>3. CASE b = 0
  BY <1>1, <1>2, <1>3
<1>4. CASE b # 0
  <2>1. b \in 1 .. Len(stats)
    BY <1>1, <1>4
  <2>2. AreRows(s, cut[b - 1], cut[b])
    BY <2>1 DEF AreGroups, IsGroup
  <2> QED BY <2>2 DEF AreRows
<1> QED BY <1>3, <1>4

-----------------------------------------------------------------------------
\* The inductive invariant and the actions.

\* The phases of TypeOK.
Phases == {"scheme", "between", "rows", "encode", "written", "open", "exported",
           "failed", "crashed"}

\* The phases in which there is a file to read.
Read == {"written", "open", "exported"}

\* The rows that are read for the next row group.
InBatch(s, rows, lo) ==
  \A k \in 1 .. Len(rows) : Taken(s, lo + k) /\ rows[k] = s.records[lo + k]

\* The types of the variables, and what relates the lengths.
Basic ==
  /\ source \in Sources
  /\ phase \in Phases
  /\ names \in Seq(Texts)
  /\ phase \notin {"scheme", "failed"} =>
       names = source.names /\ Len(names) = Len(source.types)
  /\ position \in 0 .. Len(source.text) /\ eof \in BOOLEAN
  /\ str_batch \in Seq(Rows) /\ Len(str_batch) <= position
  /\ capacity \in Nat
  /\ row_group = [c \in 1 .. Len(source.types) |-> <<>>]
  /\ file \in Seq(Int) /\ all_metadata \in Seq(Int) /\ all_stats \in Seq(Seq(Stat))
  /\ batch_starts \in Seq(Nat)
  /\ \A b \in 1 .. Len(batch_starts) : batch_starts[b] <= Len(file)
  /\ Len(all_metadata) = (Len(source.types) + 2) * Len(all_stats)

\* The groups written are the rows of the source up to cut[Len(all_stats)]; all
\* but the last one are full.
Groups(cut) ==
  /\ AreGroups(source, file, batch_starts, all_metadata, all_stats, cut)
  /\ \A b \in 1 .. FullOnes(batch_starts, all_stats, eof) : IsFull(source, cut, b)

\* What the writer holds of the row group under way, whose first row is lo + 1.
Filling(lo) ==
  /\ IsAhead(source, lo + Len(str_batch), position, eof)
  /\ InBatch(source, str_batch, lo)
  /\ capacity = Weight(source, lo, lo + Len(str_batch))
  /\ Weight(source, lo, lo + Len(str_batch) - 1) <= RowGroupSize
  /\ Len(batch_starts) = Len(all_stats) + 1
  /\ batch_starts[Len(all_stats) + 1] = Len(file)

\* The group under way begins with row lo + 1; at the end no row is left.
Writing(lo) ==
  /\ phase = "scheme" => position = 0 /\ ~eof /\ all_stats = <<>> /\ batch_starts = <<>>
  /\ phase = "between" => IsAhead(source, lo, position, eof)
  /\ phase \in {"rows", "encode"} => Filling(lo)
  /\ phase = "encode" => capacity > RowGroupSize \/ eof
  /\ phase \in Read => lo = Len(source.records)
  /\ phase \in {"between"} \cup Read => Len(batch_starts) = Len(all_stats)

\* The file ends with its metadata, and the reader has them as they were.
Reader ==
  /\ phase \in Read =>
       EndsWith(file, FooterOf(source.types, batch_starts, all_metadata, all_stats, names))
  /\ metadata = IF phase \in {"open", "exported"}
                  THEN ContentOf(source.types, batch_starts, all_metadata, all_stats, names)
                  ELSE NoMetadata
  /\ curr_batch \in 0 .. BatchCount
  /\ batch = NoBatch \/ Len(batch) = Len(source.types)

\* cut has the last row of each group.
IsCut(cut) == Groups(cut) /\ Writing(cut[Len(all_stats)])

\* The inductive invariant.
IInv == Basic /\ Reader /\ \E cut : IsCut(cut)

\* Init establishes it.
LEMMA InitInv ==
  ASSUME Init
  PROVE  IInv
<1> DEFINE cut == [b \in 0 .. 0 |-> 0]
<1>1. /\ source \in Sources /\ names = <<>> /\ position = 0 /\ eof = FALSE
      /\ phase = "scheme" /\ str_batch = <<>> /\ capacity = 0 /\ row_group = NoColumns
      /\ file = <<>> /\ batch_starts = <<>> /\ all_metadata = <<>> /\ all_stats = <<>>
      /\ metadata = NoMetadata /\ curr_batch = 0 /\ batch = NoBatch
  BY DEF Init
<1>2. IsSource(source)
  BY <1>1, SourceFacts
<1>3. Len(source.types) \in Nat /\ Len(source.text) \in Nat
  BY <1>2 DEF IsSource
<1>4. Basic
  <2>1. Len(all_metadata) = 0 /\ Len(all_stats) = 0 /\ Len(batch_starts) = 0
        /\ Len(str_batch) = 0
    BY <1>1
  <2>2. (Len(source.types) + 2) * 0 = 0
    BY <1>3
  <2>3. row_group = [c \in 1 .. Len(source.types) |-> <<>>]
    BY <1>1 DEF NoColumns, ColumnNum, Types
  <2>4. names \in Seq(Texts) /\ str_batch \in Seq(Rows) /\ file \in Seq(Int)
        /\ all_metadata \in Seq(Int) /\ all_stats \in Seq(Seq(Stat)) /\ batch_starts \in Seq(Nat)
    BY <1>1
  <2>5. position \in 0 .. Len(source.text) /\ Len(str_batch) <= position
    <3>1. position = 0 /\ Len(str_batch) = 0 /\ Len(source.text) \in Nat
      BY <1>1, <1>3, <2>1
    <3> QED BY <3>1
  <2>8. eof \in BOOLEAN /\ capacity \in Nat /\ phase \in Phases
    BY <1>1 DEF Phases
  <2>6. \A b \in 1 .. Len(batch_starts) : batch_starts[b] <= Len(file)
    BY <2>1
  <2>7. Len(all_metadata) = (Len(source.types) + 2) * Len(all_stats)
    BY <2>1, <2>2
  <2> QED BY <1>1, <2>3, <2>4, <2>5, <2>6, <2>7, <2>8 DEF Basic
<1>5. Reader
  <2>1. BatchCount = 0
    BY <1>1 DEF BatchCount, NoMetadata
  <2> QED BY <1>1, <2>1 DEF Reader, Read
<1>6. Groups(cut)
  <2>1. Len(all_stats) = 0
    BY <1>1
  <2>2. DOMAIN cut = 0 .. 0 /\ cut[0] = 0
    OBVIOUS
  <2> HIDE DEF cut
  <2>3. AreGroups(source, file, batch_starts, all_metadata, all_stats, cut)
    BY <2>1, <2>2 DEF AreGroups
  <2>4. FullOnes(batch_starts, all_stats, eof) = 0
    BY <1>1, <2>1 DEF FullOnes
  <2> QED BY <2>3, <2>4 DEF Groups
<1>7. Writing(cut[Len(all_stats)])
  <2> HIDE DEF cut
  <2> QED BY <1>1 DEF Writing, Read
<1> QED BY <1>4, <1>5, <1>6, <1>7 DEF IInv, IsCut

\* The columns that are encoded are those of the rows read.
LEMMA FilledIs ==
  ASSUME Basic, NEW lo \in Nat, Filling(lo),
         \A c \in 1 .. ColumnNum : \A r \in DOMAIN str_batch :
           ~Throws(Types[c], str_batch[r][c])
  PROVE  /\ AreRows(source, lo, lo + Len(str_batch))
         /\ \A c \in 1 .. Len(source.types) :
              Filled[c] = CellsOf(source, lo, lo + Len(str_batch), c)
         /\ Encoded = Coded(source, lo, lo + Len(str_batch))
         /\ Sizes = Lengths(source, lo, lo + Len(str_batch))
<1> DEFINE n == Len(str_batch)  hi == lo + n  C == Len(source.types)
<1>1. /\ IsSource(source) /\ DatesFit(source) /\ n \in Nat /\ DOMAIN str_batch = 1 .. n
      /\ C \in Nat /\ row_group = [c \in 1 .. C |-> <<>>]
  <2>1. source \in Sources /\ str_batch \in Seq(Rows)
        /\ row_group = [c \in 1 .. C |-> <<>>]
    BY DEF Basic
  <2>2. IsSource(source) /\ DatesFit(source)
    BY <2>1, SourceFacts
  <2>3. C \in Nat
    BY <2>2 DEF IsSource
  <2> QED BY <2>1, <2>2, <2>3
<1>2. /\ hi <= Len(source.records)
      /\ \A k \in 1 .. n : Taken(source, lo + k) /\ str_batch[k] = source.records[lo + k]
  BY DEF Filling, IsAhead, InBatch
<1>3. \A c \in 1 .. C : \A r \in 1 .. n : ~Throws(source.types[c], str_batch[r][c])
  BY <1>1 DEF ColumnNum, Types
<1> HIDE DEF n, C
<1>4. ASSUME NEW r \in lo + 1 .. hi PROVE Parsed(source, r)
  <2> DEFINE k == r - lo
  <2>1. k \in 1 .. n /\ lo + k = r
    BY <1>1
  <2> HIDE DEF k
  <2>2. Taken(source, r) /\ str_batch[k] = source.records[r]
    BY <1>2, <2>1
  <2>3. \A c \in 1 .. C : ~Throws(source.types[c], source.records[r][c])
    BY <1>3, <2>1, <2>2
  <2> QED BY <2>2, <2>3 DEF Parsed, C
<1>5. AreRows(source, lo, hi)
  <2>1. hi \in Nat /\ lo <= hi
    BY <1>1
  <2> QED BY <1>1, <1>2, <1>4, <2>1 DEF AreRows
<1>6. ASSUME NEW c \in 1 .. C PROVE Filled[c] = CellsOf(source, lo, hi, c)
  <2> DEFINE a == CellsOf(source, lo, hi, c)
             b == [r \in DOMAIN str_batch |-> Parse(Types[c], Column(c)[r])]
  <2>1. a \in Seq(Value(source.types[c]))
    BY <1>5, CellsAre DEF C
  <2>2. hi - lo = n
    BY <1>1
  <2>3. a = [k \in 1 .. n |-> Parse(source.types[c], source.records[lo + k][c])]
    BY <2>2 DEF CellsOf, Cell
  <2>4. \A r \in 1 .. n : Column(c)[r] = source.records[lo + r][c]
    BY <1>1, <1>2 DEF Column
  <2>5. b = a
    BY <1>1, <2>3, <2>4 DEF Types
  <2>6. Filled[c] = row_group[c] \o b
    <3>1. c \in 1 .. ColumnNum
      BY DEF C, ColumnNum, Types
    <3> QED BY <3>1 DEF Filled
  <2>7. row_group[c] = <<>>
    BY <1>1
  <2> HIDE DEF a, b
  <2>8. <<>> \o a = a
    BY <2>1
  <2> QED BY <2>5, <2>6, <2>7, <2>8 DEF a
<1>7. Encoded = Coded(source, lo, hi)
  <2>1. Encoded = [c \in 1 .. C |-> Encode(source.types[c], Filled[c])]
    BY DEF Encoded, C, ColumnNum, Types
  <2>2. Coded(source, lo, hi)
          = [c \in 1 .. C |-> Encode(source.types[c], CellsOf(source, lo, hi, c))]
    BY DEF Coded, C
  <2> QED BY <1>6, <2>1, <2>2, Zenon
<1>8. Sizes = Lengths(source, lo, hi)
  <2>1. Len(Coded(source, lo, hi)) = C
    BY <1>5, CodedAre DEF C
  <2>2. Lengths(source, lo, hi) = [c \in 1 .. C |-> Len(Coded(source, lo, hi)[c])]
    BY <2>1 DEF Lengths, LengthsOf
  <2>3. Sizes = [c \in 1 .. C |-> Len(Encoded[c])]
    BY DEF Sizes, C, ColumnNum, Types
  <2> QED BY <1>7, <2>2, <2>3
<1> QED BY <1>5, <1>6, <1>7, <1>8 DEF n, C

\* The file as it is written and all else that the invariant speaks of.
LEMMA GroupsKept ==
  ASSUME NEW cut, Groups(cut),
         UNCHANGED <<source, file, batch_starts, all_metadata, all_stats>>,
         eof' \in BOOLEAN, eof => eof', all_stats \in Seq(Seq(Stat))
  PROVE  Groups(cut)'
<1>1. /\ AreGroups(source, file, batch_starts, all_metadata, all_stats, cut)
      /\ \A b \in 1 .. FullOnes(batch_starts, all_stats, eof) : IsFull(source, cut, b)
  BY DEF Groups
<1>2. Len(all_stats) \in Nat
  OBVIOUS
<1>3. \A b \in 1 .. FullOnes(batch_starts, all_stats, eof') :
        b \in 1 .. FullOnes(batch_starts, all_stats, eof)
  BY <1>2 DEF FullOnes
<1>4. \A b \in 1 .. FullOnes(batch_starts, all_stats, eof') : IsFull(source, cut, b)
  BY <1>1, <1>3
<1> QED BY <1>1, <1>4 DEF Groups

\* A step of the writer that leaves the rows as they are.
LEMMA PhaseStep ==
  ASSUME IInv, UNCHANGED <<writerVars, readerVars>>, phase' \in {"encode", "failed", "crashed"},
         phase \in {"rows", "encode"}, phase' = "encode" => capacity > RowGroupSize \/ eof
  PROVE  IInv'
<1>1. PICK cut : Basic /\ Reader /\ Groups(cut) /\ Writing(cut[Len(all_stats)])
  BY DEF IInv, IsCut
<1>2. UNCHANGED <<source, names, position, eof, str_batch, capacity, row_group, file,
                  batch_starts, all_metadata, all_stats, metadata, curr_batch, batch, exported>>
  BY DEF writerVars, readerVars
<1>3. Basic'
  BY <1>1, <1>2 DEF Basic, Phases
<1>4. Reader'
  BY <1>1, <1>2 DEF Reader, Read, BatchCount, NoMetadata
<1>5. Groups(cut)'
  BY <1>1, <1>2, GroupsKept DEF Basic
<1>6. Writing(cut[Len(all_stats)])'
  BY <1>1, <1>2 DEF Writing, Filling, Read
<1> QED BY <1>3, <1>4, <1>5, <1>6 DEF IInv, IsCut

\* ReadNothing preserves it: there is no row left.
LEMMA ReadNothingStep ==
  ASSUME IInv, ReadNothing
  PROVE  IInv'
<1>1. PICK cut : Basic /\ Reader /\ Groups(cut) /\ Writing(cut[Len(all_stats)])
  BY DEF IInv, IsCut
<1> DEFINE lo == cut[Len(all_stats)]
<1>2. /\ phase = "rows" /\ ~eof /\ NextRecord.record = <<>> /\ eof' = TRUE /\ phase' = "encode"
      /\ UNCHANGED <<source, names, position, str_batch, capacity, row_group, file,
                     batch_starts, all_metadata, all_stats, metadata, curr_batch, batch, exported>>
  BY DEF ReadNothing, readerVars
<1>3. Basic'
  BY <1>1, <1>2 DEF Basic, Phases
<1>4. Reader'
  BY <1>1, <1>2 DEF Reader, Read, BatchCount, NoMetadata
<1>5. Groups(cut)'
  BY <1>1, <1>2, GroupsKept DEF Basic
<1>6. Filling(lo) /\ IsAhead(source, lo + Len(str_batch), position, FALSE)
  <2> HIDE DEF lo
  <2>1. Filling(lo)
    BY <1>1, <1>2 DEF Writing, lo
  <2> QED BY <1>2, <2>1 DEF Filling, IsAhead
<1>7. IsSource(source)
  BY <1>1, SourceFacts DEF Basic
<1>12. lo' = lo
  BY <1>2
<1> HIDE DEF lo
<1>8. lo + Len(str_batch) = Len(source.records)
  <2>1. IsNextRow(source, lo + Len(str_batch), position, NextRecord)
    BY <1>6, <1>7, NextAhead DEF NextRecord
  <2> QED BY <1>2, <2>1 DEF IsNextRow
<1>9. IsAhead(source, lo + Len(str_batch), position, TRUE)
  BY <1>6, <1>8 DEF IsAhead
<1>10. Filling(lo)'
  <2>1. /\ InBatch(source, str_batch, lo) /\ capacity = Weight(source, lo, lo + Len(str_batch))
        /\ Weight(source, lo, lo + Len(str_batch) - 1) <= RowGroupSize
        /\ Len(batch_starts) = Len(all_stats) + 1
        /\ batch_starts[Len(all_stats) + 1] = Len(file)
    BY <1>6 DEF Filling
  <2>2. IsAhead(source, lo + Len(str_batch), position, eof')
    BY <1>2, <1>9
  <2> QED BY <1>2, <1>12, <2>1, <2>2 DEF Filling
<1>11. Writing(lo)'
  BY <1>2, <1>10 DEF Writing, Read
<1> QED BY <1>2, <1>3, <1>4, <1>5, <1>11 DEF IInv, IsCut, lo

\* SetScheme preserves it: the rows begin behind the header.
LEMMA SetSchemeStep ==
  ASSUME IInv, SetScheme
  PROVE  IInv'
<1>1. PICK cut : Basic /\ Reader /\ Groups(cut) /\ Writing(cut[Len(all_stats)])
  BY DEF IInv, IsCut
<1> DEFINE next == NextRecord
<1>2. /\ phase = "scheme"
      /\ names' = IF source.header THEN next.record ELSE source.names
      /\ position' = IF source.header THEN next.position ELSE 0
      /\ eof' = (source.header /\ next.eof)
      /\ phase' \in {"between", "failed"} /\ (phase' = "between" => Len(names') = Len(source.types))
      /\ UNCHANGED <<source, str_batch, capacity, row_group, file, batch_starts,
                     all_metadata, all_stats, metadata, curr_batch, batch, exported>>
  BY DEF SetScheme, readerVars, ColumnNum, Types
<1>3. /\ position = 0 /\ ~eof /\ all_stats = <<>> /\ batch_starts = <<>>
      /\ IsSource(source) /\ source.header \in BOOLEAN /\ source.names \in Seq(Texts)
      /\ Len(str_batch) = 0 /\ Len(source.text) \in Nat
  <2>1. position = 0 /\ ~eof /\ all_stats = <<>> /\ batch_starts = <<>>
    BY <1>1, <1>2 DEF Writing
  <2>2. source \in Sources /\ str_batch \in Seq(Rows) /\ Len(str_batch) <= position
    BY <1>1 DEF Basic
  <2>3. IsSource(source)
    BY <2>2, SourceFacts
  <2>4. source.header \in BOOLEAN /\ source.names \in Seq(Texts) /\ source.text \in Seq(Int)
    BY <2>3 DEF IsSource
  <2>5. Len(str_batch) = 0
    BY <2>1, <2>2
  <2> QED BY <2>1, <2>3, <2>4, <2>5
<1>4. /\ ~source.header => IsAhead(source, 0, 0, FALSE)
      /\ source.header => /\ next.record = source.names /\ next.eof \in BOOLEAN
                          /\ next.position \in 0 .. Len(source.text)
                          /\ IsAhead(source, 0, next.position, next.eof)
  BY <1>3, SchemeAhead DEF NextRecord
<1> HIDE DEF next
<1>5. /\ names' = source.names /\ position' \in 0 .. Len(source.text) /\ eof' \in BOOLEAN
      /\ IsAhead(source, 0, position', eof')
  <2>1. CASE source.header
    BY <1>2, <1>4, <2>1
  <2>2. CASE ~source.header
    <3>1. names' = source.names /\ position' = 0
      BY <1>2, <2>2
    <3>2. eof' = FALSE
      BY <1>2, <2>2, Zenon
    <3>3. 0 \in 0 .. Len(source.text)
      BY <1>3
    <3> QED BY <1>4, <2>2, <3>1, <3>2, <3>3
  <2> QED BY <1>3, <2>1, <2>2
<1>6. Basic'
  <2>1. Len(str_batch) <= position'
    BY <1>3, <1>5
  <2> QED BY <1>1, <1>2, <1>3, <1>5, <2>1 DEF Basic, Phases
<1>7. Reader'
  BY <1>1, <1>2 DEF Reader, Read, BatchCount, NoMetadata
<1>8. Groups(cut)'
  BY <1>1, <1>2, <1>3, <1>5, GroupsKept DEF Basic
<1>9. cut[Len(all_stats)] = 0 /\ Len(all_stats) = 0 /\ Len(batch_starts) = 0
  <2>1. Len(all_stats) = 0 /\ Len(batch_starts) = 0
    BY <1>3
  <2>2. cut[0] = 0
    BY <1>1 DEF Groups, AreGroups
  <2> QED BY <2>1, <2>2
<1>10. Writing(cut[Len(all_stats)])'
  <2>1. Writing(0)'
    BY <1>2, <1>5, <1>9 DEF Writing, Read
  <2> QED BY <1>2, <1>9, <2>1
<1> QED BY <1>6, <1>7, <1>8, <1>10 DEF IInv, IsCut

\* From EggFileAssumption.
LEMMA SizesNat == RowGroupSize \in Nat
BY EggFileAssumption

\* StartGroup preserves it: the group begins with the next row.
LEMMA StartGroupStep ==
  ASSUME IInv, StartGroup
  PROVE  IInv'
<1>1. PICK cut : Basic /\ Reader /\ Groups(cut) /\ Writing(cut[Len(all_stats)])
  BY DEF IInv, IsCut
<1> DEFINE lo == cut[Len(all_stats)]  p == Len(file)
<1>2. /\ phase = "between" /\ ~eof /\ phase' = "rows"
      /\ batch_starts' = Append(batch_starts, p) /\ str_batch' = <<>> /\ capacity' = 0
      /\ UNCHANGED <<source, names, position, eof, row_group, file, all_metadata,
                     all_stats, metadata, curr_batch, batch, exported>>
  BY DEF StartGroup, readerVars
<1>3. /\ IsSource(source) /\ p \in Nat /\ batch_starts \in Seq(Nat) /\ eof \in BOOLEAN
      /\ position \in Nat /\ all_stats \in Seq(Seq(Stat))
      /\ \A b \in 1 .. Len(batch_starts) : batch_starts[b] <= p
  <2>1. source \in Sources /\ file \in Seq(Int) /\ position \in Nat
    BY <1>1 DEF Basic
  <2>2. IsSource(source) /\ p \in Nat
    BY <2>1, SourceFacts
  <2> QED BY <1>1, <2>1, <2>2 DEF Basic
<1>4. IsAhead(source, lo, position, eof) /\ Len(batch_starts) = Len(all_stats)
  BY <1>1, <1>2 DEF Writing
<1>5. lo' = lo
  BY <1>2
<1> HIDE DEF p, lo
<1>6. lo \in Nat
  BY <1>4 DEF IsAhead
<1>7. /\ batch_starts' \in Seq(Nat) /\ Len(batch_starts') = Len(batch_starts) + 1
      /\ batch_starts'[Len(batch_starts) + 1] = p
      /\ \A b \in 1 .. Len(batch_starts') : batch_starts'[b] <= p
  BY <1>2, <1>3
<1>8. Basic'
  <2>1. str_batch' \in Seq(Rows) /\ Len(str_batch') <= position' /\ capacity' \in Nat
    <3>1. Len(str_batch') = 0 /\ str_batch' \in Seq(Rows)
      BY <1>2
    <3> QED BY <1>2, <1>3, <3>1
  <2> QED BY <1>1, <1>2, <1>7, <2>1 DEF Basic, Phases, p
<1>9. Reader'
  BY <1>1, <1>2 DEF Reader, Read, BatchCount, NoMetadata
<1>10. Groups(cut)'
  <2>1. AreGroups(source, file, batch_starts, all_metadata, all_stats, cut)
        /\ \A b \in 1 .. FullOnes(batch_starts, all_stats, eof) : IsFull(source, cut, b)
    BY <1>1 DEF Groups
  <2>2. AreGroups(source, file, batch_starts', all_metadata, all_stats, cut)
    <3>1. Len(all_stats) <= Len(batch_starts)
      BY <1>3, <1>4
    <3> QED BY <1>2, <1>3, <2>1, <3>1, StartsGrow
  <2>3. FullOnes(batch_starts, all_stats, eof) = Len(all_stats)
        /\ FullOnes(batch_starts', all_stats, eof) = Len(all_stats)
    BY <1>2 DEF FullOnes
  <2> QED BY <1>2, <2>1, <2>2, <2>3 DEF Groups
<1>11. Filling(lo)'
  <2>1. Len(str_batch') = 0 /\ lo + 0 = lo
    BY <1>2, <1>6
  <2>2. Weight(source, lo, lo) = 0 /\ Weight(source, lo, lo - 1) = 0
    BY <1>3, <1>6, WeightFacts
  <2>3. IsAhead(source', lo + Len(str_batch'), position', eof')
    BY <1>2, <1>4, <2>1
  <2>4. InBatch(source', str_batch', lo)
    BY <2>1 DEF InBatch
  <2>5. capacity' = Weight(source', lo, lo + Len(str_batch'))
        /\ Weight(source', lo, lo + Len(str_batch') - 1) <= RowGroupSize
    <3>1. lo + Len(str_batch') = lo
      BY <2>1
    <3>2. RowGroupSize \in Nat
      BY SizesNat
    <3> QED BY <1>2, <1>6, <2>1, <2>2, <3>1, <3>2
  <2>6. Len(batch_starts') = Len(all_stats') + 1 /\ batch_starts'[Len(all_stats') + 1] = Len(file')
    BY <1>2, <1>4, <1>7 DEF p
  <2> QED BY <1>5, <2>3, <2>4, <2>5, <2>6 DEF Filling
<1>12. Writing(lo)'
  BY <1>2, <1>11 DEF Writing, Read
<1> QED BY <1>8, <1>9, <1>10, <1>12 DEF IInv, IsCut, lo

\* ReadRow preserves it: the row read is the next one of the source.
LEMMA ReadRowStep ==
  ASSUME IInv, ReadRow
  PROVE  IInv'
<1>1. PICK cut : Basic /\ Reader /\ Groups(cut) /\ Writing(cut[Len(all_stats)])
  BY DEF IInv, IsCut
<1> DEFINE lo == cut[Len(all_stats)]  next == NextRecord  n == lo + Len(str_batch)
<1>2. /\ phase = "rows" /\ capacity <= RowGroupSize /\ ~eof
      /\ next.record # <<>> /\ Len(next.record) >= Len(source.types)
      /\ str_batch' = Append(str_batch, next.record)
      /\ capacity' = capacity + RowSize(next.record)
      /\ position' = next.position /\ eof' = next.eof
      /\ UNCHANGED <<source, names, phase, row_group, file, batch_starts, all_metadata,
                     all_stats, metadata, curr_batch, batch, exported>>
  BY DEF ReadRow, readerVars, ColumnNum, Types
<1>3. /\ IsSource(source) /\ eof \in BOOLEAN /\ position \in 0 .. Len(source.text)
      /\ all_stats \in Seq(Seq(Stat)) /\ str_batch \in Seq(Rows) /\ Len(str_batch) \in Nat
      /\ Len(str_batch) <= position /\ capacity \in Nat
  <2>1. source \in Sources
    BY <1>1 DEF Basic
  <2>2. IsSource(source)
    BY <2>1, SourceFacts
  <2> QED BY <1>1, <2>2 DEF Basic
<1>4. Filling(lo)
  BY <1>1, <1>2 DEF Writing
<1>5. lo' = lo
  BY <1>2
<1>6. lo \in Nat
  <2>1. Len(all_stats) \in 0 .. Len(all_stats)
    BY <1>3
  <2> QED BY <1>1, <1>3, <2>1, CutsAre DEF Groups
<1> HIDE DEF lo
<1>7. /\ IsAhead(source, n, position, eof) /\ InBatch(source, str_batch, lo)
      /\ capacity = Weight(source, lo, n) /\ Len(batch_starts) = Len(all_stats) + 1
      /\ batch_starts[Len(all_stats) + 1] = Len(file) /\ n \in Nat /\ lo <= n
  BY <1>3, <1>4, <1>6 DEF Filling
<1>8. IsNextRow(source, n, position, next)
  <2>1. IsAhead(source, n, position, FALSE)
    BY <1>2, <1>7 DEF IsAhead
  <2> HIDE DEF n
  <2> QED BY <1>3, <2>1, NextAhead DEF NextRecord
<1> DEFINE r == source.records[n + 1]
<1>9. /\ n + 1 <= Len(source.records) /\ next.record = r
      /\ next.eof \in BOOLEAN /\ next.position \in position + 1 .. Len(source.text)
      /\ IsAhead(source, n + 1, next.position, next.eof)
  BY <1>2, <1>8 DEF IsNextRow
<1>10. Taken(source, n + 1) /\ r \in Rows
  <2>1. n + 1 \in 1 .. Len(source.records) /\ source.records \in Seq(Rows)
        /\ Len(source.types) \in Nat
    <3>1. source.records \in Seq(Rows) /\ Len(source.types) \in Nat
      BY <1>3 DEF IsSource
    <3> HIDE DEF n
    <3> QED BY <1>7, <1>9, <3>1
  <2>2. r \in Rows
    BY <2>1
  <2>3. Len(source.types) <= Len(r)
    BY <1>2, <1>9, <2>1, <2>2 DEF Rows
  <2> HIDE DEF n
  <2> QED BY <2>1, <2>2, <2>3 DEF Taken, n
<1> HIDE DEF next, r
<1>11. /\ str_batch' \in Seq(Rows) /\ Len(str_batch') = Len(str_batch) + 1
       /\ str_batch'[Len(str_batch) + 1] = r
       /\ \A k \in 1 .. Len(str_batch) : str_batch'[k] = str_batch[k]
  BY <1>2, <1>3, <1>9, <1>10
<1>12. lo + Len(str_batch') = n + 1 /\ (n + 1) - 1 = n
  BY <1>3, <1>6, <1>11
<1>13. \A k \in 1 .. Len(str_batch) :
         Taken(source, lo + k) /\ str_batch[k] = source.records[lo + k]
  BY <1>7 DEF InBatch
<1>14. /\ Weight(source, lo, n) \in Nat
       /\ Weight(source, lo, n + 1) = Weight(source, lo, n) + RowSize(next.record)
       /\ RowSize(next.record) \in Nat
  <2>1. \A k \in lo + 1 .. n : Taken(source, k)
    <3>1. ASSUME NEW k \in lo + 1 .. n PROVE Taken(source, k)
      <4> DEFINE j == k - lo
      <4>1. j \in 1 .. Len(str_batch) /\ lo + j = k
        BY <1>3, <1>6
      <4> HIDE DEF j
      <4> QED BY <1>13, <4>1
    <3> QED BY <3>1
  <2>2. RowSize(next.record) = SizeOfRow(source.types, source.records[n + 1])
    BY <1>9, RowSizeIs DEF Types, r
  <2>3. SizeOfRow(source.types, source.records[n + 1]) \in Nat
    BY <1>3, <1>10, RowNat
  <2> HIDE DEF n
  <2>4. /\ Weight(source, lo, n) \in Nat
        /\ Weight(source, lo, n + 1)
             = Weight(source, lo, n) + SizeOfRow(source.types, source.records[n + 1])
    BY <1>3, <1>6, <1>7, <1>10, <2>1, WeightFacts
  <2> QED BY <2>2, <2>3, <2>4
<1>15. Basic'
  <2>1. position' \in 0 .. Len(source.text) /\ eof' \in BOOLEAN
    BY <1>2, <1>3, <1>9
  <2>2. Len(str_batch') <= position'
    BY <1>2, <1>3, <1>9, <1>11
  <2>3. capacity' \in Nat
    BY <1>2, <1>3, <1>14
  <2> QED BY <1>1, <1>2, <1>11, <2>1, <2>2, <2>3 DEF Basic, Phases
<1>16. Reader'
  BY <1>1, <1>2 DEF Reader, Read, BatchCount, NoMetadata
<1>17. Groups(cut)'
  <2>1. eof' \in BOOLEAN
    BY <1>2, <1>9
  <2> QED BY <1>1, <1>2, <1>3, <2>1, GroupsKept
<1> HIDE DEF n
<1>18. Filling(lo)'
  <2>1. IsAhead(source', lo + Len(str_batch'), position', eof')
    BY <1>2, <1>9, <1>12
  <2>2. InBatch(source', str_batch', lo)
    <3>1. ASSUME NEW k \in 1 .. Len(str_batch')
          PROVE  Taken(source, lo + k) /\ str_batch'[k] = source.records[lo + k]
      <4>1. CASE k = Len(str_batch) + 1
        <5>1. lo + k = n + 1
          BY <1>11, <1>12, <4>1
        <5> QED BY <1>10, <1>11, <4>1, <5>1 DEF r
      <4>2. CASE k # Len(str_batch) + 1
        <5>1. k \in 1 .. Len(str_batch)
          BY <1>3, <1>11, <4>2
        <5> QED BY <1>11, <1>13, <5>1
      <4> QED BY <4>1, <4>2
    <3> QED BY <1>2, <3>1 DEF InBatch
  <2>3. capacity' = Weight(source', lo, lo + Len(str_batch'))
        /\ Weight(source', lo, lo + Len(str_batch') - 1) <= RowGroupSize
    <3>1. capacity' = Weight(source, lo, n + 1)
      BY <1>2, <1>7, <1>14
    <3>2. Weight(source, lo, n) <= RowGroupSize
      BY <1>2, <1>7
    <3> DEFINE m == Len(str_batch')
    <3>3. m \in Nat /\ n \in Nat /\ lo \in Nat /\ lo + m = n + 1
      <4>1. m \in Nat
        BY <1>11
      <4> QED BY <1>6, <1>7, <1>12, <4>1
    <3> HIDE DEF m
    <3>4. lo + m - 1 = n
      BY <3>3
    <3> QED BY <1>2, <3>1, <3>2, <3>3, <3>4 DEF m
  <2>4. Len(batch_starts') = Len(all_stats') + 1 /\ batch_starts'[Len(all_stats') + 1] = Len(file')
    BY <1>2, <1>7
  <2> QED BY <1>5, <2>1, <2>2, <2>3, <2>4 DEF Filling
<1>19. Writing(lo)'
  BY <1>2, <1>18 DEF Writing, Read
<1> QED BY <1>15, <1>16, <1>17, <1>19 DEF IInv, IsCut, lo

\* Concatenation is associative.
LEMMA Associative ==
  ASSUME NEW s \in Seq(Int), NEW t \in Seq(Int), NEW u \in Seq(Int)
  PROVE  (s \o t) \o u = s \o (t \o u)
<1> DEFINE st == s \o t  tu == t \o u  a == st \o u  b == s \o tu
           k == Len(s)  m == Len(t)  n == Len(u)
<1>1. k \in Nat /\ m \in Nat /\ n \in Nat
  OBVIOUS
<1>2. /\ st \in Seq(Int) /\ Len(st) = k + m
      /\ \A i \in 1 .. k + m : st[i] = IF i <= k THEN s[i] ELSE t[i - k]
  BY ConcatProperties
<1>3. /\ tu \in Seq(Int) /\ Len(tu) = m + n
      /\ \A i \in 1 .. m + n : tu[i] = IF i <= m THEN t[i] ELSE u[i - m]
  BY ConcatProperties
<1> HIDE DEF st, tu
<1>4. /\ a \in Seq(Int) /\ Len(a) = (k + m) + n
      /\ \A i \in 1 .. (k + m) + n : a[i] = IF i <= k + m THEN st[i] ELSE u[i - (k + m)]
  <2>1. /\ a \in Seq(Int) /\ Len(a) = Len(st) + Len(u)
        /\ \A i \in 1 .. Len(st) + Len(u) :
             a[i] = IF i <= Len(st) THEN st[i] ELSE u[i - Len(st)]
    <3>1. st \in Seq(Int)
      BY <1>2
    <3> QED BY <3>1, ConcatProperties
  <2>2. Len(st) = k + m /\ Len(u) = n
    BY <1>2
  <2> HIDE DEF a, k, m, n
  <2> QED BY <2>1, <2>2
<1>5. /\ b \in Seq(Int) /\ Len(b) = k + (m + n)
      /\ \A i \in 1 .. k + (m + n) : b[i] = IF i <= k THEN s[i] ELSE tu[i - k]
  <2>1. /\ b \in Seq(Int) /\ Len(b) = Len(s) + Len(tu)
        /\ \A i \in 1 .. Len(s) + Len(tu) :
             b[i] = IF i <= Len(s) THEN s[i] ELSE tu[i - Len(s)]
    <3>1. tu \in Seq(Int)
      BY <1>3
    <3> QED BY <3>1, ConcatProperties
  <2>2. Len(tu) = m + n /\ Len(s) = k
    BY <1>3
  <2> HIDE DEF b, k, m, n
  <2> QED BY <2>1, <2>2
<1> HIDE DEF a, b, k, m, n
<1>6. ASSUME NEW i \in 1 .. (k + m) + n PROVE a[i] = b[i]
  <2>1. i \in 1 .. k + (m + n) /\ i \in Nat
    BY <1>1
  <2>2. CASE i <= k
    <3>1. i \in 1 .. k + m /\ i <= k + m
      BY <1>1, <2>1, <2>2
    <3> QED BY <1>2, <1>4, <1>5, <2>1, <2>2, <3>1
  <2>3. CASE ~(i <= k) /\ i <= k + m
    <3>1. i \in 1 .. k + m /\ i - k \in 1 .. m + n /\ i - k <= m
      BY <1>1, <2>1, <2>3
    <3> QED BY <1>2, <1>3, <1>4, <1>5, <2>1, <2>3, <3>1
  <2>4. CASE ~(i <= k + m)
    <3>1. ~(i <= k) /\ i - k \in 1 .. m + n /\ ~(i - k <= m) /\ (i - k) - m = i - (k + m)
      BY <1>1, <2>1, <2>4
    <3> QED BY <1>3, <1>4, <1>5, <2>1, <2>4, <3>1
  <2> QED BY <2>2, <2>3, <2>4
<1>7. Len(a) = Len(b)
  BY <1>1, <1>4, <1>5
<1>8. Matches(a, b)
  BY <1>4, <1>6, <1>7 DEF Matches
<1>9. a = b
  BY <1>4, <1>5, <1>8, MatchEqual
<1> QED BY <1>9 DEF a, b, st, tu

\* The three parts that a group adds to the sizes are its section.
LEMMA SectionAppended ==
  ASSUME NEW s, NEW lo, NEW hi, AreRows(s, lo, hi), NEW m \in Seq(Int)
  PROVE  m \o <<SizeUpTo(Lengths(s, lo, hi), Len(s.types))>> \o Lengths(s, lo, hi) \o <<hi - lo>>
           = m \o Section(s, lo, hi)
<1> DEFINE all == SizeUpTo(Lengths(s, lo, hi), Len(s.types))  b == Lengths(s, lo, hi)
           k == hi - lo  a == <<all>>  c == <<k>>
<1>1. all \in Int /\ b \in Seq(Nat)
  BY SectionIs
<1>2. k \in Int
  BY DEF AreRows
<1>3. Section(s, lo, hi) = a \o b \o c
  BY DEF Section
<1> HIDE DEF all, b, k
<1>4. a \in Seq(Int) /\ b \in Seq(Int) /\ c \in Seq(Int)
  BY <1>1, <1>2
<1> HIDE DEF a, c
<1>5. a \o b \in Seq(Int)
  BY <1>4
<1>6. (m \o a) \o b = m \o (a \o b)
  BY <1>4, Associative, Zenon
<1>7. (m \o (a \o b)) \o c = m \o ((a \o b) \o c)
  BY <1>4, <1>5, Associative, Zenon
<1> QED BY <1>3, <1>6, <1>7 DEF a, c, all, b, k

\* The end of WriteGroup: the row group is in the file, in the metadata and in
\* the statistics.
LEMMA GroupAdded ==
  ASSUME Basic, Reader, NEW cut, Groups(cut), Writing(cut[Len(all_stats)]), phase = "encode",
         \A c \in 1 .. ColumnNum : \A r \in DOMAIN str_batch :
           ~Throws(Types[c], str_batch[r][c]),
         NEW row \in Seq(Stat),
         IsStats(source, row, cut[Len(all_stats)], cut[Len(all_stats)] + Len(str_batch)),
         all_stats' = Append(all_stats, row),
         file' = file \o FlattenSeq(Encoded),
         all_metadata' = all_metadata \o <<SizeUpTo(Sizes, ColumnNum)>> \o Sizes
                           \o <<Len(str_batch)>>,
         row_group' = NoColumns, phase' = "between",
         UNCHANGED <<source, names, position, eof, str_batch, capacity, batch_starts, readerVars>>
  PROVE  IInv'
<1>a. PICK n : n = Len(all_stats)
  OBVIOUS
<1>b. PICK lo : lo = cut[n]
  OBVIOUS
<1>c. PICK hi : hi = lo + Len(str_batch)
  OBVIOUS
<1>d. PICK longer : longer = Extended(cut, n + 1, hi)
  OBVIOUS
<1> DEFINE x == FlattenSeq(Coded(source, lo, hi))  y == Section(source, lo, hi)
<1>1. /\ source \in Sources /\ eof \in BOOLEAN
      /\ all_stats \in Seq(Seq(Stat)) /\ str_batch \in Seq(Rows) /\ file \in Seq(Int)
      /\ all_metadata \in Seq(Int) /\ Len(all_metadata) = (Len(source.types) + 2) * n
      /\ batch_starts \in Seq(Nat) /\ Len(str_batch) \in Nat
      /\ \A b \in 1 .. Len(batch_starts) : batch_starts[b] <= Len(file)
  BY <1>a DEF Basic
<1>2. IsSource(source) /\ n \in Nat
  BY <1>1, <1>a, SourceFacts
<1>3. Filling(lo) /\ (capacity > RowGroupSize \/ eof)
  BY <1>a, <1>b DEF Writing
<1>4. lo \in Nat
  <2>1. n \in 0 .. n
    BY <1>2
  <2> QED BY <1>1, <1>2, <1>a, <1>b, <2>1, CutsAre DEF Groups
<1>5. /\ AreRows(source, lo, hi) /\ Encoded = Coded(source, lo, hi)
      /\ Sizes = Lengths(source, lo, hi)
  BY <1>3, <1>4, <1>c, FilledIs
<1>6. /\ IsAhead(source, hi, position, eof) /\ capacity = Weight(source, lo, hi)
      /\ Weight(source, lo, hi - 1) <= RowGroupSize
      /\ Len(batch_starts) = n + 1 /\ batch_starts[n + 1] = Len(file)
  <2>1. /\ IsAhead(source, lo + Len(str_batch), position, eof)
        /\ capacity = Weight(source, lo, lo + Len(str_batch))
        /\ Weight(source, lo, lo + Len(str_batch) - 1) <= RowGroupSize
        /\ Len(batch_starts) = Len(all_stats) + 1
        /\ batch_starts[Len(all_stats) + 1] = Len(file)
    BY <1>3 DEF Filling
  <2>2. IsAhead(source, hi, position, eof) /\ capacity = Weight(source, lo, hi)
    BY <1>c, <2>1
  <2>3. Weight(source, lo, hi - 1) <= RowGroupSize
    BY <1>1, <1>4, <1>c, <2>1
  <2>4. Len(batch_starts) = n + 1 /\ batch_starts[n + 1] = Len(file)
    BY <1>a, <2>1
  <2> QED BY <2>2, <2>3, <2>4
<1>7. hi - lo = Len(str_batch)
  BY <1>1, <1>4, <1>c
<1>8. file' = file \o x
  BY <1>5
<1>9. all_metadata' = all_metadata \o y
  <2>1. all_metadata \o <<SizeUpTo(Lengths(source, lo, hi), Len(source.types))>>
          \o Lengths(source, lo, hi) \o <<hi - lo>> = all_metadata \o y
    BY <1>1, <1>5, SectionAppended
  <2> QED BY <1>5, <1>7, <2>1 DEF ColumnNum, Types
<1>10. AreGroups(source, file, batch_starts, all_metadata, all_stats, cut)
       /\ \A b \in 1 .. FullOnes(batch_starts, all_stats, eof) : IsFull(source, cut, b)
  BY DEF Groups
<1>11. IsStats(source, row, lo, hi)
  BY <1>a, <1>b, <1>c
<1>12. /\ AreGroups(source, file \o x, batch_starts, all_metadata \o y, Append(all_stats, row),
                    longer)
       /\ Len(all_metadata \o y) = (Len(source.types) + 2) * (n + 1)
       /\ all_metadata \o y \in Seq(Int) /\ file \o x \in Seq(Int)
  <2>1. CanAdd(source, file, batch_starts, all_metadata, all_stats, cut, n, hi, row)
    BY <1>1, <1>5, <1>6, <1>10, <1>11, <1>a, <1>b DEF CanAdd
  <2>2. /\ AreGroups(source, file \o FlattenSeq(Coded(source, cut[n], hi)), batch_starts,
                      all_metadata \o Section(source, cut[n], hi), Append(all_stats, row),
                      Extended(cut, n + 1, hi))
        /\ Len(all_metadata \o Section(source, cut[n], hi)) = (Len(source.types) + 2) * (n + 1)
        /\ all_metadata \o Section(source, cut[n], hi) \in Seq(Int)
        /\ file \o FlattenSeq(Coded(source, cut[n], hi)) \in Seq(Int)
    BY <2>1, AddGroup
  <2> QED BY <1>b, <1>d, <2>2
<1> HIDE DEF x, y
<1>13. all_stats' \in Seq(Seq(Stat)) /\ Len(all_stats') = n + 1
  BY <1>1, <1>a
<1>14. Basic'
  <2>1. \A b \in 1 .. Len(batch_starts) : batch_starts[b] <= Len(file')
    <3>1. x \in Seq(Int)
      BY <1>5, CodedFlat DEF x
    <3>2. Len(file') = Len(file) + Len(x) /\ Len(x) \in Nat /\ Len(file) \in Nat
      BY <1>1, <1>8, <3>1
    <3>3. \A b \in 1 .. Len(batch_starts) : batch_starts[b] \in Nat
      BY <1>1
    <3> QED BY <1>1, <3>2, <3>3
  <2>2. row_group' = [c \in 1 .. Len(source.types) |-> <<>>]
    BY DEF NoColumns, ColumnNum, Types
  <2>3. file' \in Seq(Int) /\ all_metadata' \in Seq(Int)
        /\ Len(all_metadata') = (Len(source'.types) + 2) * Len(all_stats')
    BY <1>8, <1>9, <1>12, <1>13
  <2>4. Basic
    OBVIOUS
  <2> QED BY <1>13, <2>1, <2>2, <2>3, <2>4 DEF Basic, Phases
<1>15. Reader'
  BY DEF Reader, Read, BatchCount, NoMetadata, readerVars
<1>16. Groups(longer)'
  <2>1. AreGroups(source', file', batch_starts', all_metadata', all_stats', longer)
    BY <1>8, <1>9, <1>12
  <2>2. \A b \in 1 .. n : IsFull(source, longer, b)
    <3>1. FullOnes(batch_starts, all_stats, eof) = n
      BY <1>2, <1>6, <1>a DEF FullOnes
    <3>2. ASSUME NEW b \in 1 .. n PROVE longer[b] = cut[b] /\ longer[b - 1] = cut[b - 1]
      BY <1>2, <1>d DEF Extended
    <3> QED BY <1>10, <3>1, <3>2 DEF IsFull
  <2>3. ~eof => IsFull(source, longer, n + 1)
    <3>1. longer[n + 1] = hi /\ longer[(n + 1) - 1] = lo
      BY <1>2, <1>b, <1>d DEF Extended
    <3>2. ~eof => Weight(source, lo, hi) > RowGroupSize
      BY <1>3, <1>6
    <3> QED BY <3>1, <3>2 DEF IsFull
  <2>4. FullOnes(batch_starts', all_stats', eof') = IF eof THEN n ELSE n + 1
    <3>1. FullOnes(batch_starts', all_stats', eof') = IF eof THEN (n + 1) - 1 ELSE n + 1
      BY <1>6, <1>13 DEF FullOnes
    <3> QED BY <1>2, <3>1
  <2>5. ASSUME NEW b \in 1 .. FullOnes(batch_starts', all_stats', eof')
        PROVE  IsFull(source, longer, b)
    <3>1. CASE eof
      BY <2>2, <2>4, <3>1
    <3>2. CASE ~eof
      <4>1. b \in 1 .. n + 1
        BY <2>4, <3>2
      <4>2. b \in 1 .. n \/ b = n + 1
        <5>1. n \in Nat
          BY <1>2
        <5> QED BY <4>1, <5>1
      <4> QED BY <2>2, <2>3, <3>2, <4>2
    <3> QED BY <3>1, <3>2
  <2> QED BY <2>1, <2>5 DEF Groups
<1>17. Writing(longer[Len(all_stats)])'
  <2>1. longer[n + 1] = hi
    BY <1>2, <1>d DEF Extended
  <2>2. Writing(hi)'
    BY <1>6, <1>13 DEF Writing, Read
  <2> QED BY <1>13, <2>1, <2>2
<1> QED BY <1>14, <1>15, <1>16, <1>17 DEF IInv, IsCut

\* WriteGroup preserves the invariant: the statistics are those of the rows.
LEMMA WriteGroupStep ==
  ASSUME IInv, WriteGroup
  PROVE  IInv'
<1>1. PICK cut : Basic /\ Reader /\ Groups(cut) /\ Writing(cut[Len(all_stats)])
  BY DEF IInv, IsCut
<1>a. PICK lo : lo = cut[Len(all_stats)]
  OBVIOUS
<1>b. PICK hi : hi = lo + Len(str_batch)
  OBVIOUS
<1>c. PICK row : row = [c \in 1 .. ColumnNum |-> ComputeColumnBlockStats(Types[c], Filled[c])]
  OBVIOUS
<1>2. /\ phase = "encode" /\ str_batch # <<>>
      /\ \A c \in 1 .. ColumnNum : \A r \in DOMAIN str_batch :
           ~Throws(Types[c], str_batch[r][c])
      /\ all_stats' = Append(all_stats, row)
      /\ file' = file \o FlattenSeq(Encoded)
      /\ all_metadata' = all_metadata \o <<SizeUpTo(Sizes, ColumnNum)>> \o Sizes
                           \o <<Len(str_batch)>>
      /\ row_group' = NoColumns /\ phase' = "between"
      /\ UNCHANGED <<source, names, position, eof, str_batch, capacity, batch_starts, readerVars>>
  BY <1>c DEF WriteGroup, CanEncode
<1>3. /\ source \in Sources /\ all_stats \in Seq(Seq(Stat)) /\ str_batch \in Seq(Rows)
      /\ Len(str_batch) \in Nat
  BY <1>1 DEF Basic
<1>4. IsSource(source)
  BY <1>3, SourceFacts
<1>5. Filling(lo)
  BY <1>1, <1>2, <1>a DEF Writing
<1>6. lo \in Nat
  <2>1. Len(all_stats) \in 0 .. Len(all_stats)
    BY <1>3
  <2> QED BY <1>1, <1>3, <1>4, <1>a, <2>1, CutsAre DEF Groups
<1>7. /\ AreRows(source, lo, hi)
      /\ \A c \in 1 .. Len(source.types) : Filled[c] = CellsOf(source, lo, hi, c)
  BY <1>1, <1>2, <1>5, <1>6, <1>b, FilledIs
<1>8. hi - lo \in Nat /\ lo < hi /\ hi - lo # 0
  <2>1. Len(str_batch) # 0
    BY <1>2, <1>3
  <2> QED BY <1>3, <1>6, <1>b, <2>1
<1> DEFINE C == Len(source.types)  cells(c) == CellsOf(source, lo, hi, c)
<1>9. C \in Nat
  BY <1>4 DEF IsSource
<1>10. row = [c \in 1 .. C |-> ComputeColumnBlockStats(source.types[c], cells(c))]
  <2>1. row = [c \in 1 .. C |-> ComputeColumnBlockStats(source.types[c], Filled[c])]
    BY <1>c DEF ColumnNum, Types
  <2> QED BY <1>7, <2>1
<1>11. ASSUME NEW c \in 1 .. C
       PROVE  /\ row[c] = ComputeColumnBlockStats(source.types[c], cells(c))
              /\ Bound(row[c], source.types[c], cells(c))
  <2>1. /\ source.types[c] \in Type /\ IsColumn(source.types[c], cells(c))
        /\ Len(cells(c)) = hi - lo
    BY <1>7, CellsAre
  <2>2. cells(c) # <<>>
    <3> HIDE DEF cells
    <3> QED BY <1>8, <2>1
  <2>3. Bound(ComputeColumnBlockStats(source.types[c], cells(c)), source.types[c], cells(c))
    BY <2>1, <2>2, StatsAre
  <2> HIDE DEF cells
  <2> QED BY <1>10, <2>3
<1> HIDE DEF C
<1>12. ASSUME NEW c \in 1 .. C
       PROVE  /\ row[c] = [min |-> row[c].min, max |-> row[c].max]
              /\ IsStat(source.types[c], row[c].min) /\ IsStat(source.types[c], row[c].max)
              /\ row[c] \in Stat
  <2>1. /\ row[c] = [min |-> row[c].min, max |-> row[c].max]
        /\ IsStat(source.types[c], row[c].min) /\ IsStat(source.types[c], row[c].max)
    BY <1>11 DEF Bound
  <2>2. row[c].min \in Texts \cup Int /\ row[c].max \in Texts \cup Int
    BY <2>1 DEF IsStat
  <2> QED BY <2>1, <2>2 DEF Stat
<1>13. row \in Seq(Stat)
  <2>1. row \in [1 .. C -> Stat]
    BY <1>10, <1>12
  <2> QED BY <1>9, <2>1, SeqOfFunction
<1>14. IsStats(source, row, lo, hi)
  <2>1. row = [c \in 1 .. C |-> [min |-> row[c].min, max |-> row[c].max]]
    <3>1. row = [c \in 1 .. C |-> row[c]]
      BY <1>10
    <3> QED BY <1>12, <3>1
  <2> QED BY <1>11, <1>12, <2>1 DEF IsStats, C
<1>15. IsStats(source, row, cut[Len(all_stats)], cut[Len(all_stats)] + Len(str_batch))
  BY <1>14, <1>a, <1>b
<1> QED BY <1>1, <1>2, <1>13, <1>15, GroupAdded

\* The last group has rows, and the statistics left are those of the first.
LEMMA LastGroup ==
  ASSUME Basic, NEW cut, Groups(cut), all_stats # <<>>, Len(batch_starts) = Len(all_stats) + 1,
         cut[Len(all_stats)] = Len(source.records)
  PROVE  Parsed(source, Len(source.records) - Last(all_metadata) + 1)
<1>a. PICK n : n = Len(all_stats)
  OBVIOUS
<1>b. PICK lo : lo = cut[n - 1]
  OBVIOUS
<1>c. PICK hi : hi = cut[n]
  OBVIOUS
<1>d. PICK w : w = Len(source.types) + 2
  OBVIOUS
<1>1. /\ source \in Sources /\ all_stats \in Seq(Seq(Stat)) /\ all_metadata \in Seq(Int)
      /\ Len(all_metadata) = w * n /\ n \in Nat /\ n # 0
  BY <1>a, <1>d DEF Basic
<1>2. IsSource(source)
  BY <1>1, SourceFacts
<1>3. n \in 1 .. n
  BY <1>1
<1>4. AreRows(source, lo, hi) /\ At(all_metadata, (n - 1) * w, Section(source, lo, hi))
  <2>1. IsGroup(source, file, batch_starts[n], all_metadata, (n - 1) * w, all_stats[n], lo, hi)
    BY <1>3, <1>a, <1>b, <1>c, <1>d DEF Groups, AreGroups
  <2> QED BY <2>1 DEF IsGroup
<1>5. lo \in Nat /\ hi \in Nat /\ lo <= hi /\ hi = Len(source.records)
  BY <1>4, <1>a, <1>c DEF AreRows
<1>6. Weight(source, lo, hi) > RowGroupSize
  <2>1. FullOnes(batch_starts, all_stats, eof) = n
    BY <1>1, <1>a DEF FullOnes
  <2>2. IsFull(source, cut, n)
    BY <1>3, <2>1 DEF Groups
  <2> QED BY <1>b, <1>c, <2>2 DEF IsFull
<1>7. lo < hi
  <2>1. Weight(source, lo, lo) = 0
    BY <1>2, <1>5, WeightFacts
  <2>2. RowGroupSize \in Nat
    BY SizesNat
  <2>3. lo # hi
    BY <1>6, <2>1, <2>2
  <2> QED BY <1>5, <2>3
<1>8. Len(source.types) \in Nat /\ w \in Nat
  <2>1. Len(source.types) \in Nat
    BY <1>2 DEF IsSource
  <2> QED BY <1>d, <2>1
<1> DEFINE sec == Section(source, lo, hi)
<1>9. Len(sec) = w /\ sec[w] = hi - lo
  BY <1>4, <1>d, SectionIs
<1> HIDE DEF sec
<1>10. (n - 1) * w + w = w * n /\ w \in 1 .. w
  <2>1. w # 0
    BY <1>8, <1>d
  <2> QED BY <1>1, <1>8, <2>1
<1>11. all_metadata[(n - 1) * w + w] = hi - lo
  BY <1>4, <1>9, <1>10 DEF At, sec
<1>12. Last(all_metadata) = hi - lo
  BY <1>1, <1>10, <1>11 DEF Last
<1>13. Len(source.records) - Last(all_metadata) + 1 = lo + 1
  BY <1>5, <1>12
<1>14. lo + 1 \in lo + 1 .. hi
  BY <1>5, <1>7
<1> QED BY <1>4, <1>13, <1>14 DEF AreRows

\* A value of a column can be a statistic of it.
LEMMA ValueIsStat ==
  ASSUME NEW type \in Type, NEW v \in Value(type)
  PROVE  IsStat(type, v)
<1>1. CASE type \in IntType \cup DateType
  <2>1. Low[type] \in Int /\ High[type] \in Int
    BY <1>1, TypeFacts
  <2>2. v \in Low[type] .. High[type] /\ type # "String"
    BY <1>1 DEF Value, IntType, DateType
  <2> QED BY <2>1, <2>2 DEF IsStat
<1>2. CASE type = "String"
  <2>1. v \in Seq(Int)
    BY <1>2 DEF Value, IntType, DateType
  <2> QED BY <1>2, <2>1 DEF IsStat, Texts
<1>3. CASE type = "Double"
  <2>1. v \in Int
    BY <1>3 DEF Value, IntType, DateType
  <2> QED BY <1>3, <2>1 DEF IsStat
<1> QED BY <1>1, <1>2, <1>3 DEF Type

\* EmptyGroup preserves the invariant: a group without rows is added, with
\* statistics that bound nothing.
LEMMA EmptyGroupStep ==
  ASSUME IInv, EmptyGroup
  PROVE  IInv'
<1>1. PICK cut : Basic /\ Reader /\ Groups(cut) /\ Writing(cut[Len(all_stats)])
  BY DEF IInv, IsCut
<1>2. phase = "encode" /\ str_batch = <<>>
  BY DEF EmptyGroup
<1>3. CASE phase' = "crashed" /\ UNCHANGED <<writerVars, readerVars>>
  BY <1>2, <1>3, PhaseStep
<1> DEFINE first == source.records[Len(source.records) - Last(all_metadata) + 1]
           RowOf(cleared) ==
             [c \in 1 .. ColumnNum |->
                LET v == IF cleared /\ Types[c] = "String"
                           THEN <<>> ELSE Parse(Types[c], first[c])
                IN [min |-> v, max |-> v]]
<1>4. ASSUME all_stats # <<>>, NEW cleared \in BOOLEAN,
             all_stats' = Append(all_stats, RowOf(cleared)),
             file' = file \o FlattenSeq(Encoded),
             all_metadata' = all_metadata \o <<SizeUpTo(Sizes, ColumnNum)>> \o Sizes \o << 0 >>,
             phase' = "between",
             UNCHANGED <<source, names, position, eof, str_batch, capacity, row_group,
                         batch_starts, readerVars>>
      PROVE  IInv'
  <2>a. PICK lo : lo = cut[Len(all_stats)]
    OBVIOUS
  <2>b. PICK row : row = RowOf(cleared)
    OBVIOUS
  <2>c. PICK r : r = Len(source.records) - Last(all_metadata) + 1
    OBVIOUS
  <2>1. /\ source \in Sources /\ all_stats \in Seq(Seq(Stat))
        /\ row_group = [c \in 1 .. Len(source.types) |-> <<>>] /\ Len(str_batch) = 0
    BY <1>1, <1>2 DEF Basic
  <2>2. IsSource(source) /\ DatesFit(source)
    BY <2>1, SourceFacts
  <2>3. Filling(lo) /\ (capacity > RowGroupSize \/ eof)
    BY <1>1, <1>2, <2>a DEF Writing
  <2>4. lo \in Nat
    <3>1. Len(all_stats) \in 0 .. Len(all_stats)
      BY <2>1
    <3> QED BY <1>1, <2>1, <2>2, <2>a, <3>1, CutsAre DEF Groups
  <2>5. lo + Len(str_batch) = lo
    BY <2>1, <2>4
  <2>6. eof /\ lo = Len(source.records) /\ Len(batch_starts) = Len(all_stats) + 1
    <3>1. capacity = Weight(source, lo, lo) /\ Len(batch_starts) = Len(all_stats) + 1
          /\ IsAhead(source, lo, position, eof)
      BY <2>3, <2>5 DEF Filling
    <3>2. Weight(source, lo, lo) = 0
      BY <2>2, <2>4, WeightFacts
    <3>3. ~(capacity > RowGroupSize)
      BY <3>1, <3>2, SizesNat
    <3> QED BY <2>3, <3>1, <3>3 DEF IsAhead
  <2>7. Parsed(source, r)
    BY <1>1, <1>4, <2>6, <2>a, <2>c, LastGroup
  <2> DEFINE C == Len(source.types)
             v(c) == IF cleared /\ source.types[c] = "String" THEN <<>> ELSE Cell(source, c, r)
  <2>8. row = [c \in 1 .. C |-> [min |-> v(c), max |-> v(c)]]
    BY <2>b, <2>c DEF ColumnNum, Types, Cell
  <2>9. ASSUME NEW c \in 1 .. C
        PROVE  IsStat(source.types[c], v(c))
    <3>1. source.types[c] \in Type /\ Cell(source, c, r) \in Value(source.types[c])
      BY <2>2, <2>7, CellValue
    <3>2. IsStat(source.types[c], Cell(source, c, r))
      BY <3>1, ValueIsStat
    <3>3. source.types[c] = "String" => IsStat(source.types[c], <<>>)
      <4>1. <<>> \in Texts
        BY DEF Texts
      <4> QED BY <4>1 DEF IsStat
    <3> QED BY <3>2, <3>3
  <2>10. C \in Nat
    BY <2>2 DEF IsSource
  <2> HIDE DEF v
  <2>11. ASSUME NEW c \in 1 .. C
         PROVE  /\ row[c] = [min |-> v(c), max |-> v(c)]
                /\ row[c] = [min |-> row[c].min, max |-> row[c].max]
                /\ IsStat(source.types[c], row[c].min) /\ IsStat(source.types[c], row[c].max)
                /\ row[c] \in Stat
    <3>1. row[c] = [min |-> v(c), max |-> v(c)]
      BY <2>8
    <3>2. IsStat(source.types[c], v(c))
      BY <2>9
    <3>3. v(c) \in Texts \cup Int
      BY <3>2 DEF IsStat
    <3> QED BY <3>1, <3>2, <3>3 DEF Stat
  <2> HIDE DEF C
  <2>12. row \in Seq(Stat)
    <3>1. row \in [1 .. C -> Stat]
      BY <2>8, <2>11
    <3> QED BY <2>10, <3>1, SeqOfFunction
  <2>13. IsStats(source, row, lo, lo)
    <3>1. row = [c \in 1 .. C |-> [min |-> row[c].min, max |-> row[c].max]]
      <4>1. row = [c \in 1 .. C |-> row[c]]
        BY <2>8
      <4> QED BY <2>11, <4>1
    <3>2. ~(lo < lo)
      BY <2>4
    <3> QED BY <2>11, <3>1, <3>2 DEF IsStats, C
  <2>14. IsStats(source, row, cut[Len(all_stats)], cut[Len(all_stats)] + Len(str_batch))
    BY <2>5, <2>13, <2>a
  <2>15. \A c \in 1 .. ColumnNum : \A k \in DOMAIN str_batch :
           ~Throws(Types[c], str_batch[k][c])
    BY <1>2
  <2>16. row_group' = NoColumns
    BY <1>4, <2>1 DEF NoColumns, ColumnNum, Types
  <2>17. all_stats' = Append(all_stats, row)
    BY <1>4, <2>b
  <2>18. all_metadata' = all_metadata \o <<SizeUpTo(Sizes, ColumnNum)>> \o Sizes
                           \o <<Len(str_batch)>>
    BY <1>4, <2>1
  <2> HIDE DEF RowOf
  <2> QED BY <1>1, <1>2, <1>4, <2>12, <2>14, <2>15, <2>16, <2>17, <2>18, GroupAdded
<1>5. \/ phase' = "crashed" /\ UNCHANGED <<writerVars, readerVars>>
      \/ /\ all_stats # <<>>
         /\ \E cleared \in BOOLEAN : all_stats' = Append(all_stats, RowOf(cleared))
         /\ file' = file \o FlattenSeq(Encoded)
         /\ all_metadata' = all_metadata \o <<SizeUpTo(Sizes, ColumnNum)>> \o Sizes \o <<0>>
         /\ phase' = "between"
         /\ UNCHANGED <<source, names, position, eof, str_batch, capacity, row_group,
                        batch_starts, readerVars>>
  BY DEF EmptyGroup
<1> HIDE DEF RowOf
<1> QED BY <1>3, <1>4, <1>5

\* What WriteMetadata writes are the metadata of the table.
LEMMA FooterIs ==
  ASSUME Basic, Len(names) = Len(source.types)
  PROVE  LET stats == SerializeStats(all_stats)
         IN <<Len(batch_starts)>> \o batch_starts \o <<ColumnNum>>
              \o [c \in 1 .. ColumnNum |-> TypeCode(Types[c])]
              \o all_metadata \o <<Len(stats)>> \o stats \o SerializeScheme
              = FooterOf(source.types, batch_starts, all_metadata, all_stats, names)
<1>1. all_stats \in Seq(Seq(Stat)) /\ DOMAIN all_stats = 1 .. Len(all_stats)
  BY DEF Basic
<1>2. SerializeStats(all_stats) = StatsText(source.types, all_stats)
  <2>1. SerializeStats(all_stats)
          = FlattenSeq([b \in 1 .. Len(all_stats) |->
              FlattenSeq([c \in 1 .. Len(source.types) |->
                PairText(source.types[c], all_stats[b][c])])])
    BY <1>1 DEF SerializeStats, PairText, ColumnNum, Types
  <2> QED BY <2>1 DEF StatsText, RowTexts, RowText, PairTexts
<1>3. SerializeScheme = FlattenSeq(EntriesOf(names))
  <2>1. DOMAIN names = 1 .. Len(source.types)
    BY DEF Basic
  <2> QED BY <2>1 DEF SerializeScheme, EntriesOf, Entry, ColumnNum, Types
<1>4. [c \in 1 .. ColumnNum |-> TypeCode(Types[c])] = Codes(source.types)
  BY DEF Codes, ColumnNum, Types
<1>5. ColumnNum = Len(source.types)
  BY DEF ColumnNum, Types
<1> QED BY <1>2, <1>3, <1>4, <1>5, Zenon DEF FooterOf

\* The metadata of a written table have the form that can be read back.
LEMMA TableIs ==
  ASSUME Basic, NEW cut, Groups(cut), Len(batch_starts) = Len(all_stats),
         Len(names) = Len(source.types)
  PROVE  IsTable(source.types, batch_starts, all_metadata, all_stats, names)
<1> DEFINE C == Len(source.types)
<1>1. /\ source \in Sources /\ all_stats \in Seq(Seq(Stat)) /\ all_metadata \in Seq(Int)
      /\ batch_starts \in Seq(Nat) /\ names \in Seq(Texts)
      /\ Len(all_metadata) = (C + 2) * Len(all_stats)
  BY DEF Basic
<1>2. IsSource(source)
  BY <1>1, SourceFacts
<1>3. source.types \in Seq(Type) /\ C \in Nat
  BY <1>2 DEF IsSource
<1>4. ASSUME NEW b \in 1 .. Len(all_stats)
      PROVE  IsStatRow(source.types, all_stats[b])
  <2>1. IsStats(source, all_stats[b], cut[b - 1], cut[b])
    BY DEF Groups, AreGroups, IsGroup
  <2> DEFINE row == all_stats[b]
  <2>2. row \in Seq(Stat)
    BY <1>1
  <2>3. /\ row = [c \in 1 .. C |-> [min |-> row[c].min, max |-> row[c].max]]
        /\ \A c \in 1 .. C :
             IsStat(source.types[c], row[c].min) /\ IsStat(source.types[c], row[c].max)
    BY <2>1 DEF IsStats
  <2> HIDE DEF row, C
  <2>4. DOMAIN row = 1 .. C
    BY <2>3
  <2>5. Len(row) = C
    BY <1>3, <2>2, <2>4
  <2>6. \A c \in 1 .. C : IsPair(source.types[c], row[c])
    <3>1. \A c \in 1 .. C : row[c] \in Stat
      BY <2>2, <2>5
    <3> QED BY <2>3, <3>1 DEF IsPair
  <2> QED BY <2>2, <2>5, <2>6 DEF IsStatRow, C, row
<1>5. AreStatRows(source.types, all_stats)
  BY <1>1, <1>4 DEF AreStatRows
<1>6. Len(all_metadata) = Len(batch_starts) * (C + 2)
  <2> DEFINE n == Len(all_stats)  w == C + 2
  <2>1. n \in Nat /\ w \in Nat
    BY <1>1, <1>3
  <2> HIDE DEF n, w
  <2>2. w * n = n * w
    BY <2>1
  <2> QED BY <1>1, <2>2 DEF n, w
<1> QED BY <1>1, <1>3, <1>5, <1>6 DEF IsTable

\* WriteMetadata preserves the invariant: the file ends with the metadata.
LEMMA WriteMetadataStep ==
  ASSUME IInv, WriteMetadata
  PROVE  IInv'
<1>1. PICK cut : Basic /\ Reader /\ Groups(cut) /\ Writing(cut[Len(all_stats)])
  BY DEF IInv, IsCut
<1>a. PICK footer :
        footer = FooterOf(source.types, batch_starts, all_metadata, all_stats, names)
  OBVIOUS
<1>b. PICK size : size = <<Len(footer)>>
  OBVIOUS
<1>2. phase = "between" /\ eof
  BY DEF WriteMetadata
<1>3. /\ source \in Sources /\ all_stats \in Seq(Seq(Stat)) /\ all_metadata \in Seq(Int)
      /\ file \in Seq(Int) /\ batch_starts \in Seq(Nat) /\ Len(names) = Len(source.types)
      /\ \A b \in 1 .. Len(batch_starts) : batch_starts[b] <= Len(file)
  BY <1>1, <1>2 DEF Basic
<1>4. /\ file' = file \o footer \o size /\ phase' = "written"
      /\ UNCHANGED <<source, names, position, eof, str_batch, capacity, row_group,
                     batch_starts, all_metadata, all_stats, metadata, curr_batch, batch, exported>>
  BY <1>1, <1>3, <1>a, <1>b, FooterIs DEF WriteMetadata, readerVars
<1>5. IsAhead(source, cut[Len(all_stats)], position, eof) /\ Len(batch_starts) = Len(all_stats)
  BY <1>1, <1>2 DEF Writing
<1>6. footer \in Seq(Int)
  <2>1. IsTable(source.types, batch_starts, all_metadata, all_stats, names)
    BY <1>1, <1>3, <1>5, TableIs
  <2> QED BY <1>a, <2>1, FooterType DEF Chained
<1>7. size \in Seq(Int) /\ Len(size) = 1 /\ size[1] = Len(footer) /\ Len(footer) \in Nat
  BY <1>6, <1>b
<1> DEFINE f == file \o footer
<1>8. f \in Seq(Int) /\ At(f, Len(file), footer) /\ Len(f) = Len(file) + Len(footer)
  BY <1>3, <1>6, PartIs
<1> HIDE DEF f
<1>9. f \o size \in Seq(Int) /\ At(f \o size, Len(f), size) /\ Len(f \o size) = Len(f) + 1
      /\ At(f \o size, Len(file), footer)
  BY <1>6, <1>7, <1>8, PartIs, AtLeft
<1>10. file' = f \o size /\ Len(file) \in Nat
  BY <1>3, <1>4 DEF f
<1>11. Len(file') = Len(file) + Len(footer) + 1
  BY <1>8, <1>9, <1>10
<1>12. EndsWith(file', footer)
  <2>1. Len(file') - 1 - Len(footer) = Len(file) /\ Len(file') > Len(footer)
        /\ Len(f) + 1 = Len(file')
    BY <1>7, <1>8, <1>10, <1>11
  <2>2. file'[Len(f) + 1] = Len(footer)
    <3>1. 1 \in 1 .. Len(size)
      BY <1>7
    <3> QED BY <1>7, <1>9, <1>10, <3>1 DEF At
  <2> QED BY <1>6, <1>9, <1>10, <2>1, <2>2 DEF EndsWith
<1>13. Basic'
  <2>1. \A b \in 1 .. Len(batch_starts) : batch_starts[b] <= Len(file')
    <3>1. \A b \in 1 .. Len(batch_starts) : batch_starts[b] \in Nat
      BY <1>3
    <3> QED BY <1>3, <1>7, <1>10, <1>11, <3>1
  <2> QED BY <1>1, <1>2, <1>4, <1>9, <1>10, <2>1 DEF Basic, Phases
<1>14. Reader'
  <2>1. EndsWith(file', FooterOf(source.types, batch_starts, all_metadata, all_stats, names))
    BY <1>12, <1>a
  <2> QED BY <1>1, <1>2, <1>4, <2>1 DEF Reader, Read, BatchCount, NoMetadata
<1>15. Groups(cut)'
  <2>1. AreGroups(source, file, batch_starts, all_metadata, all_stats, cut)
        /\ \A b \in 1 .. FullOnes(batch_starts, all_stats, eof) : IsFull(source, cut, b)
    BY <1>1 DEF Groups
  <2>2. all_metadata \o <<>> = all_metadata
    BY <1>3
  <2>3. AreGroups(source, f, batch_starts, all_metadata, all_stats, cut)
    <3>1. AreGroups(source, file \o footer, batch_starts, all_metadata \o <<>>, all_stats, cut)
      <4>1. <<>> \in Seq(Int)
        OBVIOUS
      <4> QED BY <1>3, <1>6, <2>1, <4>1, GroupsGrow
    <3> QED BY <2>2, <3>1 DEF f
  <2>4. AreGroups(source, f \o size, batch_starts, all_metadata \o <<>>, all_stats, cut)
    <3>1. <<>> \in Seq(Int)
      OBVIOUS
    <3> QED BY <1>3, <1>7, <1>8, <2>3, <3>1, GroupsGrow
  <2> QED BY <1>4, <1>10, <2>1, <2>2, <2>4 DEF Groups
<1>16. Writing(cut[Len(all_stats)])'
  BY <1>2, <1>4, <1>5 DEF Writing, Read, IsAhead
<1> QED BY <1>13, <1>14, <1>15, <1>16 DEF IInv, IsCut

\* OpenReader preserves the invariant: it reads what was written.
LEMMA OpenReaderStep ==
  ASSUME IInv, OpenReader
  PROVE  IInv'
<1>1. PICK cut : Basic /\ Reader /\ Groups(cut) /\ Writing(cut[Len(all_stats)])
  BY DEF IInv, IsCut
<1>2. /\ phase = "written" /\ metadata' = ReadMetadata(file) /\ curr_batch' = 0 /\ phase' = "open"
      /\ UNCHANGED <<source, names, position, eof, str_batch, capacity, row_group, file,
                     batch_starts, all_metadata, all_stats, batch, exported>>
  BY DEF OpenReader, writerVars
<1>3. Len(batch_starts) = Len(all_stats) /\ Len(names) = Len(source.types)
      /\ batch_starts \in Seq(Nat)
  BY <1>1, <1>2 DEF Writing, Basic, Read
<1>4. IsTable(source.types, batch_starts, all_metadata, all_stats, names)
  BY <1>1, <1>3, TableIs
<1>5. EndsWith(file, FooterOf(source.types, batch_starts, all_metadata, all_stats, names))
  BY <1>1, <1>2 DEF Reader, Read
<1>6. metadata' = ContentOf(source.types, batch_starts, all_metadata, all_stats, names)
  BY <1>2, <1>4, <1>5, MetadataRoundTrip
<1>7. Basic'
  BY <1>1, <1>2 DEF Basic, Phases
<1>8. Reader'
  <2>1. BatchCount' = Len(batch_starts) /\ Len(batch_starts) \in Nat
    BY <1>3, <1>6 DEF BatchCount, ContentOf
  <2>2. batch' = NoBatch \/ Len(batch') = Len(source.types)
    BY <1>1, <1>2 DEF Reader
  <2> QED BY <1>2, <1>5, <1>6, <2>1, <2>2 DEF Reader, Read
<1>9. Groups(cut)'
  BY <1>1, <1>2, GroupsKept DEF Basic
<1>10. Writing(cut[Len(all_stats)])'
  BY <1>1, <1>2 DEF Writing, Read
<1> QED BY <1>7, <1>8, <1>9, <1>10 DEF IInv, IsCut

\* A step of the reader.
LEMMA ReaderStep ==
  ASSUME IInv, phase = "open", phase' \in {"open", "exported"}, UNCHANGED <<writerVars, metadata>>,
         curr_batch' \in 0 .. BatchCount, batch' = NoBatch \/ Len(batch') = Len(source.types)
  PROVE  IInv'
<1>1. PICK cut : Basic /\ Reader /\ Groups(cut) /\ Writing(cut[Len(all_stats)])
  BY DEF IInv, IsCut
<1>2. UNCHANGED <<source, names, position, eof, str_batch, capacity, row_group, file,
                  batch_starts, all_metadata, all_stats, metadata>>
  BY DEF writerVars
<1>3. Basic'
  BY <1>1, <1>2 DEF Basic, Phases
<1>4. Reader'
  BY <1>1, <1>2 DEF Reader, Read, BatchCount
<1>5. Groups(cut)'
  BY <1>1, <1>2, GroupsKept DEF Basic
<1>6. Writing(cut[Len(all_stats)])'
  BY <1>1, <1>2 DEF Writing, Read
<1> QED BY <1>3, <1>4, <1>5, <1>6 DEF IInv, IsCut

\* The invariant holds in every state: the rows read so far, but for those of
\* the group under way, are in the file in groups that decode to them, and the
\* reader has the metadata that tell where.
THEOREM Invariance == Spec => []IInv
<1>1. Init => IInv
  BY InitInv
<1>2. IInv /\ [Next]_vars => IInv'
  <2> SUFFICES ASSUME IInv, [Next]_vars PROVE IInv'
    OBVIOUS
  <2>1. CASE SetScheme
    BY <2>1, SetSchemeStep
  <2>2. CASE StartGroup
    BY <2>2, StartGroupStep
  <2>3. CASE ReadRow
    BY <2>3, ReadRowStep
  <2>4. CASE ReadShortRow
    BY <2>4, PhaseStep DEF ReadShortRow
  <2>5. CASE ReadNothing
    BY <2>5, ReadNothingStep
  <2>6. CASE GroupFull
    BY <2>6, PhaseStep DEF GroupFull
  <2>7. CASE AddColumnThrows
    BY <2>7, PhaseStep DEF AddColumnThrows
  <2>8. CASE EmptyGroup
    BY <2>8, EmptyGroupStep
  <2>9. CASE WriteGroup
    BY <2>9, WriteGroupStep
  <2>10. CASE WriteMetadata
    BY <2>10, WriteMetadataStep
  <2>11. CASE OpenReader
    BY <2>11, OpenReaderStep
  <2> DEFINE content == ContentOf(source.types, batch_starts, all_metadata, all_stats, names)
  <2>a. ASSUME phase = "open"
        PROVE  /\ metadata.types = source.types /\ metadata.starts = batch_starts
               /\ Len(source.types) \in Nat /\ BatchCount \in Nat /\ curr_batch \in 0 .. BatchCount
               /\ batch = NoBatch \/ Len(batch) = Len(source.types)
    <3>1. Reader /\ Basic
      BY DEF IInv
    <3>2. metadata = content
      BY <2>a, <3>1 DEF Reader
    <3>3. metadata.types = source.types /\ metadata.starts = batch_starts
      BY <3>2 DEF ContentOf
    <3>4. source \in Sources /\ batch_starts \in Seq(Nat)
      BY <3>1 DEF Basic
    <3>5. Len(source.types) \in Nat
      BY <3>4, SourceFacts DEF IsSource
    <3>6. BatchCount \in Nat
      BY <3>3, <3>4 DEF BatchCount
    <3> QED BY <3>1, <3>3, <3>5, <3>6 DEF Reader
  <2>12. CASE ReadNextBatch
    <3>1. /\ phase = "open" /\ curr_batch < BatchCount /\ curr_batch' = curr_batch + 1
          /\ UNCHANGED <<writerVars, phase, metadata, exported>>
      BY <2>12 DEF ReadNextBatch
    <3>2. Len(batch') = Len(source.types)
      <4>1. PICK ids : batch' = [c \in 1 .. Len(metadata.types) |->
              IF c \in ids THEN Decode(metadata.types[c], GetColumnData(curr_batch + 1, c))
                           ELSE <<>>]
        BY <2>12 DEF ReadNextBatch
      <4> QED BY <2>a, <3>1, <4>1
    <3> QED BY <2>a, <3>1, <3>2, ReaderStep
  <2>13. CASE SkipNextBatch
    <3>1. /\ phase = "open" /\ curr_batch < BatchCount /\ curr_batch' = curr_batch + 1
          /\ UNCHANGED <<writerVars, phase, metadata, batch, exported>>
      BY <2>13 DEF SkipNextBatch
    <3> QED BY <2>a, <3>1, ReaderStep
  <2>14. CASE ReadToCSV
    <3>1. /\ phase = "open" /\ curr_batch = 0 /\ phase' = "exported"
          /\ UNCHANGED <<writerVars, metadata, curr_batch, batch>>
      BY <2>14 DEF ReadToCSV
    <3> QED BY <2>a, <3>1, ReaderStep
  <2>15. CASE UNCHANGED vars
    <3>1. UNCHANGED <<source, names, position, eof, str_batch, capacity, row_group, file,
                      batch_starts, all_metadata, all_stats, phase, metadata, curr_batch, batch,
                      exported>>
      BY <2>15 DEF vars, writerVars, readerVars
    <3>2. PICK cut : Basic /\ Reader /\ Groups(cut) /\ Writing(cut[Len(all_stats)])
      BY DEF IInv, IsCut
    <3>3. Basic'
      BY <3>1, <3>2 DEF Basic
    <3>4. Reader'
      BY <3>1, <3>2 DEF Reader, BatchCount
    <3>5. Groups(cut)'
      BY <3>1, <3>2, GroupsKept DEF Basic
    <3>6. Writing(cut[Len(all_stats)])'
      BY <3>1, <3>2 DEF Writing, Filling
    <3> QED BY <3>3, <3>4, <3>5, <3>6 DEF IInv, IsCut
  <2> QED BY <2>1, <2>2, <2>3, <2>4, <2>5, <2>6, <2>7, <2>8, <2>9, <2>10, <2>11, <2>12,
             <2>13, <2>14, <2>15 DEF Next
<1> QED BY <1>1, <1>2, PTL DEF Spec

-----------------------------------------------------------------------------
\* What the reader finds.

\* TypeOK, for all sources and sizes of row groups: the writer keeps positions,
\* sizes and columns together, and the reader stays within the groups.
THEOREM TypesOK == Spec => []TypeOK
<1>1. IInv => TypeOK
  <2> SUFFICES ASSUME IInv PROVE TypeOK
    OBVIOUS
  <2>1. Basic /\ Reader
    BY DEF IInv
  <2>2. /\ phase \notin {"scheme", "failed"} => Len(names) = ColumnNum
        /\ position \in 0 .. Len(source.text) /\ eof \in BOOLEAN
        /\ phase \in Phases /\ Len(str_batch) <= position /\ capacity \in Nat
        /\ Len(all_metadata) = (ColumnNum + 2) * Len(all_stats)
    BY <2>1 DEF Basic, ColumnNum, Types
  <2>3. Len(row_group) = ColumnNum
    <3>1. source \in Sources /\ row_group = [c \in 1 .. Len(source.types) |-> <<>>]
      BY <2>1 DEF Basic
    <3>2. Len(source.types) \in Nat
      BY <3>1, SourceFacts DEF IsSource
    <3> QED BY <3>1, <3>2 DEF ColumnNum, Types
  <2>4. \A b \in DOMAIN batch_starts : batch_starts[b] \in 0 .. Len(file)
    <3>1. /\ batch_starts \in Seq(Nat) /\ file \in Seq(Int)
          /\ \A b \in 1 .. Len(batch_starts) : batch_starts[b] <= Len(file)
      BY <2>1 DEF Basic
    <3>2. \A b \in DOMAIN batch_starts : batch_starts[b] \in Nat /\ batch_starts[b] <= Len(file)
      BY <3>1
    <3>3. Len(file) \in Nat
      BY <3>1
    <3> QED BY <3>2, <3>3
  <2>5. curr_batch \in 0 .. BatchCount /\ (batch = NoBatch \/ Len(batch) = ColumnNum)
    BY <2>1 DEF Reader, ColumnNum, Types
  <2> QED BY <2>2, <2>3, <2>4, <2>5 DEF TypeOK, Phases
<1> QED BY <1>1, Invariance, PTL

\* Row group b, as the reader finds it, has the rows lo + 1 .. hi of the source.
IsReadGroup(b, lo, hi) ==
  /\ AreRows(source, lo, hi)
  /\ RowCount(b) = hi - lo
  /\ \A c \in 1 .. Len(source.types) :
       Decode(source.types[c], GetColumnData(b, c)) = CellsOf(source, lo, hi, c)
  /\ IsStats(source, metadata.stats[b], lo, hi)
  /\ Weight(source, lo, hi - 1) <= RowGroupSize
  /\ b < BatchCount => Weight(source, lo, hi) > RowGroupSize

\* Cut into groups there, the reader finds the rows of the source.
IsReadTable(cut) ==
  /\ source \in Sources /\ IsSource(source)
  /\ metadata.types = source.types /\ metadata.names = source.names
  /\ BatchCount \in Nat
  /\ cut[0] = 0 /\ cut[BatchCount] = Len(source.records)
  /\ \A b \in 1 .. BatchCount : IsReadGroup(b, cut[b - 1], cut[b])

\* Section b of m is that of the rows lo + 1 .. hi.
IsSection(m, b, s, lo, hi) ==
  /\ AreRows(s, lo, hi)
  /\ At(m, (b - 1) * (Len(s.types) + 2), Section(s, lo, hi))

\* It is found there when the sections are cut apart.
LEMMA SectionsAre ==
  ASSUME NEW m \in Seq(Int), NEW s, NEW lo, NEW hi, NEW n \in Nat, NEW b \in 1 .. n,
         IsSection(m, b, s, lo, hi)
  PROVE  SectionsOf(m, Len(s.types) + 2, n)[b] = Section(s, lo, hi)
<1> DEFINE w == Len(s.types) + 2  p == (b - 1) * w  sec == Section(s, lo, hi)
<1>0. AreRows(s, lo, hi) /\ At(m, p, sec)
  BY DEF IsSection
<1>1. sec \in Seq(Int) /\ Len(sec) = w
  BY <1>0, SectionIs
<1>2. w \in Nat
  <2>1. Len(s.types) \in Nat
    BY <1>0 DEF AreRows, IsSource
  <2> QED BY <2>1
<1>3. SectionsOf(m, w, n)[b] = SubSeq(m, (b - 1) * w + 1, b * w)
  BY DEF SectionsOf
<1> HIDE DEF w, sec
<1>5. (b - 1) * w + w = b * w
  BY <1>2
<1> HIDE DEF p
<1>6. SubSeq(m, p + 1, p + Len(sec)) = sec
  BY <1>0, <1>1, AtSub
<1> QED BY <1>1, <1>3, <1>5, <1>6 DEF p, w, sec

\* An opened file is such a table.
LEMMA ReadTable ==
  ASSUME IInv, phase \in {"open", "exported"}
  PROVE  \E cut : IsReadTable(cut)
<1>1. PICK cut : Basic /\ Reader /\ Groups(cut) /\ Writing(cut[Len(all_stats)])
  BY DEF IInv, IsCut
<1>a. PICK n : n = Len(all_stats)
  OBVIOUS
<1>b. PICK C : C = Len(source.types)
  OBVIOUS
<1>2. /\ source \in Sources /\ all_stats \in Seq(Seq(Stat)) /\ all_metadata \in Seq(Int)
      /\ file \in Seq(Int) /\ names = source.names
  BY <1>1 DEF Basic
<1>3. IsSource(source) /\ n \in Nat /\ C \in Nat
  <2>1. IsSource(source)
    BY <1>2, SourceFacts
  <2>2. n \in Nat
    BY <1>2, <1>a
  <2>3. C \in Nat
    BY <1>b, <2>1 DEF IsSource
  <2> QED BY <2>1, <2>2, <2>3
<1>4. Len(batch_starts) = n /\ cut[n] = Len(source.records)
  BY <1>1, <1>a DEF Writing, Read
<1>5. /\ metadata.types = source.types /\ metadata.names = source.names
      /\ metadata.starts = batch_starts /\ metadata.stats = all_stats
      /\ metadata.sizes = SectionsOf(all_metadata, C + 2, n)
  <2>1. metadata = ContentOf(source.types, batch_starts, all_metadata, all_stats, names)
    BY <1>1 DEF Reader
  <2> QED BY <1>2, <1>4, <1>b, <2>1 DEF ContentOf
<1>6. BatchCount = n
  BY <1>4, <1>5 DEF BatchCount
<1>7. ASSUME NEW b \in 1 .. n PROVE IsReadGroup(b, cut[b - 1], cut[b])
  <2>a. PICK lo : lo = cut[b - 1]
    OBVIOUS
  <2>b. PICK hi : hi = cut[b]
    OBVIOUS
  <2>1. IsGroup(source, file, batch_starts[b], all_metadata, (b - 1) * (C + 2), all_stats[b],
                lo, hi)
    BY <1>1, <1>a, <1>b, <2>a, <2>b DEF Groups, AreGroups
  <2>2. /\ AreRows(source, lo, hi) /\ IsStats(source, all_stats[b], lo, hi)
        /\ At(all_metadata, (b - 1) * (C + 2), Section(source, lo, hi))
        /\ Weight(source, lo, hi - 1) <= RowGroupSize
    BY <2>1 DEF IsGroup
  <2>3. metadata.sizes[b] = Section(source, lo, hi)
    <3>1. IsSection(all_metadata, b, source, lo, hi)
      BY <1>b, <2>2 DEF IsSection
    <3>2. all_metadata \in Seq(Int) /\ n \in Nat /\ b \in 1 .. n
      BY <1>2, <1>3
    <3>3. SectionsOf(all_metadata, Len(source.types) + 2, n)[b] = Section(source, lo, hi)
      BY <3>1, <3>2, SectionsAre
    <3>4. metadata.sizes = SectionsOf(all_metadata, Len(source.types) + 2, n)
      BY <1>5, <1>b
    <3> QED BY <3>3, <3>4
  <2>4. RowCount(b) = hi - lo
    BY <2>2, <2>3, SectionIs DEF RowCount
  <2>5. ASSUME NEW c \in 1 .. Len(source.types)
        PROVE  Decode(source.types[c], GetColumnData(b, c)) = CellsOf(source, lo, hi, c)
    <3> DEFINE from == batch_starts[b] + SizeUpTo(Lengths(source, lo, hi), c - 1)
    <3>1. SubSeq(metadata.sizes[b], 2, Len(metadata.types) + 1) = Lengths(source, lo, hi)
      BY <1>5, <2>2, <2>3, SectionIs
    <3>2. GetColumnData(b, c) = SubSeq(file, from + 1, from + Lengths(source, lo, hi)[c])
      BY <1>5, <3>1 DEF GetColumnData
    <3>3. IsColumnAt(source, file, batch_starts[b], lo, hi, c)
      BY <1>2, <2>1, ColumnData
    <3> QED BY <3>2, <3>3 DEF IsColumnAt
  <2>6. b < BatchCount => Weight(source, lo, hi) > RowGroupSize
    <3>1. b < n => b \in 1 .. FullOnes(batch_starts, all_stats, eof)
      BY <1>3, <1>a DEF FullOnes
    <3>2. b < n => IsFull(source, cut, b)
      BY <1>1, <3>1 DEF Groups
    <3> QED BY <1>6, <2>a, <2>b, <3>2 DEF IsFull
  <2>7. IsReadGroup(b, lo, hi)
    BY <1>5, <2>2, <2>4, <2>5, <2>6 DEF IsReadGroup
  <2> QED BY <2>7, <2>a, <2>b
<1>8. cut[0] = 0
  BY <1>1 DEF Groups, AreGroups
<1>9. IsReadTable(cut)
  BY <1>2, <1>3, <1>4, <1>5, <1>6, <1>7, <1>8 DEF IsReadTable
<1> QED BY <1>9

\* What the reader counts of rows: those up to a cut.
LEMMA RowsUpTo ==
  ASSUME NEW cut, IsReadTable(cut), NEW b \in 0 .. BatchCount
  PROVE  /\ SizeUpTo([k \in 1 .. BatchCount |-> RowCount(k)], b) = cut[b]
         /\ cut[b] \in Nat /\ cut[b] <= Len(source.records)
<1> DEFINE sizes == [k \in 1 .. BatchCount |-> RowCount(k)]
<1>a. PICK n : n = BatchCount
  OBVIOUS
<1>1. /\ IsSource(source) /\ n \in Nat /\ cut[0] = 0
      /\ \A k \in 1 .. n : AreRows(source, cut[k - 1], cut[k]) /\ RowCount(k) = cut[k] - cut[k - 1]
  BY <1>a DEF IsReadTable, IsReadGroup
<1>2. \A k \in 1 .. n : /\ cut[k] \in Nat /\ cut[k - 1] \in Nat /\ cut[k - 1] <= cut[k]
                        /\ cut[k] <= Len(source.records)
  BY <1>1 DEF AreRows
<1>3. sizes = [k \in 1 .. n |-> RowCount(k)]
  BY <1>a
<1> HIDE DEF sizes
<1>4. \A k \in 1 .. n : sizes[k] = cut[k] - cut[k - 1] /\ sizes[k] \in Nat
  BY <1>1, <1>2, <1>3
<1>5. sizes \in Seq(Nat) /\ Len(sizes) = n
  <2>1. sizes \in [1 .. n -> Nat]
    BY <1>3, <1>4
  <2> QED BY <1>1, <2>1, SeqOfFunction
<1>6. IsAccumulated(cut, sizes)
  <2>1. \A k \in 1 .. n : cut[k] = cut[k - 1] + sizes[k]
    BY <1>2, <1>4
  <2> QED BY <1>1, <1>5, <2>1 DEF IsAccumulated
<1>7. SizeUpTo(sizes, b) = cut[b]
  <2>1. b \in 0 .. Len(sizes)
    BY <1>5, <1>a
  <2> QED BY <1>5, <1>6, <2>1, SizesOf
<1>8. cut[b] \in Nat /\ cut[b] <= Len(source.records)
  <2>1. CASE b = 0
    <3>1. Len(source.records) \in Nat
      BY <1>1 DEF IsSource
    <3> QED BY <1>1, <2>1, <3>1
  <2>2. CASE b # 0
    <3>1. b \in 1 .. n
      BY <1>1, <1>a, <2>2
    <3> QED BY <1>2, <3>1
  <2> QED BY <2>1, <2>2
<1> QED BY <1>7, <1>8 DEF sizes

\* GroupsAreFull, for all sources and sizes: ReadRowGroupFromCSV stops only
\* when the group exceeds RowGroupSize or the source is read.
THEOREM GroupsFull == Spec => []GroupsAreFull
<1>1. IInv => GroupsAreFull
  <2> SUFFICES ASSUME IInv, phase = "open" PROVE GroupsAreFull
    BY DEF GroupsAreFull
  <2> DEFINE First(b) == SizeUpTo([k \in 1 .. BatchCount |-> RowCount(k)], b - 1) + 1
             Size(b, n) == MapThenSumSet(LAMBDA r : RowSize(source.records[r]),
                                         First(b) .. First(b) + n - 1)
  <2>1. PICK cut : IsReadTable(cut)
    BY ReadTable
  <2>2. BatchCount \in Nat
    BY <2>1 DEF IsReadTable
  <2>3. ASSUME NEW b \in 1 .. BatchCount
        PROVE  /\ Size(b, RowCount(b) - 1) <= RowGroupSize
               /\ b < BatchCount => Size(b, RowCount(b)) > RowGroupSize
    <3>a. PICK lo : lo = cut[b - 1]
      OBVIOUS
    <3>b. PICK hi : hi = cut[b]
      OBVIOUS
    <3>1. IsReadGroup(b, lo, hi)
      BY <2>1, <3>a, <3>b DEF IsReadTable
    <3>2. lo \in Nat /\ hi \in Nat /\ RowCount(b) = hi - lo
      BY <3>1 DEF IsReadGroup, AreRows
    <3>3. First(b) = lo + 1
      <4>1. b - 1 \in 0 .. BatchCount
        BY <2>2
      <4>2. SizeUpTo([k \in 1 .. BatchCount |-> RowCount(k)], b - 1) = cut[b - 1]
        BY <2>1, <4>1, RowsUpTo
      <4> QED BY <3>a, <4>2
    <3> HIDE DEF First
    <3>4. First(b) + (RowCount(b) - 1) - 1 = hi - 1 /\ First(b) + RowCount(b) - 1 = hi
      BY <3>2, <3>3
    <3>5. Size(b, RowCount(b) - 1) = Weight(source, lo, hi - 1)
      <4>1. Size(b, RowCount(b) - 1)
              = MapThenSumSet(LAMBDA r : RowSize(source.records[r]), lo + 1 .. hi - 1)
        BY <3>3, <3>4
      <4> QED BY <4>1, WeightIs
    <3>6. Size(b, RowCount(b)) = Weight(source, lo, hi)
      <4>1. Size(b, RowCount(b))
              = MapThenSumSet(LAMBDA r : RowSize(source.records[r]), lo + 1 .. hi)
        BY <3>3, <3>4
      <4> QED BY <4>1, WeightIs
    <3> QED BY <3>1, <3>5, <3>6 DEF IsReadGroup
  <2> QED BY <2>3 DEF GroupsAreFull
<1> QED BY <1>1, Invariance, PTL

\* StatsBoundTheirGroup, for all sources: the minima and maxima that
\* RowGroupReader hands to the scans bound the values that it decodes.
THEOREM StatsBound == Spec => []StatsBoundTheirGroup
<1>1. IInv => StatsBoundTheirGroup
  <2> SUFFICES ASSUME IInv, phase = "open",
                      NEW b \in 1 .. BatchCount, NEW c \in 1 .. ColumnNum
               PROVE  LET cells == ToSet(Stored(b, c))
                          stats == metadata.stats[b][c]
                          LessEq(x, y) == IF Types[c] = "String" THEN Before(x, y) ELSE x <= y
                      IN /\ cells # {} => stats.min \in cells /\ stats.max \in cells
                         /\ \A x \in cells : LessEq(stats.min, x) /\ LessEq(x, stats.max)
    BY DEF StatsBoundTheirGroup
  <2>1. PICK cut : IsReadTable(cut)
    BY ReadTable
  <2>a. PICK lo : lo = cut[b - 1]
    OBVIOUS
  <2>b. PICK hi : hi = cut[b]
    OBVIOUS
  <2>c. PICK v : v = CellsOf(source, lo, hi, c)
    OBVIOUS
  <2>d. PICK type : type = source.types[c]
    OBVIOUS
  <2>e. PICK stats : stats = metadata.stats[b][c]
    OBVIOUS
  <2>2. c \in 1 .. Len(source.types) /\ Types[c] = type
    BY <2>d DEF ColumnNum, Types
  <2>3. IsReadGroup(b, lo, hi)
    BY <2>1, <2>a, <2>b DEF IsReadTable
  <2>4. Stored(b, c) = v
    BY <2>2, <2>3, <2>c DEF IsReadGroup, Stored, Types
  <2>5. AreRows(source, lo, hi) /\ IsStats(source, metadata.stats[b], lo, hi)
    BY <2>3 DEF IsReadGroup
  <2>6. lo \in Nat /\ hi \in Nat /\ lo <= hi
    BY <2>5 DEF AreRows
  <2>7. type \in Type /\ IsColumn(type, v) /\ v \in Seq(Value(type)) /\ Len(v) = hi - lo
    BY <2>2, <2>5, <2>c, <2>d, CellsAre
  <2>8. ToSet(v) = {v[k] : k \in 1 .. Len(v)}
    <3>1. DOMAIN v = 1 .. Len(v)
      BY <2>7
    <3> QED BY <3>1 DEF ToSet
  <2>9. CASE lo = hi
    <3>1. Len(v) = 0
      BY <2>6, <2>7, <2>9
    <3>2. ToSet(v) = {}
      BY <2>8, <3>1
    <3> QED BY <2>4, <3>2
  <2>10. CASE lo < hi
    <3>1. Len(v) # 0
      BY <2>6, <2>7, <2>10
    <3>2. v # <<>>
      BY <3>1
    <3>3. stats = ComputeColumnBlockStats(type, v)
      BY <2>2, <2>5, <2>10, <2>c, <2>d, <2>e DEF IsStats
    <3>4. Bound(stats, type, v)
      BY <2>7, <3>2, <3>3, StatsAre
    <3>5. stats.min \in ToSet(v) /\ stats.max \in ToSet(v)
      BY <2>8, <3>4 DEF Bound
    <3>6. \A x \in ToSet(v) : AtMost(type, stats.min, x) /\ AtMost(type, x, stats.max)
      BY <2>8, <3>4 DEF Bound
    <3> QED BY <2>2, <2>4, <2>e, <3>5, <3>6 DEF AtMost
  <2> QED BY <2>6, <2>9, <2>10
<1> QED BY <1>1, Invariance, PTL

\* BatchFollowsThosePassed, for all sources: ReadNextBatch returns the rows
\* behind those read or skipped, whichever columns are asked for.
THEOREM BatchFollows == Spec => BatchFollowsThosePassed
<1> DEFINE Follows ==
      batch' # batch =>
        LET passed == SizeUpTo([k \in 1 .. BatchCount |-> RowCount(k)], curr_batch)
        IN \A c \in 1 .. ColumnNum :
             batch'[c] # <<>> =>
               batch'[c] = [r \in 1 .. RowCount(curr_batch + 1) |-> Typed(c, passed + r)]
<1>1. IInv /\ [Next]_vars => Follows
  <2> SUFFICES ASSUME IInv, [Next]_vars, batch' # batch, NEW c \in 1 .. ColumnNum,
                      batch'[c] # <<>>
               PROVE  batch'[c] = [r \in 1 .. RowCount(curr_batch + 1) |->
                        Typed(c, SizeUpTo([k \in 1 .. BatchCount |-> RowCount(k)], curr_batch) + r)]
    OBVIOUS
  <2>1. ReadNextBatch
    <3>1. SetScheme \/ StartGroup \/ ReadRow \/ ReadShortRow \/ ReadNothing \/ GroupFull
            \/ AddColumnThrows \/ EmptyGroup \/ WriteGroup \/ WriteMetadata => batch' = batch
      BY DEF SetScheme, StartGroup, ReadRow, ReadShortRow, ReadNothing, GroupFull,
             AddColumnThrows, EmptyGroup, WriteGroup, WriteMetadata, readerVars
    <3>2. OpenReader \/ SkipNextBatch \/ ReadToCSV \/ UNCHANGED vars => batch' = batch
      BY DEF OpenReader, SkipNextBatch, ReadToCSV, vars, readerVars
    <3> QED BY <3>1, <3>2 DEF Next
  <2>2. /\ phase = "open" /\ curr_batch < BatchCount
        /\ \E ids : batch' = [i \in 1 .. Len(metadata.types) |->
             IF i \in ids THEN Decode(metadata.types[i], GetColumnData(curr_batch + 1, i))
                          ELSE <<>>]
    BY <2>1 DEF ReadNextBatch
  <2>3. PICK cut : IsReadTable(cut)
    BY <2>2, ReadTable
  <2>a. PICK b : b = curr_batch + 1
    OBVIOUS
  <2>b. PICK lo : lo = cut[b - 1]
    OBVIOUS
  <2>c. PICK hi : hi = cut[b]
    OBVIOUS
  <2>4. curr_batch \in 0 .. BatchCount /\ BatchCount \in Nat
    BY <2>3 DEF IInv, Reader, IsReadTable
  <2>5. b \in 1 .. BatchCount /\ b - 1 = curr_batch
    BY <2>2, <2>4, <2>a
  <2>6. IsReadGroup(b, lo, hi)
    BY <2>3, <2>5, <2>b, <2>c DEF IsReadTable
  <2>7. c \in 1 .. Len(source.types) /\ metadata.types = source.types
    BY <2>3 DEF IsReadTable, ColumnNum, Types
  <2>8. batch'[c] = CellsOf(source, lo, hi, c)
    <3>1. batch'[c] = Decode(metadata.types[c], GetColumnData(b, c))
      BY <2>2, <2>7, <2>a
    <3> QED BY <2>6, <2>7, <3>1 DEF IsReadGroup
  <2>9. SizeUpTo([k \in 1 .. BatchCount |-> RowCount(k)], curr_batch) = lo
    BY <2>3, <2>4, <2>5, <2>b, RowsUpTo
  <2>10. RowCount(b) = hi - lo
    BY <2>6 DEF IsReadGroup
  <2>11. CellsOf(source, lo, hi, c) = [r \in 1 .. RowCount(b) |-> Typed(c, lo + r)]
    BY <2>10 DEF CellsOf, Cell, Typed, Types
  <2> QED BY <2>8, <2>9, <2>11, <2>a
<1> QED BY <1>1, Invariance, PTL DEF Spec, BatchFollowsThosePassed

\* The cells of a column up to a cut, and those of the group behind it.
LEMMA CellsJoin ==
  ASSUME NEW s, NEW lo \in Nat, NEW hi \in Nat, lo <= hi, NEW c
  PROVE  CellsOf(s, 0, lo, c) \o CellsOf(s, lo, hi, c) = CellsOf(s, 0, hi, c)
<1> DEFINE S == {Cell(s, c, k) : k \in 1 .. hi}
           f == CellsOf(s, 0, lo, c)
           g == CellsOf(s, lo, hi, c)
           h == CellsOf(s, 0, hi, c)
<1>1. f \in [1 .. lo -> S] /\ \A k \in 1 .. lo : f[k] = Cell(s, c, k)
  BY DEF CellsOf
<1>2. g \in [1 .. hi - lo -> S] /\ \A k \in 1 .. hi - lo : g[k] = Cell(s, c, lo + k)
  BY DEF CellsOf
<1>3. h \in [1 .. hi -> S] /\ \A k \in 1 .. hi : h[k] = Cell(s, c, k)
  BY DEF CellsOf
<1> HIDE DEF S, f, g, h
<1>4. /\ f \in Seq(S) /\ Len(f) = lo /\ g \in Seq(S) /\ Len(g) = hi - lo
      /\ h \in Seq(S) /\ Len(h) = hi
  <2>1. hi - lo \in Nat
    OBVIOUS
  <2> QED BY <1>1, <1>2, <1>3, <2>1, SeqOfFunction
<1> DEFINE u == f \o g
<1>5. /\ u \in Seq(S) /\ Len(u) = hi
      /\ \A k \in 1 .. hi : u[k] = IF k <= lo THEN f[k] ELSE g[k - lo]
  <2>1. lo + (hi - lo) = hi
    OBVIOUS
  <2>2. /\ u \in Seq(S) /\ Len(u) = Len(f) + Len(g)
        /\ \A k \in 1 .. Len(f) + Len(g) : u[k] = IF k <= Len(f) THEN f[k] ELSE g[k - Len(f)]
    BY <1>4, ConcatProperties
  <2> QED BY <1>4, <2>1, <2>2
<1> HIDE DEF u
<1>6. ASSUME NEW k \in 1 .. hi PROVE u[k] = h[k]
  <2>1. CASE k <= lo
    BY <1>1, <1>3, <1>5, <2>1
  <2>2. CASE k > lo
    <3>1. k - lo \in 1 .. hi - lo /\ lo + (k - lo) = k
      BY <2>2
    <3>2. u[k] = g[k - lo]
      BY <1>5, <2>2
    <3>3. g[k - lo] = Cell(s, c, k)
      BY <1>2, <3>1
    <3> QED BY <1>3, <3>2, <3>3
  <2> QED BY <2>1, <2>2
<1>7. Matches(u, h)
  BY <1>4, <1>5, <1>6 DEF Matches
<1>8. u = h
  BY <1>4, <1>5, <1>7, MatchEqual
<1> QED BY <1>8 DEF u, f, g, h

\* The columns of a table that can be read, group behind group.
LEMMA ColumnWhole ==
  ASSUME NEW cut, IsReadTable(cut), NEW c \in 1 .. ColumnNum
  PROVE  /\ FlattenSeq([b \in 1 .. BatchCount |-> Stored(b, c)])
              = [r \in DOMAIN source.records |-> Typed(c, r)]
         /\ \A b \in 1 .. BatchCount : Len(Stored(b, c)) = RowCount(b)
<1> DEFINE S == Value(source.types[c])
           ss == [b \in 1 .. BatchCount |-> Stored(b, c)]
<1>a. PICK n : n = BatchCount
  OBVIOUS
<1>1. n \in Nat /\ c \in 1 .. Len(source.types) /\ IsSource(source) /\ cut[0] = 0
      /\ cut[n] = Len(source.records)
  BY <1>a DEF IsReadTable, ColumnNum, Types
<1>2. ASSUME NEW b \in 1 .. n
      PROVE  /\ cut[b - 1] \in Nat /\ cut[b] \in Nat /\ cut[b - 1] <= cut[b]
             /\ Stored(b, c) = CellsOf(source, cut[b - 1], cut[b], c)
             /\ Stored(b, c) \in Seq(S)
             /\ Len(Stored(b, c)) = RowCount(b)
  <2>a. PICK lo : lo = cut[b - 1]
    OBVIOUS
  <2>b. PICK hi : hi = cut[b]
    OBVIOUS
  <2>1. IsReadGroup(b, lo, hi)
    BY <1>a, <2>a, <2>b DEF IsReadTable
  <2>2. AreRows(source, lo, hi) /\ RowCount(b) = hi - lo
    BY <2>1 DEF IsReadGroup
  <2>3. Stored(b, c) = CellsOf(source, lo, hi, c)
    BY <1>1, <2>1 DEF IsReadGroup, Stored, Types
  <2>4. CellsOf(source, lo, hi, c) \in Seq(S) /\ Len(CellsOf(source, lo, hi, c)) = hi - lo
    BY <1>1, <2>2, CellsAre
  <2>5. lo \in Nat /\ hi \in Nat /\ lo <= hi
    BY <2>2 DEF AreRows
  <2> QED BY <2>2, <2>3, <2>4, <2>5, <2>a, <2>b
<1>3. ss = [b \in 1 .. n |-> Stored(b, c)]
  BY <1>a
<1> HIDE DEF ss, S
<1>4. ss \in Seq(Seq(S)) /\ Len(ss) = n /\ \A b \in 1 .. n : ss[b] = Stored(b, c)
  <2>1. ss \in [1 .. n -> Seq(S)]
    BY <1>2, <1>3
  <2> QED BY <1>1, <1>3, <2>1, SeqOfFunction
<1>5. PICK F : IsFlat(F, ss, S) /\ FlattenSeq(ss) = F[Len(ss)]
  BY <1>4, FlattenTrace
<1>6. F[0] = <<>> /\ \A b \in 1 .. n : F[b] = F[b - 1] \o Stored(b, c)
  BY <1>4, <1>5 DEF IsFlat
<1> DEFINE P == {b \in 0 .. n : F[b] = CellsOf(source, 0, cut[b], c)}
<1>7. 0 \in P
  <2>1. CellsOf(source, 0, 0, c) = <<>>
    BY DEF CellsOf
  <2> QED BY <1>1, <1>6, <2>1
<1>8. ASSUME NEW b \in 0 .. n - 1, b \in P PROVE b + 1 \in P
  <2>a. PICK d : d = b + 1
    OBVIOUS
  <2>1. d \in 1 .. n /\ d - 1 = b
    BY <1>1, <2>a
  <2>2. F[b] = CellsOf(source, 0, cut[b], c)
    BY <1>8
  <2>3. F[d] = CellsOf(source, 0, cut[b], c) \o CellsOf(source, cut[b], cut[d], c)
    BY <1>2, <1>6, <2>1, <2>2
  <2>4. cut[b] \in Nat /\ cut[d] \in Nat /\ cut[b] <= cut[d]
    BY <1>2, <2>1
  <2>5. F[d] = CellsOf(source, 0, cut[d], c)
    BY <2>3, <2>4, CellsJoin
  <2> QED BY <1>1, <2>1, <2>5, <2>a
<1> HIDE DEF P
<1>9. n \in P
  <2>1. 0 .. n \subseteq P
    BY <1>1, <1>7, <1>8, Induct, Numbers!UpTo
  <2> QED BY <1>1, <2>1
<1>10. F[n] = CellsOf(source, 0, Len(source.records), c)
  BY <1>1, <1>9 DEF P
<1>11. CellsOf(source, 0, Len(source.records), c) = [r \in DOMAIN source.records |-> Typed(c, r)]
  <2>1. source.records \in Seq(Rows)
    BY <1>1 DEF IsSource
  <2>2. DOMAIN source.records = 1 .. Len(source.records) - 0
    BY <2>1
  <2>3. \A r \in 1 .. Len(source.records) - 0 : Cell(source, c, 0 + r) = Typed(c, r)
    BY <2>1 DEF Cell, Typed, Types
  <2> QED BY <2>2, <2>3 DEF CellsOf
<1>12. FlattenSeq(ss) = [r \in DOMAIN source.records |-> Typed(c, r)]
  BY <1>4, <1>5, <1>10, <1>11
<1> QED BY <1>2, <1>12, <1>a DEF ss

\* TableIsWhole, for all sources: what is decoded from an opened file, row
\* group after row group, is the whole source in its order.
THEOREM TableWhole == Spec => []TableIsWhole
<1>1. IInv => TableIsWhole
  <2> SUFFICES ASSUME IInv, phase = "open"
               PROVE  /\ metadata.types = Types /\ metadata.names = source.names
                      /\ \A c \in 1 .. ColumnNum :
                           FlattenSeq([b \in 1 .. BatchCount |-> Stored(b, c)])
                             = [r \in DOMAIN source.records |-> Typed(c, r)]
                      /\ \A b \in 1 .. BatchCount : \A c \in 1 .. ColumnNum :
                           Len(Stored(b, c)) = RowCount(b)
    BY DEF TableIsWhole
  <2>1. PICK cut : IsReadTable(cut)
    BY ReadTable
  <2>2. metadata.types = Types /\ metadata.names = source.names
    BY <2>1 DEF IsReadTable, Types
  <2>3. \A c \in 1 .. ColumnNum :
          FlattenSeq([b \in 1 .. BatchCount |-> Stored(b, c)])
            = [r \in DOMAIN source.records |-> Typed(c, r)]
    BY <2>1, ColumnWhole
  <2>4. \A b \in 1 .. BatchCount : \A c \in 1 .. ColumnNum : Len(Stored(b, c)) = RowCount(b)
    BY <2>1, ColumnWhole
  <2> QED BY <2>2, <2>3, <2>4
<1> QED BY <1>1, Invariance, PTL

-----------------------------------------------------------------------------
\* The lines of an export as the CSV reader takes them.

\* What a text of a line is written behind.
Separator(k) == IF k = 1 THEN <<>> ELSE <<Comma>>

\* The texts of a line, each behind its separator.
Pieces(texts) == [k \in 1 .. Len(texts) |-> Separator(k) \o texts[k]]

\* A line of the export.
LineOf(texts) == Joined(texts, Comma)

\* The fold of Joined over the texts.
Joins == INSTANCE ProofRules
  WITH Op <- LAMBDA e, joined, k : joined \o (IF k = 1 THEN <<>> ELSE <<Comma>>) \o e[k],
       Val <- LAMBDA a, b, x : x

\* A row has a piece for each of its texts.
LEMMA PiecesType ==
  ASSUME NEW texts \in Rows
  PROVE  /\ Pieces(texts) \in Seq(Seq(Int)) /\ Len(Pieces(texts)) = Len(texts)
         /\ \A k \in 1 .. Len(texts) :
              /\ Pieces(texts)[k] = Separator(k) \o texts[k]
              /\ Separator(k) \in Seq(Int) /\ texts[k] \in Seq(Int)
<1> DEFINE n == Len(texts)  ps == Pieces(texts)
<1>1. n \in Nat /\ ps = [k \in 1 .. n |-> Separator(k) \o texts[k]]
  BY DEF Rows, Pieces
<1>2. ASSUME NEW k \in 1 .. n
      PROVE  Separator(k) \in Seq(Int) /\ texts[k] \in Seq(Int) /\ Separator(k) \o texts[k] \in Seq(Int)
  <2>1. texts[k] \in Seq(Int)
    BY DEF Rows, Texts
  <2>2. Comma \in Int
    BY DEF Comma
  <2>3. Separator(k) \in Seq(Int)
    BY <2>2 DEF Separator
  <2> HIDE DEF n
  <2> QED BY <2>1, <2>3, ConcatProperties
<1> HIDE DEF ps
<1>3. ps \in [1 .. n -> Seq(Int)] /\ \A k \in 1 .. n : ps[k] = Separator(k) \o texts[k]
  BY <1>1, <1>2
<1> HIDE DEF n
<1>4. ps \in Seq(Seq(Int)) /\ Len(ps) = n
  BY <1>1, <1>3, SeqOfFunction
<1> QED BY <1>2, <1>3, <1>4 DEF ps, n

\* A line is the concatenation of its pieces.
LEMMA JoinedFlat ==
  ASSUME NEW texts \in Rows
  PROVE  \E F : IsFlat(F, Pieces(texts), Int) /\ LineOf(texts) = F[Len(texts)]
<1> DEFINE n == Len(texts)  s == [k \in DOMAIN texts |-> k]  ps == Pieces(texts)
<1>1. n \in Nat /\ DOMAIN s = 1 .. n /\ \A i \in 1 .. n : s[i] = i
  BY DEF Rows
<1> HIDE DEF s
<1>2. PICK E : Joins!IsTrace(E, texts, <<>>, s, n)
  BY <1>1, Induct, Joins!FoldTrace DEF Numbers!NatInduction, Joins!NatInduction
<1>3. /\ E[0] = <<>>
      /\ \A i \in 1 .. n : E[i] = E[i - 1] \o (IF s[i] = 1 THEN <<>> ELSE <<Comma>>) \o texts[s[i]]
      /\ Joins!Folded(texts, <<>>, s) = E[n]
  BY <1>2 DEF Joins!IsTrace
<1>4. LineOf(texts) = Joins!Folded(texts, <<>>, s)
  BY DEF LineOf, Joined, s, FoldLeft, MapThenFoldSet, Max, Joins!Folded,
         Joins!MapThenFoldSet, Joins!Greatest
<1>5. \A i \in 1 .. n : E[i] = (E[i - 1] \o Separator(i)) \o texts[i]
  BY <1>1, <1>3 DEF Separator
<1>6. /\ ps \in Seq(Seq(Int)) /\ Len(ps) = n
      /\ \A k \in 1 .. n : /\ ps[k] = Separator(k) \o texts[k] /\ ps[k] \in Seq(Int)
                           /\ Separator(k) \in Seq(Int) /\ texts[k] \in Seq(Int)
  BY PiecesType, ElementOfSeq
<1> DEFINE P == {i \in 0 .. n : E[i] \in Seq(Int)}
<1> HIDE DEF n, ps
<1>7. 0 \in P
  <2>1. E[0] = <<>>
    BY <1>3
  <2>2. E[0] \in Seq(Int)
    BY <2>1
  <2> QED BY <1>1, <2>2
<1>8. ASSUME NEW i \in 1 .. n, E[i - 1] \in Seq(Int)
      PROVE  E[i] = E[i - 1] \o ps[i] /\ E[i] \in Seq(Int)
  <2> DEFINE a == E[i - 1]  b == Separator(i)  c == texts[i]
  <2>1. a \in Seq(Int) /\ b \in Seq(Int) /\ c \in Seq(Int)
    BY <1>6, <1>8
  <2>2. E[i] = (a \o b) \o c /\ ps[i] = b \o c
    BY <1>5, <1>6
  <2> HIDE DEF a, b, c
  <2>3. (a \o b) \o c = a \o (b \o c)
    BY <2>1, Associative
  <2>4. b \o c \in Seq(Int)
    BY <2>1, ConcatProperties
  <2>5. a \o (b \o c) \in Seq(Int)
    BY <2>1, <2>4, ConcatProperties
  <2> QED BY <2>2, <2>3, <2>5 DEF a
<1>9. ASSUME NEW i \in 0 .. n - 1, i \in P PROVE i + 1 \in P
  <2>1. i + 1 \in 1 .. n /\ (i + 1) - 1 = i /\ i + 1 \in 0 .. n
    BY <1>1
  <2>2. E[i + 1] \in Seq(Int)
    BY <1>8, <1>9, <2>1
  <2> QED BY <2>1, <2>2
<1> HIDE DEF P
<1>10. 0 .. n \subseteq P
  BY <1>1, <1>7, <1>9, Induct, Numbers!UpTo
<1>11. \A i \in 0 .. n : E[i] \in Seq(Int)
  BY <1>10 DEF P
<1> DEFINE F == [i \in 0 .. n |-> E[i]]
<1>12. F \in [0 .. n -> Seq(Int)] /\ F[0] = <<>> /\ F[n] = E[n]
  BY <1>1, <1>3, <1>11
<1>13. ASSUME NEW i \in 1 .. n PROVE F[i] = F[i - 1] \o ps[i]
  <2>1. i - 1 \in 0 .. n /\ i \in 0 .. n
    BY <1>1
  <2>2. E[i] = E[i - 1] \o ps[i]
    BY <1>8, <1>11, <2>1
  <2> QED BY <2>1, <2>2
<1> HIDE DEF F
<1>14. IsFlat(F, ps, Int)
  BY <1>6, <1>12, <1>13 DEF IsFlat
<1>15. LineOf(texts) = F[n]
  BY <1>3, <1>4, <1>12
<1> QED BY <1>14, <1>15 DEF ps, n

\* Of a row without special characters, the texts before the k-th have been
\* taken, and j characters of that.
HasTaken(u, row, k, j) ==
  /\ u \in Partial /\ ~u.in_quotes /\ ~u.skip /\ ~u.ended
  /\ Len(u.record) = k - 1 /\ \A m \in 1 .. k - 1 : u.record[m] = row[m]
  /\ Len(u.token) = j /\ \A m \in 1 .. j : u.token[m] = row[k][m]

\* The next character of the row is at i.
IsNextChar(text, i, row, k, j) == text[i] = row[k][j + 1]

\* The texts of the row need no quotes.
IsBareRow(row) == \A k \in 1 .. Len(row) : IsBare(row[k])

\* A character that means nothing is added to the token.
LEMMA TakeBare ==
  ASSUME NEW text \in Seq(Int), NEW i \in 1 .. Len(text), NEW row \in Rows, IsBareRow(row),
         NEW k \in 1 .. Len(row), NEW j \in 0 .. Len(row[k]) - 1, NEW u, HasTaken(u, row, k, j),
         IsNextChar(text, i, row, k, j)
  PROVE  HasTaken(TakeChar(text, u, i), row, k, j + 1)
<1> DEFINE t == row[k]  c == text[i]  v == TakeChar(text, u, i)
<1>1. t \in Seq(Int) /\ Len(t) \in Nat /\ k \in Nat
  BY DEF Rows, Texts
<1>2. j \in Nat /\ j + 1 \in 1 .. Len(t) /\ c = t[j + 1] /\ c \in Int
  BY <1>1 DEF IsNextChar
<1>3. c \notin {Quote, Comma, NewLine, Return}
  <2>1. DOMAIN t = 1 .. Len(t)
    BY <1>1
  <2>2. t[j + 1] \in ToSet(t)
    BY <1>2, <2>1 DEF ToSet
  <2>3. \A x \in ToSet(t) : x \notin {Quote, Comma, NewLine, Return}
    BY DEF IsBareRow, IsBare
  <2> HIDE DEF t, c
  <2> QED BY <1>2, <2>2, <2>3
<1>4. /\ u \in Partial /\ ~u.in_quotes /\ ~u.skip /\ ~u.ended
      /\ Len(u.record) = k - 1 /\ (\A m \in 1 .. k - 1 : u.record[m] = row[m])
      /\ Len(u.token) = j /\ \A m \in 1 .. j : u.token[m] = t[m]
  BY DEF HasTaken
<1> HIDE DEF t, c
<1>5. v = [[u EXCEPT !.position = i] EXCEPT !.token = Append(@, c)]
  BY <1>3, <1>4 DEF TakeChar, c, Partial
<1>6. u.token \in Seq(Int) /\ i \in Nat
  BY <1>4 DEF Partial
<1>7. /\ v.record = u.record /\ v.token = Append(u.token, c)
      /\ v.in_quotes = u.in_quotes /\ v.skip = u.skip /\ v.ended = u.ended
  BY <1>4, <1>5 DEF Partial
<1>8. v \in Partial
  BY <1>4, TakeCharType
<1> HIDE DEF v
<1> DEFINE s == u.token  w == Append(s, c)
<1>9. Len(w) = j + 1 /\ (\A m \in 1 .. j : w[m] = s[m]) /\ w[j + 1] = c
  BY <1>2, <1>4, <1>6
<1>10. ASSUME NEW m \in 1 .. j + 1 PROVE w[m] = t[m]
  <2>1. CASE m = j + 1
    BY <1>2, <1>9, <2>1
  <2>2. CASE m # j + 1
    <3>1. m \in 1 .. j
      BY <1>2, <2>2
    <3> QED BY <1>4, <1>9, <3>1
  <2> QED BY <2>1, <2>2
<1> HIDE DEF w
<1>11. Len(v.token) = j + 1 /\ \A m \in 1 .. j + 1 : v.token[m] = t[m]
  BY <1>7, <1>9, <1>10 DEF w
<1>12. HasTaken(v, row, k, j + 1)
  BY <1>4, <1>7, <1>8, <1>11 DEF HasTaken, t
<1> QED BY <1>12 DEF v

\* A comma behind a text ends it.
LEMMA TakeComma ==
  ASSUME NEW text \in Seq(Int), NEW i \in 1 .. Len(text), NEW row \in Rows,
         NEW k \in 1 .. Len(row), NEW u, HasTaken(u, row, k, Len(row[k])), text[i] = Comma
  PROVE  HasTaken(TakeChar(text, u, i), row, k + 1, 0)
<1> DEFINE t == row[k]  v == TakeChar(text, u, i)
<1>1. t \in Seq(Int) /\ Len(t) \in Nat /\ k \in Nat
  BY DEF Rows, Texts
<1>2. /\ u \in Partial /\ ~u.in_quotes /\ ~u.skip /\ ~u.ended
      /\ Len(u.record) = k - 1 /\ (\A m \in 1 .. k - 1 : u.record[m] = row[m])
      /\ Len(u.token) = Len(t) /\ \A m \in 1 .. Len(t) : u.token[m] = t[m]
  BY DEF HasTaken
<1> HIDE DEF t
<1>3. u.token \in Texts /\ u.record \in Seq(Texts) /\ u.token \in Seq(Int)
  BY <1>2 DEF Partial, Texts
<1>4. u.token = t
  <2>1. Matches(u.token, t)
    BY <1>2 DEF Matches
  <2> QED BY <1>1, <1>3, <2>1, MatchEqual
<1>5. v = PushToken([u EXCEPT !.position = i])
  BY <1>2 DEF TakeChar, Quote, Comma, NewLine, Return, Partial
<1>6. /\ v.record = Append(u.record, t) /\ v.token = <<>>
      /\ v.in_quotes = u.in_quotes /\ v.skip = u.skip /\ v.ended = u.ended
  BY <1>2, <1>4, <1>5 DEF PushToken, Partial
<1>7. v \in Partial
  BY <1>2, TakeCharType
<1> HIDE DEF v
<1> DEFINE r == u.record  w == Append(r, t)
<1>8. Len(w) = k /\ (\A m \in 1 .. k - 1 : w[m] = r[m]) /\ w[k] = t
  BY <1>1, <1>2, <1>3
<1>9. ASSUME NEW m \in 1 .. k PROVE w[m] = row[m]
  <2>1. CASE m = k
    BY <1>8, <2>1 DEF t
  <2>2. CASE m # k
    <3>1. m \in 1 .. k - 1
      BY <1>1, <2>2
    <3> QED BY <1>2, <1>8, <3>1
  <2> QED BY <2>1, <2>2
<1> HIDE DEF w
<1>10. Len(v.record) = (k + 1) - 1 /\ \A m \in 1 .. (k + 1) - 1 : v.record[m] = row[m]
  <2>1. (k + 1) - 1 = k
    BY <1>1
  <2>2. v.record = w
    BY <1>6 DEF w
  <2> QED BY <1>8, <1>9, <2>1, <2>2
<1>11. Len(v.token) = 0 /\ \A m \in 1 .. 0 : v.token[m] = row[k + 1][m]
  BY <1>6
<1>12. HasTaken(v, row, k + 1, 0)
  BY <1>2, <1>6, <1>7, <1>10, <1>11 DEF HasTaken
<1> QED BY <1>12 DEF v

\* Behind the last text of a row the record is the row.
LEMMA TakenRow ==
  ASSUME NEW row \in Rows, row # <<>>, NEW u, HasTaken(u, row, Len(row), Len(row[Len(row)]))
  PROVE  PushToken(u).record = row /\ ~u.in_quotes /\ ~u.ended
<1> DEFINE k == Len(row)  t == row[k]
<1>1. k \in Nat /\ k \in 1 .. Len(row) /\ row \in Seq(Texts)
  BY DEF Rows
<1>2. t \in Seq(Int) /\ t \in Texts /\ Len(t) \in Nat
  BY <1>1 DEF Texts
<1>3. /\ u \in Partial /\ ~u.in_quotes /\ ~u.skip /\ ~u.ended
      /\ Len(u.record) = k - 1 /\ (\A m \in 1 .. k - 1 : u.record[m] = row[m])
      /\ Len(u.token) = Len(t) /\ \A m \in 1 .. Len(t) : u.token[m] = t[m]
  BY DEF HasTaken
<1> HIDE DEF t
<1>4. u.token \in Texts /\ u.record \in Seq(Texts) /\ u.token \in Seq(Int)
  BY <1>3 DEF Partial, Texts
<1>5. u.token = t
  <2>1. Matches(u.token, t)
    BY <1>3 DEF Matches
  <2> QED BY <1>2, <1>4, <2>1, MatchEqual
<1>6. PushToken(u).record = Append(u.record, t)
  BY <1>3, <1>5, PushTokenType
<1> DEFINE r == u.record  w == Append(r, t)
<1>7. r \in Seq(Texts) /\ Len(r) = k - 1 /\ \A m \in 1 .. k - 1 : r[m] = row[m]
  BY <1>3, <1>4
<1> HIDE DEF r
<1>8. w \in Seq(Texts) /\ Len(w) = k /\ (\A m \in 1 .. k - 1 : w[m] = r[m]) /\ w[k] = t
  BY <1>1, <1>2, <1>7
<1>9. ASSUME NEW m \in 1 .. k PROVE w[m] = row[m]
  <2>1. CASE m = k
    BY <1>8, <2>1 DEF t
  <2>2. CASE m # k
    <3>1. m \in 1 .. k - 1
      BY <1>1, <2>2
    <3> QED BY <1>7, <1>8, <3>1
  <2> QED BY <2>1, <2>2
<1> HIDE DEF w
<1>10. Matches(w, row)
  BY <1>8, <1>9 DEF Matches
<1>11. w = row
  BY <1>1, <1>8, <1>10, MatchEqual
<1> QED BY <1>3, <1>6, <1>11 DEF w, r

\* A line with a row in it.
IsLineAt(text, p, row) ==
  /\ row \in Rows /\ row # <<>> /\ IsBareRow(row) /\ p \in Nat
  /\ At(text, p, LineOf(row))

\* Where the k-th text of the row begins, F being the trace of its pieces.
TextAt(p, F, k) == p + Len(F[k - 1]) + Len(Separator(k))

\* Where the k-th text of a row lies in its line, and what is in front of it.
LEMMA PieceAt ==
  ASSUME NEW text \in Seq(Int), NEW p, NEW row, IsLineAt(text, p, row), NEW F,
         IsFlat(F, Pieces(row), Int), LineOf(row) = F[Len(row)], NEW k \in 1 .. Len(row)
  PROVE  LET a == p + Len(F[k - 1])
             b == a + Len(Separator(k))
         IN /\ a \in Nat /\ b \in Nat /\ b + Len(row[k]) = p + Len(F[k])
            /\ p + Len(F[k]) <= Len(text) /\ p <= a
            /\ \A j \in 1 .. Len(row[k]) : text[b + j] = row[k][j]
            /\ k # 1 => b = a + 1 /\ text[a + 1] = Comma
            /\ k = 1 => a = p /\ b = p
<1> DEFINE n == Len(row)  ps == Pieces(row)  sep == Separator(k)  t == row[k]
           a == p + Len(F[k - 1])  b == a + Len(sep)  line == LineOf(row)
<1>1. /\ row \in Rows /\ p \in Nat /\ At(text, p, line) /\ n \in Nat
  BY DEF IsLineAt, Rows
<1>2. /\ ps \in Seq(Seq(Int)) /\ Len(ps) = n /\ ps[k] = sep \o t
      /\ sep \in Seq(Int) /\ t \in Seq(Int)
  BY <1>1, PiecesType
<1>3. /\ At(F[n], Len(F[k - 1]), ps[k]) /\ Len(F[k]) = Len(F[k - 1]) + Len(ps[k])
  <2>1. IsFlat(F, ps, Int) /\ k \in 1 .. n
    OBVIOUS
  <2>2. F[Len(ps)] = F[n]
    BY <1>2
  <2> HIDE DEF ps, n
  <2>3. k \in 1 .. Len(ps)
    BY <1>2, <2>1
  <2>5. ps \in Seq(Seq(Int))
    BY <1>2
  <2>4. At(F[Len(ps)], Len(F[k - 1]), ps[k]) /\ Len(F[k]) = Len(F[k - 1]) + Len(ps[k])
    BY <2>1, <2>3, <2>5, FlatAt
  <2> QED BY <2>2, <2>4
<1>4. F \in [0 .. n -> Seq(Int)] /\ F[0] = <<>>
  BY <1>2 DEF IsFlat
<1>5. F[n] = line /\ k - 1 \in 0 .. n /\ k \in 0 .. n /\ n \in 0 .. n
  BY <1>1
<1>6. F[k - 1] \in Seq(Int) /\ F[k] \in Seq(Int) /\ line \in Seq(Int)
  BY <1>4, <1>5
<1> HIDE DEF n, ps, sep, t, line
<1> DEFINE f == Len(F[k - 1])  u == ps[k]
<1>7. f \in Nat /\ Len(F[k]) \in Nat
  BY <1>6
<1>8. /\ u \in Seq(Int) /\ Len(u) = Len(sep) + Len(t)
      /\ (\A j \in 1 .. Len(sep) : u[j] = sep[j])
      /\ \A j \in 1 .. Len(t) : u[Len(sep) + j] = t[j]
  <2>1. /\ u \in Seq(Int) /\ Len(u) = Len(sep) + Len(t)
        /\ \A j \in 1 .. Len(sep) + Len(t) :
             u[j] = IF j <= Len(sep) THEN sep[j] ELSE t[j - Len(sep)]
    BY <1>2, ConcatProperties
  <2>2. Len(sep) \in Nat /\ Len(t) \in Nat
    BY <1>2
  <2> HIDE DEF u
  <2>3. ASSUME NEW j \in 1 .. Len(t) PROVE u[Len(sep) + j] = t[j]
    <3>1. /\ Len(sep) + j \in 1 .. Len(sep) + Len(t) /\ ~(Len(sep) + j <= Len(sep))
          /\ (Len(sep) + j) - Len(sep) = j
      BY <2>2
    <3> QED BY <2>1, <3>1
  <2>4. ASSUME NEW j \in 1 .. Len(sep) PROVE u[j] = sep[j]
    BY <2>1, <2>2
  <2> QED BY <2>1, <2>3, <2>4
<1> HIDE DEF f, u
<1>9. At(line, f, u) /\ Len(F[k]) = f + Len(u)
  BY <1>3, <1>5 DEF f, u
<1>10. At(text, p + f, u)
  <2>1. At(text, p, line)
    BY <1>1
  <2> QED BY <1>6, <1>8, <1>9, <2>1, AtInner
<1>11. /\ p + f + Len(u) <= Len(text) /\ \A j \in 1 .. Len(u) : text[(p + f) + j] = u[j]
  BY <1>10 DEF At
<1>12. Len(sep) \in Nat /\ Len(t) \in Nat /\ a = p + f /\ b = (p + f) + Len(sep)
  BY <1>2 DEF f
<1> DEFINE ls == Len(sep)  lt == Len(t)  lu == Len(u)  fk == Len(F[k])  m == Len(text)
<1>17. /\ ls \in Nat /\ lt \in Nat /\ a = p + f /\ b = (p + f) + ls /\ lu = ls + lt
       /\ fk = f + lu /\ p + f + lu <= m /\ p \in Nat /\ f \in Nat /\ m \in Nat
  BY <1>1, <1>7, <1>8, <1>9, <1>11, <1>12
<1> HIDE DEF ls, lt, lu, fk, m, a, b
<1>13. ASSUME NEW j \in 1 .. Len(t) PROVE text[b + j] = t[j]
  <2>1. j \in 1 .. lt
    BY DEF lt
  <2>2. ls + j \in 1 .. lu /\ (p + f) + (ls + j) = b + j
    BY <1>17, <2>1
  <2> QED BY <1>8, <1>11, <2>2 DEF ls, lu
<1>14. /\ a \in Nat /\ b \in Nat /\ b + Len(t) = p + Len(F[k])
       /\ p + Len(F[k]) <= Len(text) /\ p <= a
  <2>1. a \in Nat /\ b \in Nat /\ b + lt = p + fk /\ p + fk <= m /\ p <= a
    BY <1>17
  <2> QED BY <2>1 DEF lt, fk, m
<1>15. ASSUME k # 1 PROVE b = a + 1 /\ text[a + 1] = Comma
  <2>1. sep = <<Comma>>
    BY <1>15 DEF sep, Separator
  <2>2. Len(sep) = 1 /\ sep[1] = Comma
    BY <2>1
  <2>3. 1 \in 1 .. Len(sep) /\ 1 \in 1 .. Len(u)
    BY <1>8, <1>12, <2>2
  <2> QED BY <1>8, <1>11, <1>12, <2>2, <2>3
<1>16. ASSUME k = 1 PROVE a = p /\ b = p
  <2>1. sep = <<>>
    BY <1>16 DEF sep, Separator
  <2>2. Len(sep) = 0 /\ f = 0
    BY <1>4, <1>16, <2>1 DEF f
  <2> QED BY <1>1, <1>12, <2>2
<1> QED BY <1>13, <1>14, <1>15, <1>16 DEF a, b, t, sep

\* F is the trace of the pieces of a row that lies in a text at p.
IsLaidAt(text, p, row, F) ==
  IsLineAt(text, p, row) /\ IsFlat(F, Pieces(row), Int) /\ LineOf(row) = F[Len(row)]

\* The scan U has taken j characters of the k-th text of the row.
HasScanned(U, p, row, F, k, j) == HasTaken(U[TextAt(p, F, k) + j], row, k, j)

\* A text of the row is taken character by character.
LEMMA ScanText ==
  ASSUME NEW text \in Seq(Int), NEW p, NEW row, NEW F, IsLaidAt(text, p, row, F),
         NEW U, IsScan(U, text, p), NEW k \in 1 .. Len(row), HasScanned(U, p, row, F, k, 0)
  PROVE  HasScanned(U, p, row, F, k, Len(row[k]))
<1> DEFINE a == p + Len(F[k - 1])  b == TextAt(p, F, k)  t == row[k]  lt == Len(t)  m == Len(text)
           fk == Len(F[k])
           P == {j \in 0 .. lt : HasScanned(U, p, row, F, k, j)}
<1>1. IsLineAt(text, p, row) /\ IsFlat(F, Pieces(row), Int) /\ LineOf(row) = F[Len(row)]
  BY DEF IsLaidAt
<1>2. /\ a \in Nat /\ b \in Nat /\ b + lt = p + fk /\ p + fk <= m /\ p <= a
      /\ (\A j \in 1 .. lt : text[b + j] = t[j])
      /\ (k # 1 => b = a + 1) /\ (k = 1 => b = p)
  BY <1>1, PieceAt DEF TextAt
<1>3. p \in Nat /\ row \in Rows /\ IsBareRow(row) /\ m \in Nat
  BY <1>1 DEF IsLineAt
<1>4. lt \in Nat
  BY <1>3 DEF Rows, Texts
<1>5. \A i \in p + 1 .. m : U[i] = TakeChar(text, U[i - 1], i)
  BY DEF IsScan
<1> HIDE DEF a, b, lt, m, fk, t
<1>6. b >= p /\ b + lt <= m
  <2>1. CASE k = 1
    BY <1>2, <1>3, <1>4, <2>1
  <2>2. CASE k # 1
    BY <1>2, <1>3, <1>4, <2>2
  <2> QED BY <2>1, <2>2
<1>7. 0 \in P
  BY <1>4
<1>8. ASSUME NEW j \in 0 .. lt - 1, j \in P PROVE j + 1 \in P
  <2> DEFINE i == b + (j + 1)
  <2>1. /\ i \in 1 .. m /\ i \in p + 1 .. m /\ i - 1 = b + j /\ j + 1 \in 1 .. lt
        /\ j + 1 \in 0 .. lt
    BY <1>2, <1>3, <1>4, <1>6
  <2>2. HasTaken(U[b + j], row, k, j)
    BY <1>8 DEF HasScanned, b
  <2>3. text[i] = t[j + 1]
    BY <1>2, <2>1
  <2> HIDE DEF i
  <2>4. IsNextChar(text, i, row, k, j)
    BY <2>3 DEF IsNextChar, t
  <2>5. U[i] = TakeChar(text, U[b + j], i)
    BY <1>5, <2>1
  <2>6. i \in 1 .. Len(text) /\ j \in 0 .. Len(row[k]) - 1
    BY <2>1 DEF m, lt, t
  <2>7. HasTaken(TakeChar(text, U[b + j], i), row, k, j + 1)
    BY <1>3, <2>2, <2>4, <2>6, TakeBare
  <2>8. HasTaken(U[b + (j + 1)], row, k, j + 1)
    BY <2>5, <2>7 DEF i
  <2> QED BY <2>1, <2>8 DEF HasScanned, b
<1> HIDE DEF P
<1>9. lt \in P
  <2>1. 0 .. lt \subseteq P
    BY <1>4, <1>7, <1>8, Induct, Numbers!UpTo
  <2> QED BY <1>4, <2>1
<1> QED BY <1>9 DEF P, lt, t

\* A comma leads from a text of the row to the next.
LEMMA ScanComma ==
  ASSUME NEW text \in Seq(Int), NEW p, NEW row, NEW F, IsLaidAt(text, p, row, F),
         NEW U, IsScan(U, text, p), NEW k \in 1 .. Len(row) - 1,
         HasScanned(U, p, row, F, k, Len(row[k]))
  PROVE  HasScanned(U, p, row, F, k + 1, 0)
<1> DEFINE a == p + Len(F[k])  b == TextAt(p, F, k + 1)  m == Len(text)  n == Len(row)
           t == row[k]  u == row[k + 1]
<1>1. IsLineAt(text, p, row) /\ IsFlat(F, Pieces(row), Int) /\ LineOf(row) = F[Len(row)]
  BY DEF IsLaidAt
<1>3. p \in Nat /\ row \in Rows /\ IsBareRow(row) /\ m \in Nat /\ n \in Nat
  BY <1>1 DEF IsLineAt, Rows
<1>4. \A i \in p + 1 .. m : U[i] = TakeChar(text, U[i - 1], i)
  BY DEF IsScan
<1>5. k + 1 \in 1 .. n /\ k \in 1 .. n /\ (k + 1) - 1 = k /\ k + 1 # 1
  BY <1>3
<1>6. TextAt(p, F, k) + Len(t) = a
  <2>1. k \in 1 .. Len(row)
    BY <1>5
  <2> QED BY <1>1, <2>1, PieceAt DEF TextAt
<1>7. /\ a \in Nat /\ b \in Nat /\ b + Len(u) = p + Len(F[k + 1])
      /\ p + Len(F[k + 1]) <= m /\ p <= a /\ b = a + 1 /\ text[a + 1] = Comma
  <2>1. k + 1 \in 1 .. Len(row)
    BY <1>5
  <2>2. PICK h : h = k + 1
    OBVIOUS
  <2>3. h \in 1 .. Len(row) /\ h - 1 = k /\ h # 1
    BY <1>5, <2>1, <2>2
  <2>4. LET d == p + Len(F[h - 1])
            e == TextAt(p, F, h)
        IN /\ d \in Nat /\ e \in Nat /\ e + Len(row[h]) = p + Len(F[h])
           /\ p + Len(F[h]) <= Len(text) /\ p <= d /\ e = d + 1 /\ text[d + 1] = Comma
    BY <1>1, <2>3, PieceAt DEF TextAt
  <2> QED BY <2>2, <2>3, <2>4
<1>8. Len(u) \in Nat
  BY <1>3, <1>5 DEF Rows, Texts
<1>9. HasTaken(U[a], row, k, Len(row[k]))
  BY <1>6 DEF HasScanned
<1> DEFINE lu == Len(u)  e == p + Len(F[k + 1])
<1>10. /\ lu \in Nat /\ a \in Nat /\ b \in Nat /\ b + lu = e /\ e <= m /\ p <= a /\ b = a + 1
       /\ text[b] = Comma /\ p \in Nat /\ m \in Nat
  BY <1>3, <1>7, <1>8
<1> HIDE DEF a, b, m, lu, e
<1>11. b \in p + 1 .. m /\ b \in 1 .. m /\ b - 1 = a
  BY <1>10
<1>12. U[b] = TakeChar(text, U[a], b)
  BY <1>4, <1>11
<1>13. b \in 1 .. Len(text) /\ k \in 1 .. Len(row)
  BY <1>5, <1>11 DEF m
<1>14. HasTaken(TakeChar(text, U[a], b), row, k + 1, 0)
  BY <1>3, <1>9, <1>10, <1>13, TakeComma
<1>15. b + 0 = b
  BY <1>10
<1>16. HasTaken(U[b + 0], row, k + 1, 0)
  BY <1>12, <1>14, <1>15
<1> QED BY <1>16 DEF HasScanned, b

\* At the end of the line its last text has been taken.
LEMMA ScanLine ==
  ASSUME NEW text \in Seq(Int), NEW p, NEW row, NEW F, IsLaidAt(text, p, row, F),
         NEW U, IsScan(U, text, p)
  PROVE  /\ HasTaken(U[p + Len(LineOf(row))], row, Len(row), Len(row[Len(row)]))
         /\ p \in Nat /\ Len(LineOf(row)) \in Nat /\ p + Len(LineOf(row)) <= Len(text)
<1> DEFINE n == Len(row)  P == {j \in 0 .. n - 1 : HasScanned(U, p, row, F, j + 1, 0)}
<1>1. IsLineAt(text, p, row) /\ IsFlat(F, Pieces(row), Int) /\ LineOf(row) = F[n]
  BY DEF IsLaidAt
<1>2. p \in Nat /\ row \in Rows /\ row # <<>>
  BY <1>1 DEF IsLineAt
<1>3. n \in Nat /\ n - 1 \in Nat /\ n \in 1 .. n /\ 1 \in 1 .. n /\ (n - 1) + 1 = n
  BY <1>2 DEF Rows
<1>4. 0 \in P
  <2>1. TextAt(p, F, 1) = p
    BY <1>1, <1>3, PieceAt DEF TextAt
  <2>2. U[p] = NoToken
    BY DEF IsScan
  <2>3. HasTaken(NoToken, row, 1, 0)
    BY DEF NoToken, HasTaken, Partial
  <2>4. p + 0 = p
    BY <1>2
  <2>5. HasScanned(U, p, row, F, 1, 0)
    BY <2>1, <2>2, <2>3, <2>4 DEF HasScanned
  <2>6. 0 + 1 = 1 /\ 0 \in 0 .. n - 1
    BY <1>3
  <2> QED BY <2>5, <2>6
<1>5. ASSUME NEW j \in 0 .. (n - 1) - 1, j \in P PROVE j + 1 \in P
  <2>1. HasScanned(U, p, row, F, j + 1, 0)
    BY <1>5
  <2>2. j + 1 \in 1 .. n /\ j + 1 \in 1 .. n - 1 /\ j + 1 \in 0 .. n - 1
    BY <1>3
  <2>3. HasScanned(U, p, row, F, j + 1, Len(row[j + 1]))
    BY <2>1, <2>2, ScanText
  <2>4. HasScanned(U, p, row, F, (j + 1) + 1, 0)
    BY <2>2, <2>3, ScanComma
  <2> QED BY <2>2, <2>4
<1> HIDE DEF P
<1>6. n - 1 \in P
  <2> DEFINE d == n - 1
  <2>1. d \in Nat /\ \A j \in 0 .. d - 1 : j \in P => j + 1 \in P
    BY <1>3, <1>5
  <2> HIDE DEF d
  <2>2. 0 .. d \subseteq P
    BY <1>4, <2>1, Induct, Numbers!UpTo
  <2>3. d \in P
    BY <2>1, <2>2
  <2> QED BY <2>3 DEF d
<1>7. HasScanned(U, p, row, F, n, 0)
  BY <1>3, <1>6 DEF P
<1>8. HasScanned(U, p, row, F, n, Len(row[n]))
  BY <1>3, <1>7, ScanText
<1>9. TextAt(p, F, n) + Len(row[n]) = p + Len(F[n]) /\ p + Len(F[n]) <= Len(text)
  BY <1>1, <1>3, PieceAt DEF TextAt
<1>10. Len(F[n]) \in Nat
  <2>1. Pieces(row) \in Seq(Seq(Int)) /\ Len(Pieces(row)) = n
    BY <1>2, PiecesType
  <2>2. F \in [0 .. n -> Seq(Int)]
    BY <1>1, <2>1 DEF IsFlat
  <2>3. n \in 0 .. n
    BY <1>3
  <2> QED BY <2>2, <2>3
<1> QED BY <1>1, <1>2, <1>8, <1>9, <1>10 DEF HasScanned

\* What the next record is found to be.
Found(row, q, at_end) == [record |-> row, position |-> q, eof |-> at_end]

\* At the end of the line of a row the reader has the row.
IsScanned(u, row) == u \in Partial /\ ~u.ended /\ ~u.in_quotes /\ ~u.skip /\ PushToken(u).record = row

\* Behind the line of a row the reader, whatever the text goes on with, holds
\* the row.
LEMMA LineScanned ==
  ASSUME NEW text \in Seq(Int), NEW p, NEW row, IsLineAt(text, p, row), NEW U, IsScan(U, text, p)
  PROVE  /\ IsScanned(U[p + Len(LineOf(row))], row)
         /\ p \in Nat /\ Len(LineOf(row)) \in Nat /\ p + Len(LineOf(row)) <= Len(text)
<1>1. row \in Rows /\ row # <<>>
  BY DEF IsLineAt
<1>2. PICK F : IsFlat(F, Pieces(row), Int) /\ LineOf(row) = F[Len(row)]
  BY <1>1, JoinedFlat
<1>3. IsLaidAt(text, p, row, F)
  BY <1>2 DEF IsLaidAt
<1> DEFINE u == U[p + Len(LineOf(row))]
<1>4. /\ HasTaken(u, row, Len(row), Len(row[Len(row)]))
      /\ p \in Nat /\ Len(LineOf(row)) \in Nat /\ p + Len(LineOf(row)) <= Len(text)
  BY <1>3, ScanLine
<1> HIDE DEF u
<1>5. PushToken(u).record = row /\ ~u.in_quotes /\ ~u.ended
  BY <1>1, <1>4, TakenRow
<1>6. u \in Partial /\ ~u.skip
  BY <1>4 DEF HasTaken
<1> QED BY <1>4, <1>5, <1>6 DEF IsScanned, u

\* The newline behind it ends the record.
LEMMA EndsLine ==
  ASSUME NEW text \in Seq(Int), NEW i \in 1 .. Len(text), text[i] = NewLine,
         NEW row, NEW u, IsScanned(u, row)
  PROVE  LET v == TakeChar(text, u, i)
         IN /\ v \in Partial /\ v.ended /\ ~v.in_quotes /\ v.position = i
            /\ PushToken(v).record = row
<1> DEFINE v == TakeChar(text, u, i)
<1>1. u \in Partial /\ ~u.ended /\ ~u.in_quotes /\ ~u.skip /\ PushToken(u).record = row
  BY DEF IsScanned
<1>2. v \in Partial /\ v.position = i
  BY <1>1, TakeCharType
<1>3. v = EndLine([u EXCEPT !.position = i])
  BY <1>1 DEF TakeChar, Quote, Comma, NewLine, Return, Partial
<1>4. v = [[u EXCEPT !.position = i] EXCEPT !.ended = TRUE]
  BY <1>1, <1>3 DEF EndLine, Partial
<1>5. v.ended /\ ~v.in_quotes /\ v.record = u.record /\ v.token = u.token
  BY <1>1, <1>4 DEF Partial
<1> HIDE DEF v
<1>6. PushToken(v).record = row
  BY <1>1, <1>2, <1>5, PushTokenType
<1> QED BY <1>2, <1>5, <1>6 DEF v

\* Unless the record has ended, the reader stands where the scan does.
LEMMA ScanType ==
  ASSUME NEW text \in Seq(Int), NEW p \in 0 .. Len(text), NEW U, IsScan(U, text, p),
         NEW i \in p + 1 .. Len(text), ~U[i].ended
  PROVE  U[i].position = i
<1> DEFINE n == Len(text)  d == n - p  P == {j \in 0 .. d : U[p + j] \in Partial}
<1>1. n \in Nat /\ p \in Nat /\ d \in Nat /\ p + d = n /\ p + 0 = p
  OBVIOUS
<1>2. U[p] = NoToken /\ \A k \in p + 1 .. n : U[k] = TakeChar(text, U[k - 1], k)
  BY DEF IsScan
<1>3. 0 \in P
  <2>1. NoToken \in Partial
    BY DEF NoToken, Partial
  <2> QED BY <1>1, <1>2, <2>1
<1>4. i \in p + 1 .. n
  OBVIOUS
<1> HIDE DEF n, d
<1>5. ASSUME NEW j \in 0 .. d - 1, j \in P PROVE j + 1 \in P
  <2> DEFINE k == p + (j + 1)
  <2>1. k \in p + 1 .. n /\ k \in 1 .. n /\ k - 1 = p + j /\ j + 1 \in 0 .. d
    BY <1>1
  <2>2. U[p + j] \in Partial
    BY <1>5
  <2> HIDE DEF k
  <2>3. U[k] = TakeChar(text, U[p + j], k)
    BY <1>2, <2>1
  <2>4. k \in 1 .. Len(text)
    BY <2>1 DEF n
  <2>5. U[k] \in Partial
    BY <2>2, <2>3, <2>4, TakeCharType
  <2> QED BY <2>1, <2>5 DEF k
<1> HIDE DEF P
<1>6. 0 .. d \subseteq P
  BY <1>1, <1>3, <1>5, Induct, Numbers!UpTo
<1>7. U[i - 1] \in Partial
  <2>1. (i - 1) - p \in 0 .. d /\ p + ((i - 1) - p) = i - 1
    BY <1>1, <1>4
  <2>2. (i - 1) - p \in P
    BY <1>6, <2>1
  <2> QED BY <2>1, <2>2 DEF P
<1>8. U[i] = TakeChar(text, U[i - 1], i)
  BY <1>2, <1>4
<1>9. i \in 1 .. Len(text)
  BY <1>1, <1>4 DEF n
<1> DEFINE x == U[i - 1]  y == U[i]
<1> HIDE DEF x, y
<1>10. y = TakeChar(text, x, i) /\ x \in Partial /\ ~y.ended
  BY <1>7, <1>8 DEF x, y
<1>11. ~x.ended
  BY <1>9, <1>10, TakeCharType
<1>12. y.position = i
  BY <1>9, <1>10, <1>11, TakeCharType
<1> QED BY <1>12 DEF y

\* A row whose line ends with a newline is the next record.
LEMMA NextLine ==
  ASSUME NEW text \in Seq(Int), NEW p, NEW row, IsLineAt(text, p, row),
         NEW q, q = p + Len(LineOf(row)), q < Len(text), text[q + 1] = NewLine
  PROVE  GetNextLineAndSplitIntoTokens(text, p) = Found(row, q + 1, FALSE)
<1> DEFINE n == Len(text)
<1>1. n \in Nat
  OBVIOUS
<1>2. p \in Nat
  BY DEF IsLineAt
<1>3. Len(LineOf(row)) \in Nat
  <2>1. row \in Rows
    BY DEF IsLineAt
  <2>2. PICK F : IsFlat(F, Pieces(row), Int) /\ LineOf(row) = F[Len(row)]
    BY <2>1, JoinedFlat
  <2>3. Len(Pieces(row)) = Len(row) /\ Len(row) \in Nat
    BY <2>1, PiecesType DEF Rows
  <2>4. F[Len(row)] \in Seq(Int)
    BY <2>2, <2>3 DEF IsFlat
  <2> QED BY <2>2, <2>4
<1>4. q \in Nat /\ p <= q /\ q + 1 \in 1 .. n /\ q + 1 \in p + 1 .. n /\ (q + 1) - 1 = q
      /\ p \in 0 .. n /\ p # n
  BY <1>1, <1>2, <1>3
<1> HIDE DEF n
<1>5. PICK U : IsScan(U, text, p) /\ GetNextLineAndSplitIntoTokens(text, p) = FoundBy(U, text, p)
  BY <1>4, ScanExists DEF n
<1>6. IsScanned(U[q], row)
  BY <1>5, LineScanned
<1>7. \A i \in p + 1 .. n : U[i] = TakeChar(text, U[i - 1], i)
  BY <1>5 DEF IsScan, n
<1> DEFINE v == U[q + 1]
<1>8. v = TakeChar(text, U[q], q + 1)
  BY <1>4, <1>7
<1>9. /\ v \in Partial /\ v.ended /\ ~v.in_quotes /\ v.position = q + 1
      /\ PushToken(v).record = row
  <2> HIDE DEF v
  <2>1. q + 1 \in 1 .. Len(text)
    BY <1>4 DEF n
  <2> QED BY <1>6, <1>8, <2>1, EndsLine
<1> DEFINE d == n - (q + 1)  P == {j \in 0 .. d : U[(q + 1) + j] = v}
<1>10. d \in Nat /\ (q + 1) + d = n /\ (q + 1) + 0 = q + 1
  BY <1>1, <1>4
<1>11. 0 \in P
  BY <1>10
<1>12. ASSUME NEW j \in 0 .. d - 1, j \in P PROVE j + 1 \in P
  <2> DEFINE i == (q + 1) + (j + 1)
  <2>1. i \in p + 1 .. n /\ i \in 1 .. n /\ i - 1 = (q + 1) + j /\ j + 1 \in 0 .. d
    BY <1>1, <1>2, <1>4, <1>10
  <2>2. U[i - 1] = v
    BY <1>12, <2>1
  <2> HIDE DEF i, v
  <2>3. U[i] = TakeChar(text, v, i)
    BY <1>7, <2>1, <2>2
  <2>4. i \in 1 .. Len(text)
    BY <2>1 DEF n
  <2>5. U[i] = v
    BY <1>9, <2>3, <2>4, TakeCharType
  <2> QED BY <2>1, <2>5 DEF i
<1> HIDE DEF P, d, v
<1>13. U[n] = v
  <2>1. 0 .. d \subseteq P
    BY <1>10, <1>11, <1>12, Induct, Numbers!UpTo
  <2>2. d \in P
    BY <1>10, <2>1
  <2> QED BY <1>10, <2>2 DEF P
<1>14. FoundBy(U, text, p) = [record |-> PushToken(v).record, position |-> v.position, eof |-> ~v.ended]
  BY <1>9, <1>13 DEF FoundBy, n
<1> QED BY <1>5, <1>9, <1>14 DEF Found

\* A row whose line is the rest of the text is the last record, unless nothing
\* is left for it.
LEMMA LastLine ==
  ASSUME NEW text \in Seq(Int), NEW p, NEW row, IsLineAt(text, p, row),
         p < Len(text), p + Len(LineOf(row)) = Len(text)
  PROVE  GetNextLineAndSplitIntoTokens(text, p) = Found(row, Len(text), TRUE)
<1> DEFINE n == Len(text)
<1>1. n \in Nat /\ p \in Nat
  BY DEF IsLineAt
<1>2. p \in 0 .. n /\ p # n /\ n \in p + 1 .. n /\ n \in 1 .. n /\ p \in 0 .. Len(text)
  BY <1>1
<1> HIDE DEF n
<1>3. PICK U : IsScan(U, text, p) /\ GetNextLineAndSplitIntoTokens(text, p) = FoundBy(U, text, p)
  BY <1>2, ScanExists DEF n
<1> DEFINE u == U[n]
<1>4. IsScanned(u, row)
  <2>1. IsScanned(U[p + Len(LineOf(row))], row)
    BY <1>3, LineScanned
  <2> QED BY <2>1 DEF n
<1>5. u \in Partial /\ ~u.ended /\ ~u.in_quotes /\ PushToken(u).record = row
  BY <1>4 DEF IsScanned
<1>6. u.position = n
  <2>1. n \in p + 1 .. Len(text)
    BY <1>2 DEF n
  <2> HIDE DEF n
  <2> QED BY <1>2, <1>3, <1>5, <2>1, ScanType
<1> HIDE DEF u
<1>7. FoundBy(U, text, p) = [record |-> PushToken(u).record, position |-> u.position, eof |-> ~u.ended]
  BY <1>5 DEF FoundBy, n, u
<1> QED BY <1>3, <1>5, <1>6, <1>7 DEF Found, n

\* The line of a row from p on and the newline behind it, up to q.
IsEndedLine(text, p, row, q) ==
  /\ IsLineAt(text, p, row)
  /\ q = p + Len(LineOf(row)) + 1 /\ q <= Len(text) /\ text[q] = NewLine

\* The line of a row is what is left of the text.
IsLastLine(text, p, row) ==
  /\ IsLineAt(text, p, row)
  /\ p < Len(text) /\ p + Len(LineOf(row)) = Len(text)

\* A text that consists of the lines of these rows, P being where each ends.
IsListing(text, rows, P) ==
  /\ rows \in Seq(Rows) /\ P[0] = 0 /\ P[Len(rows)] = Len(text)
  /\ \A k \in 1 .. Len(rows) :
       \/ IsEndedLine(text, P[k - 1], rows[k], P[k])
       \/ k = Len(rows) /\ IsLastLine(text, P[k - 1], rows[k])

\* The first k rows have been read, or all.
HasListed(text, rows, P, k) ==
  /\ k <= Len(Records(text)) /\ \A j \in 1 .. k : Records(text)[j] = rows[j]
  /\ \/ Unread(text, k, P[k])
     \/ k = Len(rows) /\ Len(Records(text)) = k

\* From one row of a listing the reader comes to the next.
LEMMA ListNext ==
  ASSUME NEW text \in Seq(Int), NEW rows, NEW P, IsListing(text, rows, P),
         NEW k \in 1 .. Len(rows), HasListed(text, rows, P, k - 1)
  PROVE  HasListed(text, rows, P, k)
<1> DEFINE R == Records(text)  row == rows[k]  N == Len(rows)
<1>a. PICK p : p = P[k - 1]
  OBVIOUS
<1>b. PICK q : q = P[k]
  OBVIOUS
<1>c. PICK next : next = GetNextLineAndSplitIntoTokens(text, p)
  OBVIOUS
<1>1. /\ rows \in Seq(Rows) /\ N \in Nat
      /\ IsEndedLine(text, p, row, q) \/ (k = N /\ IsLastLine(text, p, row))
  BY <1>a, <1>b DEF IsListing
<1>2. (k - 1) + 1 = k /\ k - 1 # N /\ k \in Nat
  BY <1>1
<1>3. Unread(text, k - 1, p) /\ \A j \in 1 .. k - 1 : R[j] = rows[j]
  BY <1>2, <1>a DEF HasListed
<1>4. /\ next.record # <<>> =>
           /\ (k - 1) + 1 <= Len(R) /\ next.record = R[(k - 1) + 1]
           /\ IF next.eof THEN Len(R) = (k - 1) + 1
                          ELSE Unread(text, (k - 1) + 1, next.position)
  BY <1>3, <1>c, NextUnread
<1> HIDE DEF R, N, row
<1>5. next.record # <<>> =>
        /\ k <= Len(R) /\ next.record = R[k]
        /\ IF next.eof THEN Len(R) = k ELSE Unread(text, k, next.position)
  BY <1>2, <1>4
<1>6. ASSUME next.record = row, row # <<>>
      PROVE  k <= Len(R) /\ \A j \in 1 .. k : R[j] = rows[j]
  <2>1. R[k] = rows[k] /\ k <= Len(R)
    BY <1>5, <1>6 DEF row
  <2>2. \A j \in 1 .. k : j = k \/ j \in 1 .. k - 1
    BY <1>2
  <2> QED BY <1>3, <2>1, <2>2
<1>7. CASE IsEndedLine(text, p, row, q)
  <2>1. /\ IsLineAt(text, p, row) /\ q = p + Len(LineOf(row)) + 1 /\ q <= Len(text)
        /\ text[q] = NewLine /\ row # <<>> /\ p \in Nat
    BY <1>7 DEF IsEndedLine, IsLineAt
  <2>2. PICK e : e = p + Len(LineOf(row))
    OBVIOUS
  <2>3. Len(LineOf(row)) \in Nat /\ Len(text) \in Nat
    <3>1. p \in 0 .. Len(text)
      BY <1>3, <1>c, NextUnread
    <3>2. PICK U : IsScan(U, text, p)
      BY <3>1, ScanExists
    <3> QED BY <2>1, <3>2, LineScanned
  <2>4. e + 1 = q /\ e < Len(text) /\ text[e + 1] = NewLine
    BY <2>1, <2>2, <2>3
  <2>5. next = Found(row, e + 1, FALSE)
    BY <1>c, <2>1, <2>2, <2>4, NextLine
  <2>6. next.record = row /\ next.position = q /\ next.eof = FALSE
    BY <2>4, <2>5 DEF Found
  <2>7. k <= Len(R) /\ \A j \in 1 .. k : R[j] = rows[j]
    BY <1>6, <2>1, <2>6
  <2>8. Unread(text, k, P[k])
    BY <1>5, <1>b, <2>1, <2>6
  <2> QED BY <2>7, <2>8 DEF HasListed, R
<1>8. CASE k = N /\ IsLastLine(text, p, row)
  <2>1. /\ IsLineAt(text, p, row) /\ p < Len(text) /\ p + Len(LineOf(row)) = Len(text)
        /\ row # <<>>
    BY <1>8 DEF IsLastLine, IsLineAt
  <2>2. next = Found(row, Len(text), TRUE)
    BY <1>c, <2>1, LastLine
  <2>3. next.record = row /\ next.eof = TRUE
    BY <2>2 DEF Found
  <2>4. k <= Len(R) /\ \A j \in 1 .. k : R[j] = rows[j]
    BY <1>6, <2>1, <2>3
  <2>5. Len(R) = k
    BY <1>5, <2>1, <2>3
  <2> QED BY <1>8, <2>4, <2>5 DEF HasListed, R, N
<1> QED BY <1>1, <1>7, <1>8

\* The records of a text that consists of the lines of rows are these rows.
LEMMA ListingRead ==
  ASSUME NEW text \in Seq(Int), NEW rows, NEW P, IsListing(text, rows, P)
  PROVE  Records(text) = rows
<1> DEFINE R == Records(text)  N == Len(rows)
           Q == {k \in 0 .. N : HasListed(text, rows, P, k)}
<1>1. rows \in Seq(Rows) /\ N \in Nat /\ P[0] = 0 /\ P[N] = Len(text)
  BY DEF IsListing
<1>2. R \in Seq(Rows) /\ Len(R) \in Nat
  <2>1. 0 \in 0 .. Len(text)
    OBVIOUS
  <2>2. R \in Seq(Rows)
    BY <2>1, LinesGrow
  <2> QED BY <2>2
<1> HIDE DEF R, N
<1>3. 0 \in Q
  <2>1. Unread(text, 0, P[0])
    BY <1>1, FirstUnread
  <2>2. 0 <= Len(Records(text)) /\ \A j \in 1 .. 0 : Records(text)[j] = rows[j]
    BY <1>2 DEF R
  <2>3. HasListed(text, rows, P, 0)
    BY <2>1, <2>2 DEF HasListed
  <2> QED BY <1>1, <2>3
<1>4. ASSUME NEW k \in 0 .. N - 1, k \in Q PROVE k + 1 \in Q
  <2>1. k + 1 \in 1 .. N /\ (k + 1) - 1 = k /\ k + 1 \in 0 .. N
    BY <1>1
  <2>2. HasListed(text, rows, P, (k + 1) - 1)
    BY <1>4, <2>1
  <2>3. k + 1 \in 1 .. Len(rows)
    BY <2>1 DEF N
  <2>4. HasListed(text, rows, P, k + 1)
    BY <2>2, <2>3, ListNext
  <2> QED BY <2>1, <2>4
<1> HIDE DEF Q
<1>5. HasListed(text, rows, P, N)
  <2>1. 0 .. N \subseteq Q
    BY <1>1, <1>3, <1>4, Induct, Numbers!UpTo
  <2>2. N \in Q
    BY <1>1, <2>1
  <2> QED BY <2>2 DEF Q
<1>6. (\A j \in 1 .. N : R[j] = rows[j]) /\ (Unread(text, N, P[N]) \/ Len(R) = N)
  BY <1>5 DEF HasListed, R
<1>7. Len(R) = N
  <2>1. CASE Unread(text, N, P[N])
    <3>a. PICK p : p = P[N]
      OBVIOUS
    <3>b. PICK next : next = GetNextLineAndSplitIntoTokens(text, p)
      OBVIOUS
    <3>1. Unread(text, N, p) /\ p = Len(text)
      BY <1>1, <2>1, <3>a
    <3>2. next.record = <<>>
      BY <3>b, <3>1 DEF GetNextLineAndSplitIntoTokens
    <3> QED BY <3>b, <3>1, <3>2, NextUnread DEF R
  <2> QED BY <1>6, <2>1
<1>8. Matches(R, rows)
  BY <1>6, <1>7 DEF Matches, N
<1> QED BY <1>1, <1>2, <1>8, MatchEqual DEF R

\* A line is a text.
LEMMA LineType ==
  ASSUME NEW row \in Rows
  PROVE  LineOf(row) \in Seq(Int)
<1>1. PICK F : IsFlat(F, Pieces(row), Int) /\ LineOf(row) = F[Len(row)]
  BY JoinedFlat
<1>2. Len(Pieces(row)) = Len(row) /\ Len(row) \in Nat
  BY PiecesType DEF Rows
<1> QED BY <1>1, <1>2 DEF IsFlat

\* Only the line of one empty text is empty.
LEMMA LineIsEmpty ==
  ASSUME NEW row \in Rows, row # <<>>, Len(LineOf(row)) = 0
  PROVE  row = << <<>> >>
<1> DEFINE n == Len(row)  ps == Pieces(row)
<1>1. PICK F : IsFlat(F, ps, Int) /\ LineOf(row) = F[n]
  BY JoinedFlat
<1>2. /\ ps \in Seq(Seq(Int)) /\ Len(ps) = n
      /\ \A k \in 1 .. n : /\ ps[k] = Separator(k) \o row[k]
                           /\ Separator(k) \in Seq(Int) /\ row[k] \in Seq(Int)
  BY PiecesType
<1>3. n \in Nat /\ n # 0 /\ row \in Seq(Texts)
  BY DEF Rows
<1> HIDE DEF n, ps
<1>4. n \in 1 .. Len(ps) /\ n \in 0 .. n /\ n - 1 \in 0 .. n /\ n \in 1 .. n
  BY <1>2, <1>3
<1>5. Len(F[n]) = Len(F[n - 1]) + Len(ps[n])
  <2>1. IsFlat(F, ps, Int) /\ ps \in Seq(Seq(Int)) /\ n \in 1 .. Len(ps)
    BY <1>1, <1>2, <1>4
  <2> QED BY <2>1, FlatAt
<1>6. F[n - 1] \in Seq(Int) /\ ps[n] \in Seq(Int)
  BY <1>1, <1>2, <1>4 DEF IsFlat
<1>7. Len(ps[n]) = 0
  <2> DEFINE x == Len(F[n - 1])  y == Len(ps[n])
  <2>1. 0 = x + y
    BY <1>1, <1>5
  <2>2. x \in Nat /\ y \in Nat
    BY <1>6
  <2> HIDE DEF x, y
  <2>3. y = 0
    BY <2>1, <2>2
  <2> QED BY <2>3 DEF y
<1>8. Len(Separator(n)) = 0 /\ Len(row[n]) = 0
  <2>1. ps[n] = Separator(n) \o row[n] /\ Separator(n) \in Seq(Int) /\ row[n] \in Seq(Int)
    BY <1>2, <1>4
  <2>2. Len(ps[n]) = Len(Separator(n)) + Len(row[n])
    BY <2>1, ConcatProperties
  <2>3. Len(Separator(n)) \in Nat /\ Len(row[n]) \in Nat
    BY <2>1
  <2> QED BY <1>7, <2>2, <2>3
<1>9. n = 1
  <2>1. CASE n # 1
    <3>1. Separator(n) = <<Comma>>
      BY <2>1 DEF Separator
    <3>2. Len(Separator(n)) = 1
      BY <3>1
    <3> QED BY <1>8, <3>2
  <2> QED BY <2>1
<1>10. row[1] = <<>>
  <2>1. row[1] \in Seq(Int) /\ Len(row[1]) = 0
    BY <1>2, <1>4, <1>8, <1>9
  <2> QED BY <2>1, EmptySeq
<1>11. Matches(row, << <<>> >>)
  BY <1>9, <1>10 DEF Matches, n
<1>12. << <<>> >> \in Seq(Texts)
  <2>1. <<>> \in Texts
    BY DEF Texts
  <2> QED BY <2>1
<1> QED BY <1>3, <1>11, <1>12, MatchEqual

\* The lines of some rows, each with a newline, which the last one may lack.
AreLines(lines, rows) ==
  /\ rows \in Seq(Rows) /\ lines \in Seq(Seq(Int)) /\ Len(lines) = Len(rows)
  /\ \A k \in 1 .. Len(rows) :
       /\ rows[k] # <<>> /\ IsBareRow(rows[k])
       /\ \/ lines[k] = LineOf(rows[k]) \o <<NewLine>>
          \/ k = Len(rows) /\ lines[k] = LineOf(rows[k]) /\ rows[k] # << <<>> >>

\* One behind the other they make a listing.
LEMMA LinesListed ==
  ASSUME NEW lines, NEW rows, AreLines(lines, rows), NEW F, IsFlat(F, lines, Int)
  PROVE  /\ F[Len(rows)] \in Seq(Int)
         /\ IsListing(F[Len(rows)], rows, [k \in 0 .. Len(rows) |-> Len(F[k])])
<1> DEFINE N == Len(rows)  text == F[N]  P == [k \in 0 .. N |-> Len(F[k])]
<1>1. /\ rows \in Seq(Rows) /\ lines \in Seq(Seq(Int)) /\ Len(lines) = N /\ N \in Nat
      /\ \A k \in 1 .. N :
           /\ rows[k] # <<>> /\ IsBareRow(rows[k])
           /\ \/ lines[k] = LineOf(rows[k]) \o <<NewLine>>
              \/ k = N /\ lines[k] = LineOf(rows[k]) /\ rows[k] # << <<>> >>
  <2>1. rows \in Seq(Rows) /\ lines \in Seq(Seq(Int)) /\ Len(lines) = N
    BY DEF AreLines
  <2>2. N \in Nat
    BY <2>1
  <2>3. \A k \in 1 .. N :
           /\ rows[k] # <<>> /\ IsBareRow(rows[k])
           /\ \/ lines[k] = LineOf(rows[k]) \o <<NewLine>>
              \/ k = N /\ lines[k] = LineOf(rows[k]) /\ rows[k] # << <<>> >>
    BY DEF AreLines
  <2> QED BY <2>1, <2>2, <2>3
<1> HIDE DEF N
<1>2. F \in [0 .. N -> Seq(Int)] /\ F[0] = <<>>
  BY <1>1 DEF IsFlat
<1>3. 0 \in 0 .. N /\ N \in 0 .. N
  BY <1>1
<1>4. text \in Seq(Int) /\ P[0] = 0 /\ P[N] = Len(text)
  BY <1>2, <1>3
<1>5. ASSUME NEW k \in 1 .. N
      PROVE  \/ IsEndedLine(text, P[k - 1], rows[k], P[k])
             \/ k = N /\ IsLastLine(text, P[k - 1], rows[k])
  <2> DEFINE row == rows[k]  line == LineOf(row)  u == lines[k]
  <2>a. PICK p : p = P[k - 1]
    OBVIOUS
  <2>b. PICK q : q = P[k]
    OBVIOUS
  <2>1. k - 1 \in 0 .. N /\ k \in 0 .. N /\ k \in 1 .. Len(lines)
    BY <1>1
  <2>2. p = Len(F[k - 1]) /\ q = Len(F[k]) /\ p \in Nat /\ q \in Nat
    BY <1>2, <2>1, <2>a, <2>b
  <2> HIDE DEF P
  <2>3. At(text, p, u) /\ q = p + Len(u)
    <3>1. At(F[Len(lines)], Len(F[k - 1]), lines[k])
          /\ Len(F[k]) = Len(F[k - 1]) + Len(lines[k])
      <4>1. lines \in Seq(Seq(Int)) /\ k \in 1 .. Len(lines)
        BY <1>1, <2>1
      <4> QED BY <4>1, FlatAt
    <3> QED BY <1>1, <2>2, <3>1
  <2>4. row \in Rows /\ row # <<>> /\ IsBareRow(row)
    <3>1. k \in 1 .. Len(rows)
      BY DEF N
    <3>2. row \in Rows
      BY <1>1, <3>1, ElementOfSeq
    <3> QED BY <1>1, <3>2
  <2>5. line \in Seq(Int) /\ Len(line) \in Nat
    BY <2>4, LineType
  <2> HIDE DEF line, row, text
  <2>6. CASE u = line \o <<NewLine>>
    <3>1. NewLine \in Int /\ <<NewLine>> \in Seq(Int) /\ Len(<<NewLine>>) = 1
      BY Specials
    <3>2. /\ Len(u) = Len(line) + 1 /\ (\A j \in 1 .. Len(line) : u[j] = line[j])
          /\ u[Len(line) + 1] = NewLine
      <4> DEFINE m == Len(line)  z == <<NewLine>>
      <4>1. /\ Len(u) = m + Len(z)
            /\ \A j \in 1 .. m + Len(z) : u[j] = IF j <= m THEN line[j] ELSE z[j - m]
        BY <2>5, <2>6, <3>1, ConcatProperties
      <4>2. m \in Nat /\ Len(z) = 1 /\ z[1] = NewLine
        BY <2>5, <3>1
      <4> HIDE DEF m, z, u
      <4>3. (m + 1) - m = 1 /\ m + 1 \in 1 .. m + Len(z) /\ ~(m + 1 <= m)
        BY <4>2
      <4>4. u[m + 1] = NewLine
        BY <4>1, <4>2, <4>3
      <4>5. Len(u) = m + 1 /\ \A j \in 1 .. m : u[j] = line[j]
        BY <4>1, <4>2
      <4> QED BY <4>4, <4>5 DEF m
    <3> HIDE DEF u
    <3>3. /\ p + Len(u) <= Len(text) /\ \A j \in 1 .. Len(u) : text[p + j] = u[j]
      BY <2>3 DEF At
    <3>4. Len(text) \in Nat
      BY <1>4 DEF text
    <3> DEFINE m == Len(line)
    <3>5. q = p + m + 1 /\ q <= Len(text) /\ p + m <= Len(text) /\ p + (m + 1) = q
          /\ m + 1 \in 1 .. Len(u) /\ 1 .. m \subseteq 1 .. Len(u)
      <4> DEFINE x == Len(u)  y == Len(text)
      <4>1. q = p + x /\ x = m + 1 /\ p + x <= y /\ m \in Nat /\ y \in Nat /\ p \in Nat
        BY <2>2, <2>3, <2>5, <3>2, <3>3, <3>4
      <4> HIDE DEF x, y, m
      <4>2. q = p + m + 1 /\ q <= y /\ p + m <= y /\ p + (m + 1) = q
            /\ m + 1 \in 1 .. x /\ 1 .. m \subseteq 1 .. x
        BY <4>1
      <4> QED BY <4>2 DEF x, y
    <3>6. text[q] = NewLine /\ \A j \in 1 .. m : text[p + j] = line[j]
      BY <3>2, <3>3, <3>5
    <3>7. At(text, p, line)
      BY <2>2, <3>5, <3>6 DEF At
    <3>8. IsLineAt(text, p, row)
      BY <2>2, <2>4, <3>7 DEF IsLineAt, line
    <3>9. IsEndedLine(text, p, row, q)
      BY <3>5, <3>6, <3>8 DEF IsEndedLine, line
    <3> QED BY <2>a, <2>b, <3>9 DEF row
  <2>7. CASE k = N /\ u = line /\ row # << <<>> >>
    <3>1. IsLineAt(text, p, row)
      BY <2>2, <2>3, <2>4, <2>7 DEF IsLineAt, line
    <3>2. Len(line) # 0
      BY <2>4, <2>7, LineIsEmpty DEF line
    <3>3. Len(text) = q
      BY <2>2, <2>7 DEF text
    <3> DEFINE m == Len(line)  y == Len(text)
    <3>6. y = q /\ q = p + m /\ m \in Nat /\ m # 0 /\ p \in Nat
      BY <2>2, <2>3, <2>5, <2>7, <3>2, <3>3
    <3> HIDE DEF m, y
    <3>7. p < y /\ p + m = y
      BY <3>6
    <3>4. p < Len(text) /\ p + Len(line) = Len(text)
      BY <3>7 DEF m, y
    <3>5. IsLastLine(text, p, row)
      BY <3>1, <3>4 DEF IsLastLine, line
    <3> QED BY <2>7, <2>a, <3>5 DEF row
  <2>8. u = line \o <<NewLine>> \/ (k = N /\ u = line /\ row # << <<>> >>)
    BY <1>1 DEF line, row
  <2> QED BY <2>6, <2>7, <2>8 DEF text, row
<1> HIDE DEF P, text
<1>6. IsListing(text, rows, P)
  BY <1>1, <1>4, <1>5 DEF IsListing, N
<1> QED BY <1>4, <1>6 DEF P, text, N

-----------------------------------------------------------------------------
\* The export of a table.

\* The texts tt lie at p among the texts ss, F and D being their traces.
ArePart(ss, tt, F, D, p) ==
  /\ ss \in Seq(Seq(Int)) /\ tt \in Seq(Seq(Int)) /\ At(ss, p, tt)
  /\ IsFlat(F, ss, Int) /\ IsFlat(D, tt, Int)

\* The concatenation of tt leads F from p to behind them.
AreJoined(tt, F, D, p) == F[p] \o D[Len(tt)] = F[p + Len(tt)]

\* A part of a sequence of texts, concatenated, is that part of the whole.
LEMMA FlatJoin ==
  ASSUME NEW ss, NEW tt, NEW F, NEW D, NEW p, ArePart(ss, tt, F, D, p)
  PROVE  AreJoined(tt, F, D, p)
<1> DEFINE m == Len(tt)  n == Len(ss)  P == {r \in 0 .. m : F[p] \o D[r] = F[p + r]}
<1>0. /\ ss \in Seq(Seq(Int)) /\ tt \in Seq(Seq(Int)) /\ At(ss, p, tt)
      /\ IsFlat(F, ss, Int) /\ IsFlat(D, tt, Int)
  BY DEF ArePart
<1>1. m \in Nat /\ n \in Nat /\ p \in Nat /\ p + m <= n /\ \A j \in 1 .. m : ss[p + j] = tt[j]
  BY <1>0 DEF At
<1>2. F \in [0 .. n -> Seq(Int)] /\ \A i \in 1 .. n : F[i] = F[i - 1] \o ss[i]
  BY <1>0 DEF IsFlat
<1>3. D \in [0 .. m -> Seq(Int)] /\ D[0] = <<>> /\ \A i \in 1 .. m : D[i] = D[i - 1] \o tt[i]
  BY <1>0 DEF IsFlat
<1>4. \A i \in 1 .. m : tt[i] \in Seq(Int)
  BY <1>0, ElementOfSeq
<1> HIDE DEF m, n
<1>5. F[p] \in Seq(Int)
  <2>1. p \in 0 .. n
    BY <1>1
  <2> QED BY <1>2, <2>1
<1>6. 0 \in P
  <2>1. F[p] \o <<>> = F[p] /\ p + 0 = p
    BY <1>1, <1>5, ConcatEmptySeq
  <2>2. F[p] \o D[0] = F[p + 0]
    BY <1>3, <2>1
  <2>3. 0 \in 0 .. m
    BY <1>1
  <2> QED BY <2>2, <2>3
<1>7. ASSUME NEW r \in 0 .. m - 1, r \in P PROVE r + 1 \in P
  <2>1. /\ r + 1 \in 1 .. m /\ (r + 1) - 1 = r /\ r + 1 \in 0 .. m /\ r \in 0 .. m
        /\ p + (r + 1) \in 1 .. n /\ (p + (r + 1)) - 1 = p + r
    BY <1>1
  <2> DEFINE a == F[p]  b == D[r]  c == tt[r + 1]
  <2>2. D[r + 1] = b \o c
    BY <1>3, <2>1
  <2>3. F[p + (r + 1)] = F[p + r] \o ss[p + (r + 1)] /\ ss[p + (r + 1)] = c
    BY <1>1, <1>2, <2>1
  <2>4. F[p + r] = a \o b
    BY <1>7
  <2>5. a \in Seq(Int) /\ b \in Seq(Int) /\ c \in Seq(Int)
    BY <1>3, <1>4, <1>5, <2>1
  <2> HIDE DEF a, b, c
  <2>6. (a \o b) \o c = a \o (b \o c)
    BY <2>5, Associative
  <2>7. a \o D[r + 1] = F[p + (r + 1)]
    BY <2>2, <2>3, <2>4, <2>6
  <2> QED BY <2>1, <2>7 DEF a
<1> HIDE DEF P
<1>8. m \in P
  <2>1. 0 .. m \subseteq P
    BY <1>1, <1>6, <1>7, Induct, Numbers!UpTo
  <2> QED BY <1>1, <2>1
<1> QED BY <1>8 DEF P, m, AreJoined

\* The texts of a row of the source.
TextsOf(k) == [c \in 1 .. ColumnNum |-> CellAsString(Types[c], Typed(c, k))]

\* A row as text is the line of its texts.
LEMMA RowWritten ==
  ASSUME NEW cut, IsReadTable(cut), NEW b \in 1 .. BatchCount, NEW r \in 1 .. RowCount(b)
  PROVE  /\ RowAsString(b, r) = LineOf(TextsOf(cut[b - 1] + r))
         /\ TextsOf(cut[b - 1] + r) \in Rows /\ Len(TextsOf(cut[b - 1] + r)) = ColumnNum
         /\ cut[b - 1] + r \in cut[b - 1] + 1 .. cut[b]
<1>a. PICK lo : lo = cut[b - 1]
  OBVIOUS
<1>b. PICK hi : hi = cut[b]
  OBVIOUS
<1>c. PICK C : C = Len(source.types)
  OBVIOUS
<1> DEFINE k == lo + r
<1>1. IsReadGroup(b, lo, hi) /\ metadata.types = source.types
  BY <1>a, <1>b DEF IsReadTable
<1>2. /\ AreRows(source, lo, hi) /\ RowCount(b) = hi - lo
      /\ \A c \in 1 .. C : Decode(source.types[c], GetColumnData(b, c)) = CellsOf(source, lo, hi, c)
  BY <1>1, <1>c DEF IsReadGroup
<1>3. /\ IsSource(source) /\ DatesFit(source) /\ lo \in Nat /\ hi \in Nat
      /\ \A i \in lo + 1 .. hi : Parsed(source, i)
  BY <1>2 DEF AreRows
<1>4. r \in 1 .. hi - lo /\ k \in lo + 1 .. hi
  <2>1. r \in 1 .. hi - lo
    BY <1>2
  <2> QED BY <1>3, <2>1
<1>5. C \in Nat /\ ColumnNum = C
  BY <1>3, <1>c DEF IsSource, ColumnNum, Types
<1>6. ASSUME NEW c \in 1 .. C
      PROVE  /\ Decode(metadata.types[c], GetColumnData(b, c))[r] = Typed(c, k)
             /\ CellAsString(Types[c], Typed(c, k)) \in Texts
  <2>1. c \in 1 .. Len(source.types)
    BY <1>c
  <2> HIDE DEF k
  <2>2. Decode(metadata.types[c], GetColumnData(b, c)) = CellsOf(source, lo, hi, c)
    BY <1>1, <1>2
  <2>3. CellsOf(source, lo, hi, c)[r] = Cell(source, c, k)
    BY <1>2, <1>4, <2>1, CellsAre DEF k
  <2>4. Cell(source, c, k) = Typed(c, k)
    BY DEF Cell, Typed, Types
  <2>5. source.types[c] \in Type /\ Cell(source, c, k) \in Value(source.types[c])
    <3>1. Parsed(source, k)
      BY <1>3, <1>4
    <3> QED BY <1>3, <2>1, <3>1, CellValue
  <2>6. CellAsString(Types[c], Typed(c, k)) \in Texts
    <3>a. PICK type : type = source.types[c]
      OBVIOUS
    <3>b. PICK v : v = Typed(c, k)
      OBVIOUS
    <3>1. type \in Type /\ v \in Value(type)
      BY <2>4, <2>5, <3>a, <3>b
    <3>2. CASE type = "String"
      <4>1. v \in Texts
        BY <3>1, <3>2 DEF Value, Texts, IntType, DateType
      <4> QED BY <3>2, <3>a, <3>b, <4>1 DEF CellAsString, Types
    <3>3. CASE type # "String"
      <4>1. v \in Int
        <5>1. CASE type \in IntType \cup DateType
          <6>1. Value(type) = Low[type] .. High[type]
            BY <3>3, <5>1 DEF Value, IntType, DateType
          <6>2. Low[type] \in Int /\ High[type] \in Int
            BY <5>1, TypeFacts
          <6> QED BY <3>1, <6>1, <6>2
        <5>2. CASE type \notin IntType \cup DateType
          BY <3>1, <3>3, <5>2 DEF Value, Type
        <5> QED BY <5>1, <5>2
      <4>2. <<v>> \in Texts
        BY <4>1 DEF Texts
      <4> QED BY <3>3, <3>a, <3>b, <4>2 DEF CellAsString, Types
    <3> QED BY <3>2, <3>3
  <2> QED BY <2>2, <2>3, <2>4, <2>6
<1>7. RowAsString(b, r) = LineOf(TextsOf(k))
  <2> HIDE DEF k
  <2>1. [c \in 1 .. C |-> CellAsString(metadata.types[c],
                            Decode(metadata.types[c], GetColumnData(b, c))[r])]
          = [c \in 1 .. C |-> CellAsString(Types[c], Typed(c, k))]
    <3>1. \A c \in 1 .. C :
            CellAsString(metadata.types[c], Decode(metadata.types[c], GetColumnData(b, c))[r])
              = CellAsString(Types[c], Typed(c, k))
      BY <1>1, <1>6 DEF Types
    <3> QED BY <3>1
  <2> QED BY <1>5, <2>1 DEF RowAsString, LineOf, TextsOf
<1>8. TextsOf(k) \in Rows /\ Len(TextsOf(k)) = ColumnNum
  <2> HIDE DEF k
  <2>1. TextsOf(k) \in [1 .. C -> Texts]
    BY <1>5, <1>6 DEF TextsOf
  <2> QED BY <1>5, <2>1, SeqOfFunction DEF Rows
<1> QED BY <1>4, <1>7, <1>8, <1>a, <1>b

\* No group ends behind those that follow it.
LEMMA CutsGrow ==
  ASSUME NEW cut, IsReadTable(cut), NEW n \in 0 .. BatchCount, NEW b \in 0 .. n
  PROVE  cut[b] <= cut[n] /\ cut[b] \in Nat /\ cut[n] \in Nat
<1> DEFINE d == n - b  P == {j \in 0 .. d : cut[b] <= cut[b + j]}
<1>1. BatchCount \in Nat
  BY DEF IsReadTable
<1>2. n \in Nat /\ b \in Nat /\ d \in Nat /\ b + d = n /\ b + 0 = b
  BY <1>1
<1>3. \A j \in 0 .. BatchCount : cut[j] \in Nat
  BY RowsUpTo
<1>4. \A j \in 1 .. BatchCount : cut[j - 1] <= cut[j]
  BY DEF IsReadTable, IsReadGroup, AreRows
<1>5. \A j \in 0 .. d : b + j \in 0 .. BatchCount
  BY <1>1, <1>2
<1> HIDE DEF d
<1>6. 0 \in P
  BY <1>2, <1>3, <1>5
<1>7. ASSUME NEW j \in 0 .. d - 1, j \in P PROVE j + 1 \in P
  <2> DEFINE i == b + (j + 1)
  <2>1. i \in 1 .. BatchCount /\ i - 1 = b + j /\ j + 1 \in 0 .. d /\ b + j \in 0 .. BatchCount
        /\ i \in 0 .. BatchCount /\ b \in 0 .. BatchCount
    BY <1>1, <1>2, <1>5
  <2> HIDE DEF i
  <2>2. cut[b] <= cut[b + j] /\ cut[b + j] <= cut[i]
    BY <1>4, <1>7, <2>1
  <2>3. cut[b] \in Nat /\ cut[b + j] \in Nat /\ cut[i] \in Nat
    BY <1>3, <2>1
  <2>4. cut[b] <= cut[i]
    BY <2>2, <2>3
  <2> QED BY <2>1, <2>4 DEF i
<1> HIDE DEF P
<1>8. d \in P
  <2>1. 0 .. d \subseteq P
    BY <1>2, <1>6, <1>7, Induct, Numbers!UpTo
  <2> QED BY <1>2, <2>1
<1>9. b \in 0 .. BatchCount /\ n \in 0 .. BatchCount
  BY <1>1, <1>2
<1> QED BY <1>2, <1>3, <1>8, <1>9 DEF P

\* Whether the last group has rows, so that the last row has no newline.
LacksNewLine(cut) == cut[BatchCount - 1] < cut[BatchCount]

\* What ends a row of the export.
Ending(cut, k) == IF k = Len(source.records) /\ LacksNewLine(cut) THEN <<>> ELSE <<NewLine>>

\* The last row of the last group is the last one of the source, unless that
\* group has none.
LEMMA EndingIs ==
  ASSUME NEW cut, IsReadTable(cut), NEW b \in 1 .. BatchCount, NEW r \in 1 .. RowCount(b)
  PROVE  (IF r = RowCount(b) /\ b = BatchCount THEN <<>> ELSE <<NewLine>>)
           = Ending(cut, cut[b - 1] + r)
<1>a. PICK lo : lo = cut[b - 1]
  OBVIOUS
<1>b. PICK hi : hi = cut[b]
  OBVIOUS
<1>c. PICK n : n = BatchCount
  OBVIOUS
<1>d. PICK before : before = cut[n - 1]
  OBVIOUS
<1>e. PICK N : N = cut[n]
  OBVIOUS
<1>1. n \in Nat /\ N = Len(source.records) /\ IsReadGroup(b, lo, hi) /\ b \in 1 .. n
  BY <1>a, <1>b, <1>c, <1>e DEF IsReadTable
<1>2. RowCount(b) = hi - lo /\ lo \in Nat /\ hi \in Nat /\ lo <= hi /\ hi <= N
  BY <1>1 DEF IsReadGroup, AreRows
<1>3. r \in 1 .. hi - lo
  BY <1>2
<1>4. b # n => hi <= before /\ before \in Nat
  <2>1. n - 1 \in 0 .. BatchCount /\ (b # n => b \in 0 .. n - 1)
    BY <1>1, <1>c
  <2> QED BY <1>b, <1>d, <2>1, CutsGrow
<1>5. b = n => lo = before /\ hi = N
  BY <1>a, <1>b, <1>d, <1>e
<1>6. (r = hi - lo /\ b = n) <=> (lo + r = N /\ before < N)
  <2>1. ASSUME r = hi - lo, b = n PROVE lo + r = N /\ before < N
    BY <1>2, <1>3, <1>5, <2>1
  <2>2. ASSUME lo + r = N, before < N PROVE r = hi - lo /\ b = n
    <3>1. CASE b = n
      BY <1>2, <1>3, <1>5, <2>2, <3>1
    <3>2. CASE b # n
      BY <1>2, <1>3, <1>4, <2>2, <3>2
    <3> QED BY <3>1, <3>2
  <2> QED BY <2>1, <2>2
<1>7. LacksNewLine(cut) <=> before < N
  BY <1>c, <1>d, <1>e DEF LacksNewLine
<1> QED BY <1>1, <1>2, <1>6, <1>7, <1>a, <1>c DEF Ending

\* The rows that an export shows, and its lines.
ShownRows == <<names>> \o [r \in DOMAIN source.records |-> TextsOf(r)]

\* The first line of an export.
NamesLine == LineOf(names) \o <<NewLine>>

\* The lines of the rows.
RowLines(cut) == [r \in 1 .. Len(source.records) |-> LineOf(TextsOf(r)) \o Ending(cut, r)]

\* All lines of an export.
ShownLines(cut) == <<NamesLine>> \o RowLines(cut)

\* What ReadToCSV writes of a table with row groups.
ExportText == Joined(metadata.names, Comma) \o <<NewLine>>
                \o FlattenSeq([b \in 1 .. BatchCount |-> GroupAsString(b)])

\* The lines that GroupAsString puts one behind the other.
GroupLines(b) == [r \in 1 .. Last(metadata.sizes[b]) |-> RowAsString(b, r) \o
    (IF r = Last(metadata.sizes[b]) /\ b = BatchCount THEN <<>> ELSE <<NewLine>>)]

\* What ends a row is a text.
LEMMA EndingType ==
  ASSUME NEW cut, NEW k
  PROVE  Ending(cut, k) \in Seq(Int)
<1>1. NewLine \in Int
  BY Specials
<1> QED BY <1>1 DEF Ending

\* The texts of all rows.
LEMMA TextsAre ==
  ASSUME NEW cut, IsReadTable(cut), NEW k \in 1 .. Len(source.records)
  PROVE  TextsOf(k) \in Rows /\ Len(TextsOf(k)) = ColumnNum
<1>a. PICK n : n = BatchCount
  OBVIOUS
<1> DEFINE Q == {b \in 0 .. n : \A j \in 1 .. cut[b] : TextsOf(j) \in Rows /\ Len(TextsOf(j)) = ColumnNum}
<1>1. n \in Nat /\ cut[0] = 0 /\ cut[n] = Len(source.records)
  BY <1>a DEF IsReadTable
<1>2. 0 \in Q
  BY <1>1
<1>3. ASSUME NEW b \in 0 .. n - 1, b \in Q PROVE b + 1 \in Q
  <2>a. PICK d : d = b + 1
    OBVIOUS
  <2>b. PICK lo : lo = cut[d - 1]
    OBVIOUS
  <2>c. PICK hi : hi = cut[d]
    OBVIOUS
  <2>1. d \in 1 .. BatchCount /\ d \in 0 .. n /\ d - 1 = b
    BY <1>1, <1>a, <2>a
  <2>2. \A j \in 1 .. lo : TextsOf(j) \in Rows /\ Len(TextsOf(j)) = ColumnNum
    BY <1>3, <2>1, <2>b
  <2>3. RowCount(d) = hi - lo /\ lo \in Nat /\ hi \in Nat
    BY <2>1, <2>b, <2>c DEF IsReadTable, IsReadGroup, AreRows
  <2>4. ASSUME NEW j \in 1 .. hi PROVE TextsOf(j) \in Rows /\ Len(TextsOf(j)) = ColumnNum
    <3>1. CASE j <= lo
      BY <2>2, <2>3, <3>1
    <3>2. CASE j > lo
      <4>1. j - lo \in 1 .. RowCount(d) /\ lo + (j - lo) = j
        BY <2>3, <3>2
      <4> QED BY <2>1, <2>b, <4>1, RowWritten
    <3> QED BY <2>3, <3>1, <3>2
  <2> QED BY <2>1, <2>4, <2>a, <2>c
<1> HIDE DEF Q
<1>4. n \in Q
  <2>1. 0 .. n \subseteq Q
    BY <1>1, <1>2, <1>3, Induct, Numbers!UpTo
  <2> QED BY <1>1, <2>1
<1> QED BY <1>1, <1>4 DEF Q

\* The line of a row is a text, with its ending or without.
LEMMA RowLineType ==
  ASSUME NEW cut, IsReadTable(cut), NEW k \in 1 .. Len(source.records)
  PROVE  /\ LineOf(TextsOf(k)) \in Seq(Int)
         /\ LineOf(TextsOf(k)) \o Ending(cut, k) \in Seq(Int)
<1>1. LineOf(TextsOf(k)) \in Seq(Int)
  BY TextsAre, LineType
<1>2. Ending(cut, k) \in Seq(Int)
  BY EndingType
<1> QED BY <1>1, <1>2, ConcatProperties

\* The lines of an export one by one.
LEMMA ShownLinesAre ==
  ASSUME NEW cut, IsReadTable(cut), names \in Rows
  PROVE  /\ NamesLine \in Seq(Int) /\ Len(source.records) \in Nat
         /\ ShownLines(cut) \in Seq(Seq(Int)) /\ Len(ShownLines(cut)) = Len(source.records) + 1
         /\ ShownLines(cut)[1] = NamesLine
         /\ \A k \in 1 .. Len(source.records) :
              ShownLines(cut)[k + 1] = LineOf(TextsOf(k)) \o Ending(cut, k)
<1>a. PICK N : N = Len(source.records)
  OBVIOUS
<1> DEFINE rs == RowLines(cut)  ls == ShownLines(cut)
<1>1. N \in Nat
  BY <1>a DEF IsReadTable, IsSource
<1>2. NamesLine \in Seq(Int)
  <2>1. LineOf(names) \in Seq(Int)
    BY LineType
  <2>2. <<NewLine>> \in Seq(Int)
    BY Specials
  <2> QED BY <2>1, <2>2, ConcatProperties DEF NamesLine
<1>3. rs = [r \in 1 .. N |-> LineOf(TextsOf(r)) \o Ending(cut, r)]
  BY <1>a DEF RowLines
<1>4. \A k \in 1 .. N : LineOf(TextsOf(k)) \o Ending(cut, k) \in Seq(Int)
  BY <1>a, RowLineType
<1> HIDE DEF rs
<1>5. rs \in Seq(Seq(Int)) /\ Len(rs) = N
  <2>1. rs \in [1 .. N -> Seq(Int)]
    BY <1>3, <1>4
  <2> QED BY <1>1, <2>1, SeqOfFunction
<1>6. ls = <<NamesLine>> \o rs
  BY DEF ShownLines, rs
<1> HIDE DEF ls
<1> DEFINE z == <<NamesLine>>
<1>7. z \in Seq(Seq(Int)) /\ Len(z) = 1 /\ z[1] = NamesLine
  BY <1>2
<1>8. /\ ls \in Seq(Seq(Int)) /\ Len(ls) = Len(z) + Len(rs)
      /\ \A i \in 1 .. Len(z) + Len(rs) : ls[i] = IF i <= Len(z) THEN z[i] ELSE rs[i - Len(z)]
  <2> HIDE DEF z
  <2>1. ls = z \o rs
    BY <1>6 DEF z
  <2> QED BY <1>5, <1>7, <2>1, ConcatProperties
<1> HIDE DEF z
<1>9. Len(ls) = N + 1 /\ \A i \in 1 .. N + 1 : ls[i] = IF i <= 1 THEN z[i] ELSE rs[i - 1]
  <2>1. Len(z) + Len(rs) = N + 1
    BY <1>1, <1>5, <1>7
  <2> QED BY <1>7, <1>8, <2>1
<1>10. ls[1] = NamesLine
  <2>1. 1 \in 1 .. N + 1
    BY <1>1
  <2> QED BY <1>7, <1>9, <2>1
<1>11. ASSUME NEW k \in 1 .. N PROVE ls[k + 1] = LineOf(TextsOf(k)) \o Ending(cut, k)
  <2>1. k + 1 \in 1 .. N + 1 /\ ~(k + 1 <= 1) /\ (k + 1) - 1 = k
    BY <1>1
  <2>2. ls[k + 1] = rs[k]
    BY <1>9, <2>1
  <2> QED BY <1>3, <2>2
<1> QED BY <1>1, <1>2, <1>8, <1>9, <1>10, <1>11, <1>a DEF ls

\* The lines of a group are among those.
LEMMA GroupLinesAre ==
  ASSUME NEW cut, IsReadTable(cut), names \in Rows, NEW b \in 1 .. BatchCount
  PROVE  /\ GroupLines(b) \in Seq(Seq(Int)) /\ Len(GroupLines(b)) = RowCount(b)
         /\ At(ShownLines(cut), cut[b - 1] + 1, GroupLines(b))
         /\ cut[b - 1] + 1 + RowCount(b) = cut[b] + 1
<1>a. PICK lo : lo = cut[b - 1]
  OBVIOUS
<1>b. PICK hi : hi = cut[b]
  OBVIOUS
<1>c. PICK N : N = Len(source.records)
  OBVIOUS
<1>d. PICK m : m = RowCount(b)
  OBVIOUS
<1> DEFINE gs == GroupLines(b)  ls == ShownLines(cut)
<1>1. m = hi - lo /\ lo \in Nat /\ hi \in Nat /\ lo <= hi /\ hi <= N
  BY <1>a, <1>b, <1>c, <1>d DEF IsReadTable, IsReadGroup, AreRows
<1>2. /\ ls \in Seq(Seq(Int)) /\ Len(ls) = N + 1 /\ N \in Nat
      /\ \A k \in 1 .. N : ls[k + 1] = LineOf(TextsOf(k)) \o Ending(cut, k)
  BY <1>c, ShownLinesAre
<1>3. gs = [r \in 1 .. m |-> RowAsString(b, r) \o
              (IF r = m /\ b = BatchCount THEN <<>> ELSE <<NewLine>>)]
  BY <1>d DEF GroupLines, RowCount
<1> HIDE DEF gs, ls
<1>4. ASSUME NEW r \in 1 .. m
      PROVE  /\ gs[r] = LineOf(TextsOf(lo + r)) \o Ending(cut, lo + r)
             /\ gs[r] \in Seq(Int) /\ ls[(lo + 1) + r] = gs[r]
  <2>1. r \in 1 .. RowCount(b)
    BY <1>d
  <2>2. RowAsString(b, r) = LineOf(TextsOf(lo + r))
    BY <1>a, <2>1, RowWritten
  <2>3. (IF r = m /\ b = BatchCount THEN <<>> ELSE <<NewLine>>) = Ending(cut, lo + r)
    BY <1>a, <1>d, <2>1, EndingIs
  <2>4. gs[r] = LineOf(TextsOf(lo + r)) \o Ending(cut, lo + r)
    BY <1>3, <2>2, <2>3
  <2>5. lo + r \in 1 .. N /\ (lo + r) + 1 = (lo + 1) + r
    <3>1. r \in Nat /\ 1 <= r /\ r <= m /\ m \in Nat
      BY <1>1
    <3>2. N \in Nat
      BY <1>2
    <3> QED BY <1>1, <3>1, <3>2
  <2>6. LineOf(TextsOf(lo + r)) \o Ending(cut, lo + r) \in Seq(Int)
    BY <1>c, <2>5, RowLineType
  <2> QED BY <1>2, <2>4, <2>5, <2>6
<1>5. m \in Nat
  BY <1>1
<1>6. gs \in Seq(Seq(Int)) /\ Len(gs) = m
  <2>1. gs \in [1 .. m -> Seq(Int)]
    BY <1>3, <1>4
  <2> QED BY <1>5, <2>1, SeqOfFunction
<1>7. lo + 1 \in Nat /\ lo + 1 + m = hi + 1 /\ lo + 1 + m <= N + 1
  BY <1>1, <1>2
<1>8. At(ls, lo + 1, gs)
  BY <1>2, <1>4, <1>6, <1>7 DEF At
<1> QED BY <1>6, <1>7, <1>8, <1>a, <1>b, <1>d DEF gs, ls

\* An export is its lines, one behind the other.
LEMMA ExportIs ==
  ASSUME NEW cut, IsReadTable(cut), names \in Rows, metadata.names = names,
         NEW F, IsFlat(F, ShownLines(cut), Int)
  PROVE  ExportText = F[Len(source.records) + 1]
<1>a. PICK n : n = BatchCount
  OBVIOUS
<1>b. PICK N : N = Len(source.records)
  OBVIOUS
<1> DEFINE ls == ShownLines(cut)  gs == [b \in 1 .. BatchCount |-> GroupAsString(b)]
<1>1. n \in Nat /\ cut[0] = 0 /\ cut[n] = N
  BY <1>a, <1>b DEF IsReadTable
<1>2. /\ NamesLine \in Seq(Int) /\ N \in Nat /\ ls \in Seq(Seq(Int)) /\ Len(ls) = N + 1
      /\ ls[1] = NamesLine
  BY <1>b, ShownLinesAre
<1>3. gs = [b \in 1 .. n |-> GroupAsString(b)]
  BY <1>a
<1>4. ExportText = NamesLine \o FlattenSeq(gs)
  BY DEF ExportText, NamesLine, LineOf
<1> HIDE DEF ls, gs
<1>5. IsFlat(F, ls, Int)
  BY DEF ls
<1>6. ASSUME NEW b \in 1 .. n
      PROVE  /\ gs[b] \in Seq(Int)
             /\ F[cut[b - 1] + 1] \o gs[b] = F[cut[b] + 1]
  <2>1. b \in 1 .. BatchCount
    BY <1>a
  <2>2. gs[b] = FlattenSeq(GroupLines(b))
    BY <1>3 DEF GroupAsString, GroupLines
  <2>3. /\ GroupLines(b) \in Seq(Seq(Int))
        /\ At(ls, cut[b - 1] + 1, GroupLines(b))
        /\ cut[b - 1] + 1 + Len(GroupLines(b)) = cut[b] + 1
    BY <2>1, GroupLinesAre DEF ls
  <2> DEFINE tt == GroupLines(b)
  <2>a. PICK p : p = cut[b - 1] + 1
    OBVIOUS
  <2> HIDE DEF tt
  <2>4. tt \in Seq(Seq(Int)) /\ At(ls, p, tt) /\ p + Len(tt) = cut[b] + 1
    BY <2>3, <2>a DEF tt
  <2>5. PICK D : IsFlat(D, tt, Int) /\ FlattenSeq(tt) = D[Len(tt)]
    BY <2>4, FlattenTrace
  <2>6. D[Len(tt)] \in Seq(Int)
    <3>1. Len(tt) \in 0 .. Len(tt)
      BY <2>4
    <3> QED BY <2>5, <3>1 DEF IsFlat
  <2>7. F[p] \o D[Len(tt)] = F[p + Len(tt)]
    <3>1. ls \in Seq(Seq(Int)) /\ tt \in Seq(Seq(Int)) /\ At(ls, p, tt)
      BY <1>2, <2>4
    <3>2. IsFlat(F, ls, Int) /\ IsFlat(D, tt, Int)
      BY <1>5, <2>5
    <3>3. ArePart(ls, tt, F, D, p)
      BY <3>1, <3>2 DEF ArePart
    <3>4. AreJoined(tt, F, D, p)
      BY <3>3, FlatJoin
    <3> QED BY <3>4 DEF AreJoined
  <2>8. gs[b] = D[Len(tt)]
    BY <2>2, <2>5 DEF tt
  <2> QED BY <2>4, <2>6, <2>7, <2>8, <2>a
<1>7. gs \in Seq(Seq(Int)) /\ Len(gs) = n
  <2>1. gs \in [1 .. n -> Seq(Int)]
    BY <1>3, <1>6
  <2> QED BY <1>1, <2>1, SeqOfFunction
<1>8. PICK H : IsFlat(H, gs, Int) /\ FlattenSeq(gs) = H[Len(gs)]
  BY <1>7, FlattenTrace
<1>9. H \in [0 .. n -> Seq(Int)] /\ H[0] = <<>> /\ \A b \in 1 .. n : H[b] = H[b - 1] \o gs[b]
  BY <1>7, <1>8 DEF IsFlat
<1> DEFINE P == {b \in 0 .. n : NamesLine \o H[b] = F[cut[b] + 1]}
<1>10. 0 \in P
  <2>1. F[1] = NamesLine
    <3>1. F[1] = F[1 - 1] \o ls[1] /\ F[0] = <<>>
      <4>1. 1 \in 1 .. Len(ls)
        BY <1>2
      <4> QED BY <1>5, <4>1 DEF IsFlat
    <3> QED BY <1>2, <3>1, ConcatEmptySeq
  <2>2. NamesLine \o <<>> = NamesLine
    BY <1>2, ConcatEmptySeq
  <2>3. cut[0] + 1 = 1 /\ 0 \in 0 .. n
    BY <1>1
  <2>4. NamesLine \o H[0] = F[cut[0] + 1]
    BY <1>9, <2>1, <2>2, <2>3
  <2> QED BY <2>3, <2>4
<1>11. ASSUME NEW b \in 0 .. n - 1, b \in P PROVE b + 1 \in P
  <2>a. PICK d : d = b + 1
    OBVIOUS
  <2>1. d \in 1 .. n /\ d - 1 = b /\ d \in 0 .. n /\ b \in 0 .. n
    BY <1>1, <2>a
  <2>2. NamesLine \o H[b] = F[cut[b] + 1]
    BY <1>11
  <2>3. F[cut[b] + 1] \o gs[d] = F[cut[d] + 1] /\ gs[d] \in Seq(Int)
    BY <1>6, <2>1
  <2>4. H[d] = H[b] \o gs[d] /\ H[b] \in Seq(Int)
    BY <1>9, <2>1
  <2> DEFINE x == H[b]  y == gs[d]
  <2> HIDE DEF x, y
  <2>5. (NamesLine \o x) \o y = NamesLine \o (x \o y)
    <3>1. x \in Seq(Int) /\ y \in Seq(Int)
      BY <2>3, <2>4 DEF x, y
    <3> QED BY <1>2, <3>1, Associative
  <2>6. NamesLine \o H[d] = F[cut[d] + 1]
    BY <2>2, <2>3, <2>4, <2>5 DEF x, y
  <2> QED BY <2>1, <2>6, <2>a
<1> HIDE DEF P
<1>12. n \in P
  <2>1. 0 .. n \subseteq P
    BY <1>1, <1>10, <1>11, Induct, Numbers!UpTo
  <2> QED BY <1>1, <2>1
<1>13. NamesLine \o H[n] = F[N + 1]
  BY <1>1, <1>12 DEF P
<1> QED BY <1>4, <1>7, <1>8, <1>13, <1>b

\* What ExportIsReadable asks of a table: no quotes are needed, and the last row is
\* not one empty cell.
IsShowable ==
  /\ ColumnNum > 0 /\ IsBareRow(names)
  /\ \A k \in 1 .. Len(source.records) : IsBareRow(TextsOf(k))
  /\ Len(source.records) > 0 => TextsOf(Len(source.records)) # << <<>> >>

\* The rows of an export one by one.
LEMMA ShownRowsAre ==
  ASSUME NEW cut, IsReadTable(cut), names \in Rows
  PROVE  /\ ShownRows \in Seq(Rows) /\ Len(ShownRows) = Len(source.records) + 1
         /\ ShownRows[1] = names
         /\ \A k \in 1 .. Len(source.records) : ShownRows[k + 1] = TextsOf(k)
<1>a. PICK N : N = Len(source.records)
  OBVIOUS
<1> DEFINE rs == [r \in DOMAIN source.records |-> TextsOf(r)]  ls == ShownRows  z == <<names>>
<1>1. N \in Nat /\ DOMAIN source.records = 1 .. N
  BY <1>a DEF IsReadTable, IsSource
<1>3. rs = [r \in 1 .. N |-> TextsOf(r)]
  BY <1>1
<1>4. \A k \in 1 .. N : TextsOf(k) \in Rows
  BY <1>a, TextsAre
<1> HIDE DEF rs
<1>5. rs \in Seq(Rows) /\ Len(rs) = N
  <2>1. rs \in [1 .. N -> Rows]
    BY <1>3, <1>4
  <2> QED BY <1>1, <2>1, SeqOfFunction
<1>6. ls = z \o rs
  BY DEF ShownRows, rs
<1> HIDE DEF ls
<1>7. z \in Seq(Rows) /\ Len(z) = 1 /\ z[1] = names
  OBVIOUS
<1> HIDE DEF z
<1>8. /\ ls \in Seq(Rows) /\ Len(ls) = Len(z) + Len(rs)
      /\ \A i \in 1 .. Len(z) + Len(rs) : ls[i] = IF i <= Len(z) THEN z[i] ELSE rs[i - Len(z)]
  BY <1>5, <1>6, <1>7, ConcatProperties
<1>9. Len(ls) = N + 1 /\ \A i \in 1 .. N + 1 : ls[i] = IF i <= 1 THEN z[i] ELSE rs[i - 1]
  <2>1. Len(z) + Len(rs) = N + 1
    BY <1>1, <1>5, <1>7
  <2> QED BY <1>7, <1>8, <2>1
<1>10. ls[1] = names
  <2>1. 1 \in 1 .. N + 1
    BY <1>1
  <2> QED BY <1>7, <1>9, <2>1
<1>11. ASSUME NEW k \in 1 .. N PROVE ls[k + 1] = TextsOf(k)
  <2>1. k + 1 \in 1 .. N + 1 /\ ~(k + 1 <= 1) /\ (k + 1) - 1 = k
    BY <1>1
  <2>2. ls[k + 1] = rs[k]
    BY <1>9, <2>1
  <2> QED BY <1>3, <2>2
<1> QED BY <1>8, <1>9, <1>10, <1>11, <1>a DEF ls

\* The lines of an export are those of its rows.
LEMMA ShownAreLines ==
  ASSUME NEW cut, IsReadTable(cut), names \in Rows, Len(names) = ColumnNum, IsShowable
  PROVE  AreLines(ShownLines(cut), ShownRows)
<1>a. PICK N : N = Len(source.records)
  OBVIOUS
<1>b. PICK rows : rows = ShownRows
  OBVIOUS
<1>c. PICK lines : lines = ShownLines(cut)
  OBVIOUS
<1>d. PICK C : C = ColumnNum
  OBVIOUS
<1>1. /\ rows \in Seq(Rows) /\ Len(rows) = N + 1 /\ rows[1] = names
      /\ \A k \in 1 .. N : rows[k + 1] = TextsOf(k)
  BY <1>a, <1>b, ShownRowsAre
<1>2. /\ lines \in Seq(Seq(Int)) /\ Len(lines) = N + 1 /\ lines[1] = LineOf(names) \o <<NewLine>>
      /\ N \in Nat
      /\ \A k \in 1 .. N : lines[k + 1] = LineOf(TextsOf(k)) \o Ending(cut, k)
  BY <1>a, <1>c, ShownLinesAre DEF NamesLine
<1>3. C # 0 /\ Len(names) = C /\ IsBareRow(names)
      /\ (\A k \in 1 .. N : IsBareRow(TextsOf(k))) /\ (N > 0 => TextsOf(N) # << <<>> >>)
  <2>1. C > 0
    BY <1>d DEF IsShowable
  <2>2. C # 0
    BY <2>1
  <2> QED BY <1>a, <1>d, <2>2 DEF IsShowable
<1>4. \A k \in 1 .. N : TextsOf(k) \in Rows /\ Len(TextsOf(k)) = C
  BY <1>a, <1>d, TextsAre
<1>5. ASSUME NEW i \in 1 .. N + 1
      PROVE  /\ rows[i] # <<>> /\ IsBareRow(rows[i])
             /\ \/ lines[i] = LineOf(rows[i]) \o <<NewLine>>
                \/ i = N + 1 /\ lines[i] = LineOf(rows[i]) /\ rows[i] # << <<>> >>
  <2>1. CASE i = 1
    <3>1. names # <<>>
      BY <1>3
    <3> QED BY <1>1, <1>2, <1>3, <2>1, <3>1
  <2>2. CASE i # 1
    <3>a. PICK k : k = i - 1
      OBVIOUS
    <3>b. PICK row : row = TextsOf(k)
      OBVIOUS
    <3>1. k \in 1 .. N /\ k + 1 = i
      BY <1>2, <2>2, <3>a
    <3>2. rows[i] = row /\ lines[i] = LineOf(row) \o Ending(cut, k)
      BY <1>1, <1>2, <3>1, <3>b
    <3>3. row \in Rows /\ Len(row) = C /\ IsBareRow(row)
      BY <1>3, <1>4, <3>1, <3>b
    <3>4. row # <<>>
      BY <1>3, <3>3
    <3>5. CASE k = N /\ LacksNewLine(cut)
      <4>1. Ending(cut, k) = <<>>
        BY <1>a, <3>5 DEF Ending
      <4>2. LineOf(row) \o <<>> = LineOf(row)
        BY <3>3, LineType, ConcatEmptySeq
      <4>3. row # << <<>> >>
        <5>1. N > 0
          BY <1>2, <3>1
        <5> QED BY <1>3, <3>5, <3>b, <5>1
      <4>4. i = N + 1
        BY <3>1, <3>5
      <4> QED BY <3>2, <3>3, <3>4, <4>1, <4>2, <4>3, <4>4
    <3>6. CASE ~(k = N /\ LacksNewLine(cut))
      <4>1. Ending(cut, k) = <<NewLine>>
        BY <1>a, <3>6 DEF Ending
      <4> QED BY <3>2, <3>3, <3>4, <4>1
    <3> QED BY <3>5, <3>6
  <2> QED BY <2>1, <2>2
<1>6. AreLines(lines, rows)
  BY <1>1, <1>2, <1>5 DEF AreLines
<1> QED BY <1>6, <1>b, <1>c

\* A table that needs no quotes is exported as a text that means its rows.
LEMMA ExportRead ==
  ASSUME NEW cut, IsReadTable(cut), names \in Rows, metadata.names = names,
         Len(names) = ColumnNum, IsShowable
  PROVE  Records(ExportText) = ShownRows
<1>a. PICK rows : rows = ShownRows
  OBVIOUS
<1>b. PICK lines : lines = ShownLines(cut)
  OBVIOUS
<1>1. AreLines(lines, rows)
  BY <1>a, <1>b, ShownAreLines
<1>2. lines \in Seq(Seq(Int)) /\ Len(rows) = Len(source.records) + 1
  BY <1>a, <1>b, ShownLinesAre, ShownRowsAre
<1>3. PICK F : IsFlat(F, lines, Int)
  BY <1>2, FlattenTrace
<1>4. ExportText = F[Len(rows)]
  BY <1>2, <1>3, <1>b, ExportIs
<1>5. F[Len(rows)] \in Seq(Int) /\ IsListing(F[Len(rows)], rows, [k \in 0 .. Len(rows) |-> Len(F[k])])
  BY <1>1, <1>3, LinesListed
<1>6. Records(F[Len(rows)]) = rows
  BY <1>5, ListingRead
<1> QED BY <1>4, <1>6, <1>a

\* The export is that of the table that is open.
ExportInv == phase = "exported" /\ BatchCount > 0 => exported = ExportText

\* ReadToCSV writes the export of the table that is open, and nothing follows.
LEMMA ExportKept ==
  ASSUME ExportInv, [Next]_vars
  PROVE  ExportInv'
<1>1. CASE UNCHANGED vars
  <2>1. UNCHANGED <<source, file, metadata, phase, exported>>
    BY <1>1 DEF vars, writerVars, readerVars
  <2>2. ExportText' = ExportText /\ BatchCount' = BatchCount
    BY <2>1 DEF ExportText, BatchCount, GroupAsString, RowAsString, GetColumnData, ColumnNum, Types
  <2> QED BY <2>1, <2>2 DEF ExportInv
<1>2. CASE ReadToCSV
  <2>1. /\ UNCHANGED <<source, file, metadata>>
        /\ exported' = IF BatchCount = 0 THEN <<>> ELSE ExportText
    BY <1>2 DEF ReadToCSV, writerVars, ExportText
  <2>2. ExportText' = ExportText /\ BatchCount' = BatchCount
    BY <2>1 DEF ExportText, BatchCount, GroupAsString, RowAsString, GetColumnData, ColumnNum, Types
  <2>3. BatchCount > 0 => BatchCount # 0
    OBVIOUS
  <2> QED BY <2>1, <2>2, <2>3 DEF ExportInv
<1>3. CASE Next /\ ~ReadToCSV
  <2>1. phase' # "exported"
    <3>1. SetScheme => phase' # "exported"
      BY DEF SetScheme
    <3>2. StartGroup \/ ReadNothing \/ GroupFull \/ AddColumnThrows => phase' # "exported"
      BY DEF StartGroup, ReadNothing, GroupFull, AddColumnThrows
    <3>3. ReadRow \/ ReadShortRow => phase' # "exported"
      BY DEF ReadRow, ReadShortRow
    <3>4. EmptyGroup => phase' # "exported"
      BY DEF EmptyGroup
    <3>5. WriteGroup \/ WriteMetadata \/ OpenReader => phase' # "exported"
      BY DEF WriteGroup, WriteMetadata, OpenReader
    <3>6. ReadNextBatch \/ SkipNextBatch => phase' # "exported"
      BY DEF ReadNextBatch, SkipNextBatch
    <3> QED BY <1>3, <3>1, <3>2, <3>3, <3>4, <3>5, <3>6 DEF Next
  <2> QED BY <2>1 DEF ExportInv
<1> QED BY <1>1, <1>2, <1>3

\* ExportIsReadable: an export that needs no quotes (ReadToCSV writes none) is
\* read back by the CSV reader as the names and all rows of the table, however
\* they were cut into row groups, and when the last of these is without rows,
\* too.
THEOREM ExportReadable == Spec => []ExportIsReadable
<1>1. Init => ExportInv
  BY DEF Init, ExportInv
<1>2. ExportInv /\ [Next]_vars => ExportInv'
  BY ExportKept
<1>3. Spec => []ExportInv
  BY <1>1, <1>2, PTL DEF Spec
<1>4. IInv /\ ExportInv => ExportIsReadable
  <2> DEFINE cells == [r \in DOMAIN source.records |-> [c \in 1 .. ColumnNum |->
                         CellAsString(Types[c], Typed(c, r))]]
  <2> SUFFICES ASSUME IInv, ExportInv, phase = "exported", BatchCount > 0, ColumnNum > 0,
                      \A c \in DOMAIN names : IsBare(names[c]),
                      \A r \in DOMAIN cells : \A c \in 1 .. ColumnNum : IsBare(cells[r][c]),
                      cells # <<>> => Last(cells) # << <<>> >>
               PROVE  Records(exported) = <<names>> \o cells
    BY DEF ExportIsReadable
  <2>a. PICK N : N = Len(source.records)
    OBVIOUS
  <2>1. PICK cut : IsReadTable(cut)
    BY ReadTable
  <2>2. /\ names \in Rows /\ names = source.names /\ Len(names) = Len(source.types)
        /\ metadata.names = source.names
    <3>1. Basic
      BY DEF IInv
    <3> QED BY <2>1, <3>1 DEF Basic, IsReadTable, Rows
  <2>3. N \in Nat /\ DOMAIN source.records = 1 .. N
    BY <2>1, <2>a DEF IsReadTable, IsSource
  <2>4. cells = [r \in 1 .. N |-> TextsOf(r)] /\ <<names>> \o cells = ShownRows
    BY <2>3 DEF TextsOf, ShownRows
  <2>5. IsBareRow(names)
    BY <2>2 DEF IsBareRow, Rows
  <2>6. \A k \in 1 .. N : TextsOf(k) \in Rows /\ Len(TextsOf(k)) = ColumnNum
    BY <2>1, <2>a, TextsAre
  <2> HIDE DEF cells
  <2>7. ASSUME NEW k \in 1 .. N PROVE IsBareRow(TextsOf(k))
    <3>1. k \in DOMAIN cells /\ cells[k] = TextsOf(k)
      BY <2>4
    <3>2. \A c \in 1 .. ColumnNum : IsBare(TextsOf(k)[c])
      BY <3>1
    <3> QED BY <2>6, <3>2 DEF IsBareRow
  <2>8. ASSUME N > 0 PROVE TextsOf(N) # << <<>> >>
    <3>1. cells \in Seq(Rows) /\ Len(cells) = N /\ cells # <<>>
      <4>1. cells \in [1 .. N -> Rows] /\ N # 0
        BY <2>3, <2>4, <2>6, <2>8
      <4> QED BY <2>3, <4>1, SeqOfFunction
    <3>2. Last(cells) = cells[N]
      BY <3>1 DEF Last
    <3>3. cells[N] = TextsOf(N)
      BY <2>3, <2>4, <2>8
    <3> QED BY <3>1, <3>2, <3>3
  <2>9. IsShowable
    BY <2>5, <2>7, <2>8, <2>a DEF IsShowable
  <2>10. Records(ExportText) = ShownRows
    BY <2>1, <2>2, <2>9, ExportRead DEF ColumnNum, Types
  <2>11. exported = ExportText
    BY DEF ExportInv
  <2> QED BY <2>4, <2>10, <2>11
<1> QED BY <1>3, <1>4, Invariance, PTL

=============================================================================

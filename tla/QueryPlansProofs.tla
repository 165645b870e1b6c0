------------------------- MODULE QueryPlansProofs -------------------------
(***************************************************************************)
(* What holds of the plans of all queries, for every table, every way to   *)
(* cut it into row groups, every condition and every limit.                *)
(*                                                                         *)
(* The sort comes first: comp is a strict weak order; therefore a queue    *)
(* that gives up its top for each better row holds the best rows of all    *)
(* that were read, and the answer is best.                                 *)
(*                                                                         *)
(* A plan is a chain of operators each of which has its own invariant: the *)
(* scan that of TableScanProofs, the aggregation that of AggregationProofs *)
(* and the sort its own.  PlansInv joins them: what an operator has pulled *)
(* is what the one below it has returned, and in the end the rows of all   *)
(* row groups that the condition accepts.  The printed rows are counted    *)
(* against the rows that the query asks for.                               *)
(***************************************************************************)
EXTENDS QueryPlans, SequenceTheorems, FiniteSetTheorems, WellFoundedInduction, TLAPS

-----------------------------------------------------------------------------
\* The table of queries.

\* What kinds of operators a query has together: HAVING only behind groups that
\* are sorted, a limit of its own only where the sort prints everything that it
\* keeps, and OFFSET or LIMIT only behind a sort or groups.
Shape(q) ==
  /\ q.having # <<>> => q.aggregate = "groups" /\ q.sort # "no"
  /\ q.sort = "limit" => q.offset = 0 /\ q.limit = "all"
  /\ q.aggregate = "no" /\ q.sort = "no" => q.offset = 0 /\ q.limit = "all"
  /\ q.aggregate = "all" => q.sort = "no" /\ q.offset = 0 /\ q.limit = "all"
  /\ q.aggregate \in {"no", "all", "groups"} /\ q.sort \in {"no", "all", "limit"}

\* Every entry of the table of queries names columns of the scheme that its
\* operators can work with, and combines operators as Shape says.
LEMMA QueriesFit ==
  \A id \in QueryIds : PlanFits(Queries[id]) /\ Shape(Queries[id])
<1> USE DEF Scanned, Total, Grouped, HavingAbove, Ordered, TopK, Printed, Phrases, Hits,
            Widths, Number, Text, Op, Transformed, PlanFits, TestFits, OpFits, IsInteger,
            ColumnType, Bits, Shape
<1>1. PlanFits(Query1) /\ Shape(Query1)
  BY DEF Query1
<1>2. PlanFits(Query2) /\ Shape(Query2)
  BY DEF Query2
<1>3. PlanFits(Query3) /\ Shape(Query3)
  BY DEF Query3
<1>4. PlanFits(Query4) /\ Shape(Query4)
  BY DEF Query4
<1>5. PlanFits(Query5) /\ Shape(Query5)
  BY DEF Query5
<1>6. PlanFits(Query6) /\ Shape(Query6)
  BY DEF Query6
<1>7. PlanFits(Query7) /\ Shape(Query7)
  BY DEF Query7
<1>8. PlanFits(Query8) /\ Shape(Query8)
  BY DEF Query8
<1>9. PlanFits(Query9) /\ Shape(Query9)
  BY DEF Query9
<1>10. PlanFits(Query10) /\ Shape(Query10)
  BY DEF Query10
<1>11. PlanFits(Query11) /\ Shape(Query11)
  BY DEF Query11
<1>12. PlanFits(Query12) /\ Shape(Query12)
  BY DEF Query12
<1>13. PlanFits(Query13) /\ Shape(Query13)
  BY DEF Query13
<1>14. PlanFits(Query14) /\ Shape(Query14)
  BY DEF Query14
<1>15. PlanFits(Query15) /\ Shape(Query15)
  BY DEF Query15
<1>16. PlanFits(Query16) /\ Shape(Query16)
  BY DEF Query16
<1>17. PlanFits(Query17) /\ Shape(Query17)
  BY DEF Query17
<1>18. PlanFits(Query18) /\ Shape(Query18)
  BY DEF Query18
<1>19. PlanFits(Query19) /\ Shape(Query19)
  BY DEF Query19
<1>20. PlanFits(Query20) /\ Shape(Query20)
  BY DEF Query20
<1>21. PlanFits(Query21) /\ Shape(Query21)
  BY DEF Query21
<1>22. PlanFits(Query22) /\ Shape(Query22)
  BY DEF Query22
<1>23. PlanFits(Query23) /\ Shape(Query23)
  BY DEF Query23
<1>24. PlanFits(Query24) /\ Shape(Query24)
  BY DEF Query24
<1>25. PlanFits(Query25) /\ Shape(Query25)
  BY DEF Query25
<1>26. PlanFits(Query26) /\ Shape(Query26)
  BY DEF Query26
<1>27. PlanFits(Query27) /\ Shape(Query27)
  BY DEF Query27
<1>28. PlanFits(Query28) /\ Shape(Query28)
  BY DEF Query28
<1>29. PlanFits(Query29) /\ Shape(Query29)
  BY DEF Query29
<1>30. PlanFits(Query30) /\ Shape(Query30)
  <2> DEFINE ops == [n \in 1 .. 90 |-> Transformed("SUM", "ResolutionWidth")]
  <2>1. DOMAIN ops = 1 .. 90 /\ \A n \in DOMAIN ops : ops[n] = Transformed("SUM", "ResolutionWidth")
    OBVIOUS
  <2> HIDE DEF ops
  <2>2. PlanFits(Total(Scanned(<<"ResolutionWidth">>, {}), ops))
    BY <2>1
  <2>3. Shape(Total(Scanned(<<"ResolutionWidth">>, {}), ops))
    OBVIOUS
  <2> QED BY <2>2, <2>3 DEF Query30, ops
<1>31. PlanFits(Query31) /\ Shape(Query31)
  BY DEF Query31
<1>32. PlanFits(Query32) /\ Shape(Query32)
  BY DEF Query32
<1>33. PlanFits(Query33) /\ Shape(Query33)
  BY DEF Query33
<1>34. PlanFits(Query34) /\ Shape(Query34)
  BY DEF Query34
<1>35. PlanFits(Query35) /\ Shape(Query35)
  BY DEF Query35
<1>36. PlanFits(Query36) /\ Shape(Query36)
  BY DEF Query36
<1>37. PlanFits(Query37) /\ Shape(Query37)
  BY DEF Query37
<1>38. PlanFits(Query38) /\ Shape(Query38)
  BY DEF Query38
<1>39. PlanFits(Query39) /\ Shape(Query39)
  BY DEF Query39
<1>41. PlanFits(Query41) /\ Shape(Query41)
  BY DEF Query41
<1>42. PlanFits(Query42) /\ Shape(Query42)
  BY DEF Query42
<1>43. PlanFits(Query43) /\ Shape(Query43)
  BY DEF Query43
<1> HIDE DEF Scanned, Total, Grouped, HavingAbove, Ordered, TopK, Printed, Phrases, Hits, Widths, Number, Text, Op, Transformed, PlanFits, TestFits, OpFits, IsInteger, ColumnType, Bits, Shape
<1> QED BY <1>1, <1>2, <1>3, <1>4, <1>5, <1>6, <1>7, <1>8, <1>9, <1>10, <1>11, <1>12, <1>13, <1>14, <1>15, <1>16, <1>17, <1>18, <1>19, <1>20, <1>21, <1>22, <1>23, <1>24, <1>25, <1>26, <1>27, <1>28, <1>29, <1>30, <1>31, <1>32, <1>33, <1>34, <1>35, <1>36, <1>37, <1>38, <1>39, <1>41, <1>42, <1>43 DEF Queries, QueryIds

-----------------------------------------------------------------------------
\* Lists of rows: filtering and concatenation.

\* The recursions of this module over lists: the filters of rows that a set
\* accepts, by the set, and sums over a column of them.
Lists == INSTANCE ProofRules
  WITH Op <- LAMBDA e, v, x : IF x \in e THEN Append(v, x) ELSE v,
       Val <- LAMBDA a, b, x : a[x][b]

\* Induction over natural numbers, with the statement as a set of numbers.
LEMMA Induct == Lists!NatInduction
<1> SUFFICES ASSUME NEW S \in SUBSET Nat, 0 \in S, \A n \in S : n + 1 \in S
             PROVE  S = Nat
  BY DEF Lists!NatInduction
<1> SUFFICES ASSUME Nat \ S # {} PROVE FALSE
  OBVIOUS
<1>1. \E R : /\ IsWellFoundedOn(R, Nat)
             /\ \A m, n \in Nat : m < n => <<m, n>> \in R
  <2>1. \A m, n \in Nat : m < n => <<m, n>> \in OpToRel(<, Nat)
    BY DEF OpToRel
  <2> QED BY <2>1, NatLessThanWellFounded, Zenon
<1>2. PICK R : /\ IsWellFoundedOn(R, Nat)
               /\ \A m, n \in Nat : m < n => <<m, n>> \in R
  BY <1>1
<1>3. PICK x \in Nat \ S : \A y \in Nat \ S : ~ (<<y, x>> \in R)
  <2>1. IsWellFoundedOn(R, Nat)
    BY <1>2
  <2> QED BY <2>1, WFMin, Zenon
<1>4. x # 0 /\ x - 1 \in Nat /\ x - 1 < x
  BY <1>3
<1>5. x - 1 \in S
  BY <1>2, <1>3, <1>4
<1>6. (x - 1) + 1 = x
  BY <1>3
<1> QED BY <1>3, <1>5, <1>6

\* F[i] is the concatenation of the first i of the lists ss.
IsFlat(F, ss, S) ==
  /\ F \in [0 .. Len(ss) -> Seq(S)] /\ F[0] = <<>>
  /\ \A i \in 1 .. Len(ss) : F[i] = F[i - 1] \o ss[i]

\* FlattenSeq concatenates one sequence after the other.
LEMMA FlattenTrace ==
  ASSUME NEW S, NEW ss \in Seq(Seq(S))
  PROVE  \E F : IsFlat(F, ss, S) /\ FlattenSeq(ss) = F[Len(ss)]
<1> DEFINE n == Len(ss)
           IsIter(f, k) == f = [i \in 1 .. k |->
                                  IF i = 1 THEN ss[i] ELSE f[i - 1] \o ss[i]]
           KK == {k \in 0 .. n : \E f : IsIter(f, k)}
<1>1. n \in Nat
  OBVIOUS
<1>2. 0 \in KK
  <2>1. IsIter([i \in 1 .. 0 |-> <<>>], 0)
    OBVIOUS
  <2> HIDE DEF IsIter
  <2>2. \E f : IsIter(f, 0)
    BY <2>1
  <2> QED BY <1>1, <2>2
<1>3. ASSUME NEW k \in 0 .. n - 1, k \in KK PROVE k + 1 \in KK
  <2>1. PICK f : IsIter(f, k)
    BY <1>3
  <2> DEFINE g == [i \in 1 .. k + 1 |-> IF i = 1 THEN ss[i] ELSE f[i - 1] \o ss[i]]
  <2>2. ASSUME NEW i \in 1 .. k PROVE g[i] = f[i]
    <3>1. i \in 1 .. k + 1
      OBVIOUS
    <3>2. f[i] = IF i = 1 THEN ss[i] ELSE f[i - 1] \o ss[i]
      BY <2>1
    <3> QED BY <3>1, <3>2
  <2>3. IsIter(g, k + 1)
    <3>1. \A i \in 1 .. k + 1 : g[i] = IF i = 1 THEN ss[i] ELSE g[i - 1] \o ss[i]
      <4> TAKE i \in 1 .. k + 1
      <4>1. CASE i = 1
        BY <4>1
      <4>2. CASE i # 1
        <5>1. i - 1 \in 1 .. k
          BY <4>2
        <5> QED BY <2>2, <4>2, <5>1
      <4> QED BY <4>1, <4>2
    <3> QED BY <3>1
  <2> HIDE DEF g, IsIter
  <2>4. \E h : IsIter(h, k + 1)
    BY <2>3
  <2> QED BY <1>1, <2>4
<1> HIDE DEF KK
<1>4. n \in KK
  <2>1. 0 .. n \subseteq KK
    <3> HIDE DEF n
    <3> QED BY <1>1, <1>2, <1>3, Induct, Lists!UpTo
  <2> QED BY <1>1, <2>1
<1>5. \E f : IsIter(f, n)
  BY <1>4 DEF KK
<1> DEFINE flat == CHOOSE f : IsIter(f, n)
<1>6. IsIter(flat, n)
  BY <1>5
<1>7. FlattenSeq(ss) = IF n = 0 THEN ss ELSE flat[n]
  BY DEF FlattenSeq
<1> HIDE DEF flat
<1> DEFINE F == [i \in 0 .. n |-> IF i = 0 THEN <<>> ELSE flat[i]]
<1>8. F[0] = <<>> /\ \A i \in 1 .. n : F[i] = F[i - 1] \o ss[i]
  <2>1. F[0] = <<>>
    BY <1>1
  <2>2. ASSUME NEW i \in 1 .. n PROVE F[i] = F[i - 1] \o ss[i]
    <3>0. F[i] = flat[i] /\ i - 1 \in 0 .. n
      BY <1>1
    <3>1. CASE i = 1
      <4>1. flat[i] = ss[i] /\ F[i - 1] = <<>> /\ ss[i] \in Seq(S)
        BY <1>6, <3>1
      <4> QED BY <3>0, <4>1, EmptySeq, ConcatEmptySeq
    <3>2. CASE i # 1
      <4>1. flat[i] = flat[i - 1] \o ss[i]
        BY <1>6, <3>2
      <4>2. F[i - 1] = flat[i - 1]
        BY <3>0, <3>2
      <4> QED BY <3>0, <4>1, <4>2
    <3> QED BY <3>1, <3>2
  <2> QED BY <2>1, <2>2
<1> HIDE DEF F
<1>9. FlattenSeq(ss) = F[n]
  <2>1. CASE n = 0
    <3>1. ss = <<>>
      BY <2>1
    <3>2. F[n] = <<>>
      BY <2>1, <1>8
    <3> QED BY <1>7, <2>1, <3>1, <3>2
  <2>2. CASE n # 0
    <3>1. F[n] = flat[n]
      BY <1>1, <2>2 DEF F
    <3> QED BY <1>7, <2>2, <3>1
  <2> QED BY <2>1, <2>2
<1>10. \A i \in 0 .. n : F[i] \in Seq(S)
  <2> DEFINE P == {i \in 0 .. n : F[i] \in Seq(S)}
  <2>1. 0 \in P
    <3>1. F[0] \in Seq(S)
      BY <1>8, EmptySeq
    <3>2. 0 \in 0 .. n
      BY <1>1
    <3> QED BY <3>1, <3>2
  <2>2. ASSUME NEW i \in 0 .. n - 1, i \in P PROVE i + 1 \in P
    <3>1. i + 1 \in 1 .. n /\ (i + 1) - 1 = i
      OBVIOUS
    <3>2. F[i + 1] = F[i] \o ss[i + 1]
      BY <1>8, <3>1, Zenon
    <3>5. ss[i + 1] \in Seq(S)
      BY <3>1, ElementOfSeq
    <3>3. F[i] \in Seq(S)
      BY <2>2
    <3>4. F[i + 1] \in Seq(S)
      BY <3>2, <3>3, <3>5
    <3> QED BY <3>1, <3>4
  <2> HIDE DEF P
  <2>3. 0 .. n \subseteq P
    <3> HIDE DEF n
    <3> QED BY <1>1, <2>1, <2>2, Induct, Lists!UpTo
  <2> QED BY <2>3 DEF P
<1>11. F \in [0 .. n -> Seq(S)]
  BY <1>10 DEF F
<1> QED BY <1>8, <1>9, <1>11 DEF IsFlat

\* F[i] are the elements of A among the first i elements of s.
IsFiltered(F, s, A) ==
  /\ F[0] = <<>>
  /\ \A i \in 1 .. Len(s) : F[i] = IF s[i] \in A THEN Append(F[i - 1], s[i]) ELSE F[i - 1]

\* Filtered takes the elements of a list one by one and keeps those in A.
LEMMA FilterTrace ==
  ASSUME NEW S, NEW s \in Seq(S), NEW A
  PROVE  \E F : IsFiltered(F, s, A) /\ Filtered(s, A) = F[Len(s)]
<1>1. Len(s) \in Nat /\ DOMAIN s = 1 .. Len(s)
  OBVIOUS
<1>2. PICK F : Lists!IsTrace(F, A, <<>>, s, Len(s))
  BY <1>1, Induct, Lists!FoldTrace
<1>3. IsFiltered(F, s, A) /\ Lists!Folded(A, <<>>, s) = F[Len(s)]
  BY <1>2 DEF Lists!IsTrace, IsFiltered
<1>4. Filtered(s, A) = Lists!Folded(A, <<>>, s)
  BY DEF Filtered, FoldLeft, MapThenFoldSet, Max, Lists!Folded, Lists!MapThenFoldSet,
         Lists!Greatest
<1> QED BY <1>3, <1>4

\* What a filter has kept depends only on what it has seen.
LEMMA FilterTracesAgree ==
  ASSUME NEW S, NEW s \in Seq(S), NEW t \in Seq(S), NEW A, NEW F, NEW G,
         IsFiltered(F, s, A), IsFiltered(G, t, A), NEW n \in Nat, n <= Len(s), n <= Len(t),
         \A i \in 1 .. n : s[i] = t[i]
  PROVE  F[n] = G[n]
<1> DEFINE P == {i \in 0 .. n : F[i] = G[i]}
<1>1. 0 \in P
  BY DEF IsFiltered
<1>2. ASSUME NEW i \in 0 .. n - 1, i \in P PROVE i + 1 \in P
  <2>1. i + 1 \in 1 .. Len(s) /\ i + 1 \in 1 .. Len(t) /\ (i + 1) - 1 = i /\ s[i + 1] = t[i + 1]
    OBVIOUS
  <2>2. F[i + 1] = IF s[i + 1] \in A THEN Append(F[(i + 1) - 1], s[i + 1]) ELSE F[(i + 1) - 1]
    BY <2>1 DEF IsFiltered
  <2>3. G[i + 1] = IF t[i + 1] \in A THEN Append(G[(i + 1) - 1], t[i + 1]) ELSE G[(i + 1) - 1]
    BY <2>1 DEF IsFiltered
  <2> QED BY <1>2, <2>1, <2>2, <2>3
<1> HIDE DEF P
<1>3. 0 .. n \subseteq P
  BY <1>1, <1>2, Induct, Lists!UpTo
<1> QED BY <1>3 DEF P

\* Nothing is left of an empty list.
LEMMA FilterNone ==
  ASSUME NEW A
  PROVE  Filtered(<<>>, A) = <<>>
<1> DEFINE s == <<>>
<1>1. s \in Seq({}) /\ Len(s) = 0
  OBVIOUS
<1>2. PICK F : IsFiltered(F, s, A) /\ Filtered(s, A) = F[Len(s)]
  BY <1>1, FilterTrace
<1> QED BY <1>1, <1>2 DEF IsFiltered

\* A further element is appended to what is kept, or ignored.
LEMMA FilterAppend ==
  ASSUME NEW S, NEW s \in Seq(S), NEW x \in S, NEW A
  PROVE  Filtered(Append(s, x), A)
           = IF x \in A THEN Append(Filtered(s, A), x) ELSE Filtered(s, A)
<1> DEFINE t == Append(s, x)
           n == Len(s)
<1>1. /\ t \in Seq(S) /\ n \in Nat /\ Len(t) = n + 1 /\ t[n + 1] = x
      /\ \A i \in 1 .. n : s[i] = t[i]
  OBVIOUS
<1> HIDE DEF t
<1>2. PICK F : IsFiltered(F, s, A) /\ Filtered(s, A) = F[n]
  BY FilterTrace
<1>3. PICK G : IsFiltered(G, t, A) /\ Filtered(t, A) = G[Len(t)]
  BY <1>1, FilterTrace
<1>4. F[n] = G[n]
  BY <1>1, <1>2, <1>3, FilterTracesAgree
<1>5. n + 1 \in 1 .. Len(t) /\ (n + 1) - 1 = n
  BY <1>1
<1>6. G[n + 1] = IF x \in A THEN Append(G[n], x) ELSE G[n]
  BY <1>1, <1>3, <1>5 DEF IsFiltered
<1> QED BY <1>1, <1>2, <1>3, <1>4, <1>6 DEF t

\* Induction over lists that grow at their end, with the statement as a set of
\* lists.
LEMMA PrefixInduction ==
  ASSUME NEW S, NEW Q, <<>> \in Q,
         \A s \in Seq(S) : \A x \in S : s \in Q => Append(s, x) \in Q
  PROVE  Seq(S) \subseteq Q
<1> SUFFICES ASSUME NEW s \in Seq(S) PROVE s \in Q
  OBVIOUS
<1> DEFINE n == Len(s)
           Prefix(i) == SubSeq(s, 1, i)
           P == {i \in 0 .. n : Prefix(i) \in Q}
<1>1. n \in Nat
  OBVIOUS
<1>2. 0 \in P
  <2>1. Prefix(0) = <<>>
    BY SubSeqEmpty
  <2> HIDE DEF Prefix
  <2> QED BY <1>1, <2>1
<1>3. ASSUME NEW i \in 0 .. n - 1, i \in P PROVE i + 1 \in P
  <2>1. i \in Nat /\ i + 1 \in 1 .. Len(s) /\ i + 1 \in 0 .. n /\ s[i + 1] \in S
    BY <1>1
  <2>2. Prefix(i) \in Seq(S) /\ Len(Prefix(i)) = i
        /\ \A j \in 1 .. i : Prefix(i)[j] = s[j]
    BY <2>1, SubSeqProperties
  <2>3. Prefix(i + 1) \in Seq(S) /\ Len(Prefix(i + 1)) = i + 1
        /\ \A j \in 1 .. i + 1 : Prefix(i + 1)[j] = s[j]
    BY <2>1, SubSeqProperties
  <2>4. Prefix(i) \in Q
    BY <1>3
  <2> HIDE DEF Prefix
  <2>5. Prefix(i + 1) = Append(Prefix(i), s[i + 1])
    <3> DEFINE u == Prefix(i + 1)
               v == Append(Prefix(i), s[i + 1])
    <3>1. v \in Seq(S) /\ Len(v) = i + 1 /\ \A j \in 1 .. i + 1 : v[j] = s[j]
      BY <2>1, <2>2
    <3>2. u \in Seq(S) /\ Len(u) = i + 1 /\ \A j \in 1 .. i + 1 : u[j] = s[j]
      BY <2>3
    <3> HIDE DEF u, v
    <3>3. u = v
      BY <3>1, <3>2, SeqEqual
    <3> QED BY <3>3 DEF u, v
  <2>6. Append(Prefix(i), s[i + 1]) \in Q
    BY <2>1, <2>2, <2>4
  <2> QED BY <2>1, <2>5, <2>6
<1>5. Prefix(n) = s
  BY SubSeqFull
<1> HIDE DEF P, Prefix
<1>4. 0 .. n \subseteq P
  <2> HIDE DEF n
  <2> QED BY <1>1, <1>2, <1>3, Induct, Lists!UpTo
<1>6. n \in P
  BY <1>1, <1>4
<1> QED BY <1>5, <1>6 DEF P

\* What is kept of a list is a list of its elements.
LEMMA FilterType ==
  ASSUME NEW S, NEW s \in Seq(S), NEW A
  PROVE  Filtered(s, A) \in Seq(S)
<1> DEFINE Q == {t \in Seq(S) : Filtered(t, A) \in Seq(S)}
<1>1. <<>> \in Q
  <2>1. <<>> \in Seq(S) /\ Filtered(<<>>, A) = <<>>
    BY FilterNone, EmptySeq
  <2> QED BY <2>1
<1>2. ASSUME NEW t \in Seq(S), NEW x \in S, t \in Q PROVE Append(t, x) \in Q
  <2>1. Filtered(t, A) \in Seq(S) /\ Append(t, x) \in Seq(S)
    BY <1>2
  <2>2. Filtered(Append(t, x), A)
          = IF x \in A THEN Append(Filtered(t, A), x) ELSE Filtered(t, A)
    BY FilterAppend
  <2>3. Filtered(Append(t, x), A) \in Seq(S)
    BY <2>1, <2>2
  <2> QED BY <2>1, <2>3
<1> HIDE DEF Q
<1>3. Seq(S) \subseteq Q
  BY <1>1, <1>2, PrefixInduction
<1> QED BY <1>3 DEF Q

\* Filtering two row groups one after the other filters the table of both.
LEMMA FilterConcat ==
  ASSUME NEW S, NEW s \in Seq(S), NEW t \in Seq(S), NEW A
  PROVE  Filtered(s \o t, A) = Filtered(s, A) \o Filtered(t, A)
<1> DEFINE Q == {u \in Seq(S) : Filtered(s \o u, A) = Filtered(s, A) \o Filtered(u, A)}
<1>1. <<>> \in Q
  <2>1. <<>> \in Seq(S) /\ Filtered(<<>>, A) = <<>>
    BY FilterNone, EmptySeq
  <2>2. s \o <<>> = s /\ Filtered(s, A) \o <<>> = Filtered(s, A)
    BY FilterType, ConcatEmptySeq
  <2> QED BY <2>1, <2>2
<1>2. ASSUME NEW u \in Seq(S), NEW x \in S, u \in Q PROVE Append(u, x) \in Q
  <2>1. s \o Append(u, x) = Append(s \o u, x) /\ s \o u \in Seq(S) /\ Append(u, x) \in Seq(S)
    OBVIOUS
  <2>2. Filtered(s \o u, A) = Filtered(s, A) \o Filtered(u, A)
    BY <1>2
  <2>3. Filtered(s, A) \in Seq(S) /\ Filtered(u, A) \in Seq(S)
    BY FilterType
  <2>4. Filtered(s, A) \o Append(Filtered(u, A), x) = Append(Filtered(s, A) \o Filtered(u, A), x)
    BY <2>3
  <2>5. Filtered(Append(s \o u, x), A)
          = IF x \in A THEN Append(Filtered(s \o u, A), x) ELSE Filtered(s \o u, A)
    BY <2>1, FilterAppend
  <2>6. Filtered(Append(u, x), A)
          = IF x \in A THEN Append(Filtered(u, A), x) ELSE Filtered(u, A)
    BY FilterAppend
  <2>7. Filtered(s \o Append(u, x), A) = Filtered(s, A) \o Filtered(Append(u, x), A)
    BY <2>1, <2>2, <2>4, <2>5, <2>6
  <2> QED BY <2>1, <2>7
<1> HIDE DEF Q
<1>3. Seq(S) \subseteq Q
  BY <1>1, <1>2, PrefixInduction
<1> QED BY <1>3 DEF Q

\* h[i] is the place in s of the i-th element that is kept: in the same order,
\* and no element of A is missing.
IsPlaces(h, s, A) ==
  LET t == Filtered(s, A)
  IN /\ Len(t) <= Len(s)
     /\ h \in [1 .. Len(t) -> 1 .. Len(s)]
     /\ \A i, j \in 1 .. Len(t) : i < j => h[i] < h[j]
     /\ \A i \in 1 .. Len(t) : t[i] = s[h[i]] /\ t[i] \in A
     /\ \A j \in 1 .. Len(s) : s[j] \in A => \E i \in 1 .. Len(t) : h[i] = j

\* Filtering forgets no element of A, and keeps the order.
LEMMA FilterPlaces ==
  ASSUME NEW S, NEW s \in Seq(S), NEW A
  PROVE  \E h : IsPlaces(h, s, A)
<1> DEFINE Q == {t \in Seq(S) : \E h : IsPlaces(h, t, A)}
<1>1. <<>> \in Q
  <2> DEFINE h == [i \in {} |-> 0]
             e == <<>>
  <2>1. e \in Seq(S) /\ Len(e) = 0 /\ Filtered(e, A) = e
    BY FilterNone, EmptySeq
  <2> HIDE DEF e
  <2>2. IsPlaces(h, e, A)
    BY <2>1 DEF IsPlaces
  <2> HIDE DEF h
  <2> QED BY <2>1, <2>2 DEF e
<1>2. ASSUME NEW t \in Seq(S), NEW x \in S, t \in Q PROVE Append(t, x) \in Q
  <2>1. PICK h : IsPlaces(h, t, A)
    BY <1>2
  <2> DEFINE u == Append(t, x)
             v == Filtered(t, A)
             w == Filtered(u, A)
             n == Len(t)
             m == Len(v)
  <2>2. /\ u \in Seq(S) /\ Len(u) = n + 1 /\ u[n + 1] = x /\ n \in Nat
        /\ \A i \in 1 .. n : u[i] = t[i]
    OBVIOUS
  <2>3. v \in Seq(S) /\ m \in Nat
    <3>1. v \in Seq(S)
      BY FilterType
    <3> QED BY <3>1
  <2>4. w = IF x \in A THEN Append(v, x) ELSE v
    BY FilterAppend
  <2>5. /\ m <= n
        /\ h \in [1 .. m -> 1 .. n]
        /\ \A i, j \in 1 .. m : i < j => h[i] < h[j]
        /\ \A i \in 1 .. m : v[i] = t[h[i]] /\ v[i] \in A
        /\ \A j \in 1 .. n : t[j] \in A => \E i \in 1 .. m : h[i] = j
    BY <2>1 DEF IsPlaces
  <2> HIDE DEF u, v, w, n, m
  <2>6. \E k : IsPlaces(k, u, A)
    <3>1. CASE x \notin A
      <4>1. w = v /\ Len(w) = m
        BY <2>4, <3>1 DEF m
      <4>2. /\ h \in [1 .. m -> 1 .. n + 1]
            /\ \A i \in 1 .. m : v[i] = u[h[i]]
            /\ m <= n + 1
        <5>1. \A i \in 1 .. m : h[i] \in 1 .. n /\ h[i] \in 1 .. n + 1
          BY <2>2, <2>5
        <5>2. \A i \in 1 .. m : v[i] = u[h[i]]
          BY <2>2, <2>5, <5>1
        <5> QED BY <2>2, <2>3, <2>5, <5>1, <5>2
      <4>3. \A j \in 1 .. n + 1 : u[j] \in A => \E i \in 1 .. m : h[i] = j
        <5> TAKE j \in 1 .. n + 1
        <5>1. CASE j = n + 1
          BY <5>1, <2>2, <3>1
        <5>2. CASE j # n + 1
          BY <5>2, <2>2, <2>5
        <5> QED BY <5>1, <5>2
      <4>4. IsPlaces(h, u, A)
        BY <2>2, <2>5, <4>1, <4>2, <4>3 DEF IsPlaces, w
      <4> QED BY <4>4
    <3>2. CASE x \in A
      <4> DEFINE k == [i \in 1 .. m + 1 |-> IF i = m + 1 THEN n + 1 ELSE h[i]]
      <4>1. /\ w = Append(v, x) /\ Len(w) = m + 1 /\ w[m + 1] = x
            /\ \A i \in 1 .. m : w[i] = v[i]
        BY <2>3, <2>4, <3>2 DEF m
      <4>2. k[m + 1] = n + 1 /\ \A i \in 1 .. m : k[i] = h[i]
        BY <2>3
      <4>3. k \in [1 .. m + 1 -> 1 .. n + 1]
        BY <2>2, <2>3, <2>5
      <4> HIDE DEF k
      <4>4. \A i, j \in 1 .. m + 1 : i < j => k[i] < k[j]
        <5> SUFFICES ASSUME NEW i \in 1 .. m + 1, NEW j \in 1 .. m + 1, i < j
                     PROVE  k[i] < k[j]
          OBVIOUS
        <5>1. i \in 1 .. m
          BY <2>3
        <5>2. CASE j = m + 1
          BY <5>1, <5>2, <4>2, <2>2, <2>5
        <5>3. CASE j # m + 1
          <6>1. j \in 1 .. m
            BY <5>3, <2>3
          <6> QED BY <6>1, <5>1, <4>2, <2>5
        <5> QED BY <5>2, <5>3
      <4>5. \A i \in 1 .. m + 1 : w[i] = u[k[i]] /\ w[i] \in A
        <5> TAKE i \in 1 .. m + 1
        <5>1. CASE i = m + 1
          BY <5>1, <4>1, <4>2, <2>2, <3>2
        <5>2. CASE i # m + 1
          <6>1. i \in 1 .. m /\ h[i] \in 1 .. n
            BY <5>2, <2>3, <2>5
          <6> QED BY <6>1, <4>1, <4>2, <2>2, <2>5
        <5> QED BY <5>1, <5>2
      <4>6. \A j \in 1 .. n + 1 : u[j] \in A => \E i \in 1 .. m + 1 : k[i] = j
        <5> TAKE j \in 1 .. n + 1
        <5>1. CASE j = n + 1
          <6>1. m + 1 \in 1 .. m + 1
            BY <2>3
          <6> QED BY <6>1, <5>1, <4>2
        <5>2. CASE j # n + 1
          <6>1. j \in 1 .. n /\ u[j] = t[j]
            BY <5>2, <2>2
          <6>2. \A i \in 1 .. m : i \in 1 .. m + 1
            BY <2>3
          <6> QED BY <6>1, <6>2, <4>2, <2>5
        <5> QED BY <5>1, <5>2
      <4>7. m + 1 <= n + 1
        BY <2>2, <2>3, <2>5
      <4>8. IsPlaces(k, u, A)
        BY <2>2, <4>1, <4>3, <4>4, <4>5, <4>6, <4>7 DEF IsPlaces, w
      <4> QED BY <4>8
    <3> QED BY <3>1, <3>2
  <2> QED BY <2>2, <2>6 DEF u
<1> HIDE DEF Q
<1>3. Seq(S) \subseteq Q
  BY <1>1, <1>2, PrefixInduction
<1> QED BY <1>3 DEF Q

\* Two conditions that agree on the elements of a list filter it alike.
LEMMA FilterSame ==
  ASSUME NEW S, NEW s \in Seq(S), NEW A, NEW B, \A i \in 1 .. Len(s) : s[i] \in A <=> s[i] \in B
  PROVE  Filtered(s, A) = Filtered(s, B)
<1>1. PICK F : IsFiltered(F, s, A) /\ Filtered(s, A) = F[Len(s)]
  BY FilterTrace
<1>2. PICK G : IsFiltered(G, s, B) /\ Filtered(s, B) = G[Len(s)]
  BY FilterTrace
<1>3. IsFiltered(F, s, B)
  BY <1>1 DEF IsFiltered
<1>4. Len(s) \in Nat /\ Len(s) <= Len(s)
  OBVIOUS
<1>5. F[Len(s)] = G[Len(s)]
  BY <1>2, <1>3, <1>4, FilterTracesAgree
<1> QED BY <1>1, <1>2, <1>5

\* Nothing is left of a list without an element of A.
LEMMA FilterNothing ==
  ASSUME NEW S, NEW s \in Seq(S), NEW A, \A i \in 1 .. Len(s) : s[i] \notin A
  PROVE  Filtered(s, A) = <<>>
<1>1. PICK h : IsPlaces(h, s, A)
  BY FilterPlaces
<1>2. Filtered(s, A) \in Seq(S)
  BY FilterType
<1>3. \A i \in 1 .. Len(Filtered(s, A)) : FALSE
  BY <1>1 DEF IsPlaces
<1> QED BY <1>2, <1>3

\* The numbers 1 .. n, and the elements of s with some of these numbers.
Numbers(n) == [k \in 1 .. n |-> k]

\* The elements of s with these numbers.
At(s, numbers) == [k \in 1 .. Len(numbers) |-> s[numbers[k]]]

\* FilterOperator keeps the numbers of the rows and takes the rows with these
\* numbers then: the same as filtering the rows.
LEMMA FilterNumbers ==
  ASSUME NEW S, NEW s \in Seq(S), NEW A, NEW T, \A i \in 1 .. Len(s) : i \in T <=> s[i] \in A
  PROVE  At(s, Filtered(Numbers(Len(s)), T)) = Filtered(s, A)
<1> DEFINE Fits(t) == \A i \in 1 .. Len(t) : i \in T <=> t[i] \in A
           Fine(t) == At(t, Filtered(Numbers(Len(t)), T)) = Filtered(t, A)
           Q == {t \in Seq(S) : Fits(t) => Fine(t)}
<1>1. <<>> \in Q
  <2> DEFINE e == <<>>
  <2>1. e \in Seq(S) /\ Len(e) = 0 /\ Filtered(e, A) = e /\ Filtered(e, T) = e
        /\ Numbers(0) = e
    BY FilterNone, EmptySeq DEF Numbers
  <2>2. At(e, e) = e
    BY DEF At
  <2> HIDE DEF e
  <2>3. Fine(e)
    BY <2>1, <2>2
  <2> QED BY <2>1, <2>3 DEF e
<1>2. ASSUME NEW t \in Seq(S), NEW x \in S, t \in Q PROVE Append(t, x) \in Q
  <2> DEFINE u == Append(t, x)
             n == Len(t)
             v == Filtered(Numbers(n), T)
             w == Filtered(Numbers(n + 1), T)
  <2>1. /\ u \in Seq(S) /\ Len(u) = n + 1 /\ u[n + 1] = x /\ n \in Nat
        /\ \A i \in 1 .. n : u[i] = t[i]
    OBVIOUS
  <2>2. Numbers(n + 1) = Append(Numbers(n), n + 1) /\ Numbers(n) \in Seq(1 .. n)
    <3> HIDE DEF n
    <3>1. Numbers(n) \in Seq(1 .. n) /\ Len(Numbers(n)) = n /\ Numbers(n) \in Seq(Nat)
      BY <2>1 DEF Numbers
    <3>2. Append(Numbers(n), n + 1) \in Seq(Nat) /\ Len(Append(Numbers(n), n + 1)) = n + 1
          /\ \A i \in 1 .. n + 1 : Append(Numbers(n), n + 1)[i] = i
      BY <2>1, <3>1 DEF Numbers
    <3>3. Numbers(n + 1) \in Seq(Nat) /\ Len(Numbers(n + 1)) = n + 1
          /\ \A i \in 1 .. n + 1 : Numbers(n + 1)[i] = i
      BY <2>1 DEF Numbers
    <3>4. Numbers(n + 1) = Append(Numbers(n), n + 1)
      BY <3>2, <3>3, SeqEqual
    <3> QED BY <3>1, <3>4
  <2>3. v \in Seq(1 .. n)
    BY <2>2, FilterType
  <2>4. w = IF n + 1 \in T THEN Append(v, n + 1) ELSE v
    <3> HIDE DEF n
    <3>1. Numbers(n) \in Seq(Nat) /\ n + 1 \in Nat
      BY <2>1, <2>2
    <3> DEFINE a == Numbers(n)
               b == n + 1
    <3> HIDE DEF a, b
    <3>2. Filtered(Append(a, b), T) = IF b \in T THEN Append(Filtered(a, T), b) ELSE Filtered(a, T)
      <4>1. a \in Seq(Nat) /\ b \in Nat
        BY <3>1 DEF a, b
      <4> QED BY <4>1, FilterAppend
    <3> USE DEF a, b
    <3> QED BY <2>2, <3>2
  <2>5. Filtered(u, A) = IF x \in A THEN Append(Filtered(t, A), x) ELSE Filtered(t, A)
    BY FilterAppend
  <2>6. Fits(t) => At(t, v) = Filtered(t, A)
    BY <1>2
  <2> HIDE DEF u, v, w, n
  <2>7. ASSUME Fits(u) PROVE At(u, w) = Filtered(u, A)
    <3>1. Fits(t)
      BY <2>1, <2>7 DEF n
    <3>2. n + 1 \in T <=> x \in A
      BY <2>1, <2>7
    <3>3. At(u, v) = At(t, v)
      <4>1. \A k \in 1 .. Len(v) : u[v[k]] = t[v[k]]
        BY <2>1, <2>3
      <4> QED BY <4>1 DEF At
    <3>4. At(u, Append(v, n + 1)) = Append(At(u, v), x)
      <4> DEFINE m == Len(v)
                 c == Append(v, n + 1)
                 l == At(u, c)
                 r == Append(At(u, v), x)
      <4>1. /\ m \in Nat /\ Len(c) = m + 1 /\ c[m + 1] = n + 1
            /\ \A i \in 1 .. m : c[i] = v[i] /\ v[i] \in 1 .. n
        <5>1. v \in Seq(Nat) /\ n + 1 \in Nat
          BY <2>1, <2>3
        <5>2. \A i \in 1 .. m : v[i] \in 1 .. n
          BY <2>3, ElementOfSeq
        <5> HIDE DEF v
        <5> QED BY <5>1, <5>2
      <4>2. At(u, v) \in Seq(S) /\ Len(At(u, v)) = m /\ \A i \in 1 .. m : At(u, v)[i] = u[v[i]]
        <5>1. \A i \in 1 .. m : u[v[i]] \in S
          BY <4>1, <2>1
        <5> QED BY <4>1, <5>1 DEF At
      <4> HIDE DEF m, c
      <4>3. r \in Seq(S) /\ Len(r) = m + 1 /\ r[m + 1] = x /\ \A i \in 1 .. m : r[i] = u[v[i]]
        BY <4>1, <4>2
      <4>4. l \in Seq(S) /\ Len(l) = m + 1 /\ l[m + 1] = x /\ \A i \in 1 .. m : l[i] = u[v[i]]
        <5>1. \A i \in 1 .. m + 1 : u[c[i]] \in S
          <6> TAKE i \in 1 .. m + 1
          <6>1. CASE i = m + 1
            BY <6>1, <4>1, <2>1
          <6>2. CASE i # m + 1
            <7>1. i \in 1 .. m
              BY <6>2, <4>1
            <7>2. c[i] = v[i] /\ v[i] \in 1 .. Len(u)
              BY <7>1, <4>1, <2>1
            <7> QED BY <7>2, <2>1, ElementOfSeq
          <6> QED BY <6>1, <6>2
        <5>2. m + 1 \in 1 .. m + 1 /\ \A i \in 1 .. m : i \in 1 .. m + 1
          BY <4>1
        <5>3. l = [i \in 1 .. m + 1 |-> u[c[i]]]
          BY <4>1 DEF At
        <5> HIDE DEF l
        <5>4. l \in Seq(S) /\ Len(l) = m + 1
          BY <5>1, <5>3, <4>1
        <5> QED BY <5>2, <5>3, <5>4, <4>1, <2>1
      <4> HIDE DEF l, r
      <4>5. \A i \in 1 .. m + 1 : l[i] = r[i]
        BY <4>1, <4>3, <4>4
      <4>6. l = r
        BY <4>3, <4>4, <4>5, SeqEqual
      <4> QED BY <4>6 DEF l, r, c
    <3>5. At(t, v) = Filtered(t, A)
      BY <2>6, <3>1
    <3> QED BY <2>4, <2>5, <3>2, <3>3, <3>4, <3>5
  <2> QED BY <2>1, <2>7 DEF w, u, n
<1> HIDE DEF Q
<1>3. Seq(S) \subseteq Q
  BY <1>1, <1>2, PrefixInduction
<1> QED BY <1>3 DEF Q

\* No row group has no row.
LEMMA FlattenNone == FlattenSeq(<<>>) = <<>>
<1> DEFINE ss == <<>>
<1>1. ss \in Seq(Seq({})) /\ Len(ss) = 0
  OBVIOUS
<1> HIDE DEF ss
<1>2. PICK F : IsFlat(F, ss, {}) /\ FlattenSeq(ss) = F[Len(ss)]
  BY <1>1, FlattenTrace
<1> QED BY <1>1, <1>2 DEF IsFlat, ss

\* The rows of a table are the rows of its row groups.
LEMMA FlattenType ==
  ASSUME NEW S, NEW ss \in Seq(Seq(S))
  PROVE  FlattenSeq(ss) \in Seq(S)
<1>1. PICK F : IsFlat(F, ss, S) /\ FlattenSeq(ss) = F[Len(ss)]
  BY FlattenTrace
<1>2. Len(ss) \in 0 .. Len(ss)
  OBVIOUS
<1> QED BY <1>1, <1>2 DEF IsFlat

\* The rows of a further row group follow the rows so far.
LEMMA FlattenAppend ==
  ASSUME NEW S, NEW ss \in Seq(Seq(S)), NEW s \in Seq(S)
  PROVE  FlattenSeq(Append(ss, s)) = FlattenSeq(ss) \o s
<1> DEFINE n == Len(ss)
           tt == Append(ss, s)
<1>1. /\ tt \in Seq(Seq(S)) /\ n \in Nat /\ Len(tt) = n + 1 /\ tt[n + 1] = s
      /\ \A i \in 1 .. n : tt[i] = ss[i]
  OBVIOUS
<1> HIDE DEF tt
<1>2. PICK F : IsFlat(F, ss, S) /\ FlattenSeq(ss) = F[n]
  BY FlattenTrace
<1>3. PICK G : IsFlat(G, tt, S) /\ FlattenSeq(tt) = G[Len(tt)]
  BY <1>1, FlattenTrace
<1> DEFINE P == {i \in 0 .. n : F[i] = G[i]}
<1>4. 0 \in P
  BY <1>1, <1>2, <1>3 DEF IsFlat
<1>5. ASSUME NEW i \in 0 .. n - 1, i \in P PROVE i + 1 \in P
  <2>1. i + 1 \in 1 .. n /\ i + 1 \in 1 .. Len(tt) /\ (i + 1) - 1 = i /\ i + 1 \in 0 .. n
    BY <1>1
  <2>2. F[i + 1] = F[(i + 1) - 1] \o ss[i + 1]
    BY <1>2, <2>1 DEF IsFlat
  <2>3. G[i + 1] = G[(i + 1) - 1] \o tt[i + 1]
    BY <1>3, <2>1 DEF IsFlat
  <2>4. F[i] = G[i]
    BY <1>5
  <2> QED BY <1>1, <2>1, <2>2, <2>3, <2>4
<1> HIDE DEF P
<1>6. 0 .. n \subseteq P
  <2> HIDE DEF n
  <2> QED BY <1>1, <1>4, <1>5, Induct, Lists!UpTo
<1>7. F[n] = G[n]
  <2>1. n \in P
    BY <1>1, <1>6
  <2> QED BY <2>1 DEF P
<1>8. n + 1 \in 1 .. Len(tt) /\ (n + 1) - 1 = n
  BY <1>1
<1>9. G[n + 1] = G[n] \o s
  BY <1>1, <1>3, <1>8 DEF IsFlat
<1> QED BY <1>1, <1>2, <1>3, <1>7, <1>9 DEF tt

\* A table of one row group has its rows.
LEMMA FlattenOne ==
  ASSUME NEW S, NEW s \in Seq(S)
  PROVE  FlattenSeq(<<s>>) = s
<1>1. <<s>> = Append(<<>>, s) /\ <<>> \in Seq(Seq(S))
  OBVIOUS
<1>2. FlattenSeq(Append(<<>>, s)) = FlattenSeq(<<>>) \o s
  BY <1>1, FlattenAppend
<1> QED BY <1>1, <1>2, FlattenNone, ConcatEmptySeq

\* The first row groups of a table and the next one.
LEMMA FlattenPrefix ==
  ASSUME NEW S, NEW ss \in Seq(Seq(S)), NEW i \in 1 .. Len(ss)
  PROVE  FlattenSeq(SubSeq(ss, 1, i)) = FlattenSeq(SubSeq(ss, 1, i - 1)) \o ss[i]
<1>1. i - 1 \in Nat /\ i \in Nat /\ 1 \in 1 .. Len(ss) /\ i \in 1 .. Len(ss)
  OBVIOUS
<1>2. SubSeq(ss, 1, i) = SubSeq(ss, 1, i - 1) \o <<ss[i]>>
  BY <1>1, SubSeqRecursiveSecond
<1>3. SubSeq(ss, 1, i - 1) \in Seq(Seq(S)) /\ ss[i] \in Seq(S)
  BY <1>1, SubSeqProperties
<1> DEFINE u == SubSeq(ss, 1, i - 1)
<1> HIDE DEF u
<1>4. u \o <<ss[i]>> = Append(u, ss[i]) /\ u \in Seq(Seq(S))
  BY <1>3 DEF u
<1> QED BY <1>2, <1>3, <1>4, FlattenAppend DEF u

-----------------------------------------------------------------------------
\* The sort: comp is a strict weak order, and its queue keeps the best rows.

USE SortingAssumption

\* Every set of numbers that is not empty has a least one: the intervals up
\* to its members are finite sets, and one of them contains no other.
LEMMA LeastMember ==
  ASSUME NEW S \in SUBSET Nat, S # {}
  PROVE  \E m \in S : \A k \in S : m <= k
<1> DEFINE T == {1 .. m : m \in S}
<1>1. T \subseteq FiniteSubsetsOf(Nat)
  <2> SUFFICES ASSUME NEW m \in S
               PROVE  1 .. m \in FiniteSubsetsOf(Nat)
    OBVIOUS
  <2>1. m \in Int /\ 1 \in Int
    OBVIOUS
  <2>2. IsFiniteSet(1 .. m)
    BY <2>1, FS_Interval
  <2> QED BY <2>2 DEF FiniteSubsetsOf
<1>2. T # {}
  OBVIOUS
<1>3. PICK x \in T : \A y \in T : ~(<<y, x>> \in StrictSubsetOrdering(Nat))
  <2> HIDE DEF T
  <2> QED BY <1>1, <1>2, FS_StrictSubsetOrderingWellFounded, WFMin
<1>4. PICK m \in S : x = 1 .. m
  BY <1>3
<1>5. ASSUME NEW k \in S
      PROVE  m <= k
  <2> SUFFICES ASSUME k < m
               PROVE  FALSE
    OBVIOUS
  <2>1. /\ 1 .. k \subseteq 1 .. m
        /\ 1 .. k # 1 .. m
    <3>1. m \in 1 .. m /\ m \notin 1 .. k
      OBVIOUS
    <3> QED BY <3>1
  <2>2. <<1 .. k, 1 .. m>> \in StrictSubsetOrdering(Nat)
    BY <2>1 DEF StrictSubsetOrdering
  <2> QED BY <1>3, <1>4, <2>2
<1> QED BY <1>5

-----------------------------------------------------------------------------
\* Rows that comp cannot tell apart.
Same(a, b) ==
  \A n \in 1 .. Len(OrderByIds) : a[OrderByIds[n]] = b[OrderByIds[n]]

LEMMA SortColumns ==
  ASSUME NEW a \in Row, NEW n \in 1 .. Len(OrderByIds)
  PROVE  a[OrderByIds[n]] \in Int
BY DEF Row

LEMMA BeforeIsAsymmetric ==
  ASSUME NEW a \in Row, NEW b \in Row, Before(a, b)
  PROVE  ~Before(b, a)
<1> SUFFICES ASSUME Before(b, a)
             PROVE  FALSE
  OBVIOUS
<1>1. PICK n \in 1 .. Len(OrderByIds) :
        /\ \A m \in 1 .. n - 1 : a[OrderByIds[m]] = b[OrderByIds[m]]
        /\ Smaller(a[OrderByIds[n]], b[OrderByIds[n]])
  BY DEF Before
<1>2. PICK k \in 1 .. Len(OrderByIds) :
        /\ \A m \in 1 .. k - 1 : b[OrderByIds[m]] = a[OrderByIds[m]]
        /\ Smaller(b[OrderByIds[k]], a[OrderByIds[k]])
  BY DEF Before
<1>3. /\ a[OrderByIds[n]] \in Int /\ b[OrderByIds[n]] \in Int
      /\ a[OrderByIds[k]] \in Int /\ b[OrderByIds[k]] \in Int
  BY SortColumns
<1>4. CASE n < k
  BY <1>1, <1>2, <1>3, <1>4 DEF Smaller
<1>5. CASE k < n
  BY <1>1, <1>2, <1>3, <1>5 DEF Smaller
<1>6. CASE n = k
  BY <1>1, <1>2, <1>3, <1>6 DEF Smaller
<1> QED BY <1>4, <1>5, <1>6

LEMMA BeforeIsTransitive ==
  ASSUME NEW a \in Row, NEW b \in Row, NEW c \in Row,
         Before(a, b), Before(b, c)
  PROVE  Before(a, c)
<1>1. PICK n \in 1 .. Len(OrderByIds) :
        /\ \A m \in 1 .. n - 1 : a[OrderByIds[m]] = b[OrderByIds[m]]
        /\ Smaller(a[OrderByIds[n]], b[OrderByIds[n]])
  BY DEF Before
<1>2. PICK k \in 1 .. Len(OrderByIds) :
        /\ \A m \in 1 .. k - 1 : b[OrderByIds[m]] = c[OrderByIds[m]]
        /\ Smaller(b[OrderByIds[k]], c[OrderByIds[k]])
  BY DEF Before
<1>3. /\ a[OrderByIds[n]] \in Int /\ b[OrderByIds[n]] \in Int
      /\ c[OrderByIds[n]] \in Int /\ a[OrderByIds[k]] \in Int
      /\ b[OrderByIds[k]] \in Int /\ c[OrderByIds[k]] \in Int
  BY SortColumns
<1>4. CASE n < k
  <2>1. /\ \A m \in 1 .. n - 1 : a[OrderByIds[m]] = c[OrderByIds[m]]
        /\ Smaller(a[OrderByIds[n]], c[OrderByIds[n]])
    BY <1>1, <1>2, <1>4
  <2> QED BY <2>1 DEF Before
<1>5. CASE k < n
  <2>1. /\ \A m \in 1 .. k - 1 : a[OrderByIds[m]] = c[OrderByIds[m]]
        /\ Smaller(a[OrderByIds[k]], c[OrderByIds[k]])
    BY <1>1, <1>2, <1>5
  <2> QED BY <2>1 DEF Before
<1>6. CASE n = k
  <2>1. /\ \A m \in 1 .. n - 1 : a[OrderByIds[m]] = c[OrderByIds[m]]
        /\ Smaller(a[OrderByIds[n]], c[OrderByIds[n]])
    BY <1>1, <1>2, <1>3, <1>6 DEF Smaller
  <2> QED BY <2>1 DEF Before
<1> QED BY <1>4, <1>5, <1>6

\* The first sort column in which two rows differ decides between them.
LEMMA BeforeIsTotal ==
  ASSUME NEW a \in Row, NEW b \in Row
  PROVE  Before(a, b) \/ Before(b, a) \/ Same(a, b)
<1> DEFINE D == {n \in 1 .. Len(OrderByIds) : a[OrderByIds[n]] # b[OrderByIds[n]]}
<1> SUFFICES ASSUME ~Same(a, b)
             PROVE  Before(a, b) \/ Before(b, a)
  OBVIOUS
<1>1. D # {} /\ D \in SUBSET Nat
  BY DEF Same
<1>2. PICK n \in D : \A k \in D : n <= k
  <2> HIDE DEF D
  <2> QED BY <1>1, LeastMember
<1>3. \A m \in 1 .. n - 1 : a[OrderByIds[m]] = b[OrderByIds[m]]
  BY <1>2
<1>4. /\ a[OrderByIds[n]] \in Int /\ b[OrderByIds[n]] \in Int
      /\ a[OrderByIds[n]] # b[OrderByIds[n]]
  BY <1>2, SortColumns
<1>5. \/ Smaller(a[OrderByIds[n]], b[OrderByIds[n]])
      \/ Smaller(b[OrderByIds[n]], a[OrderByIds[n]])
  BY <1>4 DEF Smaller
<1> QED BY <1>2, <1>3, <1>5 DEF Before

LEMMA SameIsHarmless ==
  ASSUME NEW a \in Row, NEW b \in Row, NEW c \in Row, Same(a, b)
  PROVE  /\ Before(b, c) => Before(a, c)
         /\ Before(c, b) => Before(c, a)
BY DEF Same, Before

\* comp is a strict weak order, as std::sort and std::priority_queue demand:
\* what does not come before something that does not come before c does not
\* come before c.
THEOREM ComparisonIsAWeakOrder ==
  ASSUME NEW a \in Row, NEW b \in Row, NEW c \in Row,
         ~Before(a, b), ~Before(b, c)
  PROVE  ~Before(a, c)
<1> SUFFICES ASSUME Before(a, c)
             PROVE  FALSE
  OBVIOUS
<1>1. ~Before(c, a)
  BY BeforeIsAsymmetric
<1>2. Before(b, a) \/ Same(a, b)
  BY BeforeIsTotal
<1>3. Before(b, c)
  BY <1>2, BeforeIsTransitive, SameIsHarmless DEF Same
<1> QED BY <1>3

-----------------------------------------------------------------------------
\* Everything is kept until the limit is reached, and K rows from then on.
AmountInv ==
  /\ ~limited \/ read <= K => kept = 1 .. read
  /\ limited /\ read > K => Cardinality(kept) = K

\* No row that was dropped belongs before one that is kept.
BestInv ==
  \A x \in (1 .. read) \ kept : \A y \in kept : ~Before(rows[x], rows[y])

AnswerInv ==
  phase = "done" =>
    /\ read = Len(rows)
    /\ result \in [1 .. Cardinality(kept) -> kept]
    /\ Sorted(result)

IInv == TypeOK /\ AmountInv /\ BestInv /\ AnswerInv

\* The rows that are kept, and how many they are.
LEMMA KeptIsFinite ==
  ASSUME TypeOK, AmountInv
  PROVE  /\ IsFiniteSet(kept) /\ Cardinality(kept) \in Nat
         /\ Cardinality(kept) = Count(read)
         /\ Full <=> limited /\ read >= K
<1>1. read \in Nat
  BY DEF TypeOK, Batch
<1>2. IsFiniteSet(1 .. read) /\ Cardinality(1 .. read) = read
  BY <1>1, FS_Interval
<1>3. IsFiniteSet(kept)
  BY <1>2, FS_Subset DEF TypeOK
<1>4. Cardinality(kept) \in Nat
  BY <1>3, FS_CardinalityType
<1>5. Cardinality(kept) = Count(read)
  BY <1>1, <1>2 DEF AmountInv, Count
<1>6. Full <=> limited /\ read >= K
  BY <1>1, <1>5 DEF Full, Count
<1> QED BY <1>3, <1>4, <1>5, <1>6

LEMMA InitEstablishesIInv == Init => IInv
<1> SUFFICES ASSUME Init
             PROVE  IInv
  OBVIOUS
<1>1. TypeOK
  <2>1. /\ input \in Seq(Batch) /\ rows \in Batch /\ Len(rows) = 0
        /\ result \in Seq(Nat)
    BY DEF Init, Batch
  <2>2. kept \in SUBSET (1 .. read) /\ read \in 0 .. Len(rows)
    BY <2>1 DEF Init
  <2> QED BY <2>1, <2>2 DEF Init, TypeOK
<1>2. 1 .. read = {}
  BY DEF Init
<1> QED BY <1>1, <1>2 DEF Init, IInv, AmountInv, BestInv, AnswerInv

LEMMA PullBatchKeepsIInv ==
  ASSUME IInv, PullBatch
  PROVE  IInv'
<1>1. /\ Head(input) \in Batch /\ input' \in Seq(Batch)
  BY HeadTailProperties DEF IInv, TypeOK, PullBatch
<1>2. /\ rows' \in Batch
      /\ Len(rows) <= Len(rows')
      /\ \A x \in 1 .. Len(rows) : rows'[x] = rows[x]
  <2>1. rows \in Seq(Row) /\ Head(input) \in Seq(Row)
    BY <1>1 DEF IInv, TypeOK, Batch
  <2>2. rows' = rows \o Head(input)
    BY DEF PullBatch
  <2> QED BY <2>1, <2>2, ConcatProperties DEF Batch
<1>3. TypeOK'
  BY <1>1, <1>2 DEF IInv, TypeOK, PullBatch, Batch
<1>4. BestInv'
  BY <1>2 DEF IInv, TypeOK, BestInv, PullBatch, Batch
<1> QED BY <1>3, <1>4 DEF IInv, AmountInv, AnswerInv, PullBatch

\* The facts about the row that is looked at.
LEMMA CurrentRow ==
  ASSUME IInv, More
  PROVE  /\ Current \in 1 .. Len(rows) /\ Current \notin kept
         /\ read \in Nat /\ Len(rows) \in Nat
         /\ (1 .. Current) = (1 .. read) \cup {Current}
         /\ \A x \in 1 .. Current : rows[x] \in Row
<1>1. /\ Len(rows) \in Nat /\ read \in 0 .. Len(rows) /\ read < Len(rows)
      /\ kept \subseteq 1 .. read
      /\ rows \in Seq(Row)
  BY DEF IInv, TypeOK, Batch, More
<1>2. Current \in 1 .. Len(rows) /\ Current \notin 1 .. read
  BY <1>1 DEF Current
<1>3. (1 .. Current) = (1 .. read) \cup {Current}
  BY <1>1 DEF Current
<1>4. \A x \in 1 .. Len(rows) : rows[x] \in Row
  BY <1>1
<1> QED BY <1>1, <1>2, <1>3, <1>4 DEF Current

LEMMA KeepRowKeepsIInv ==
  ASSUME IInv, KeepRow
  PROVE  IInv'
<1>1. More /\ read' = Current /\ kept' = kept \cup {Current} /\ rows' = rows
  BY DEF KeepRow
<1>2. kept = 1 .. read
  <2>1. ~Full
    BY KeptIsFinite DEF KeepRow, Full, IInv
  <2>2. ~limited \/ read < K
    BY <2>1, KeptIsFinite, CurrentRow, <1>1 DEF IInv
  <2> QED BY <2>2, CurrentRow, <1>1 DEF IInv, AmountInv
<1>3. kept' = 1 .. read'
  BY <1>1, <1>2, CurrentRow
<1>4. TypeOK'
  <2>1. Current \in 0 .. Len(rows) /\ kept' \in SUBSET (1 .. Current)
    BY <1>1, <1>3, CurrentRow
  <2> QED BY <1>1, <2>1 DEF IInv, TypeOK, KeepRow
<1>5. AmountInv'
  <2>1. limited' = limited /\ (limited => read' <= K)
    BY <1>1, KeptIsFinite, CurrentRow DEF KeepRow, IInv, Count, Current
  <2> QED BY <1>3, <2>1, CurrentRow, <1>1 DEF AmountInv
<1>6. BestInv'
  BY <1>3 DEF BestInv
<1>7. AnswerInv'
  BY DEF KeepRow, More, AnswerInv
<1> QED BY <1>4, <1>5, <1>6, <1>7 DEF IInv

\* The top of the queue comes last of all that is kept, so that what does not
\* come before it belongs behind the kept rows.
LEMMA BehindTheTop ==
  ASSUME IInv, NEW t \in kept, IsTop(t),
         NEW x \in 1 .. Len(rows), ~Before(rows[x], rows[t])
  PROVE  \A y \in kept : ~Before(rows[x], rows[y])
<1> SUFFICES ASSUME NEW y \in kept
             PROVE  ~Before(rows[x], rows[y])
  OBVIOUS
<1>1. rows \in Seq(Row) /\ kept \subseteq 1 .. Len(rows)
  BY DEF IInv, TypeOK, Batch
<1>2. rows[x] \in Row /\ rows[t] \in Row /\ rows[y] \in Row
  BY <1>1
<1>3. ~Before(rows[t], rows[y])
  BY DEF IsTop
<1> QED BY <1>2, <1>3, ComparisonIsAWeakOrder

LEMMA DropRowKeepsIInv ==
  ASSUME IInv, DropRow
  PROVE  IInv'
<1>1. /\ More /\ Full /\ read' = Current /\ kept' = kept /\ rows' = rows
      /\ limited' = limited
  BY DEF DropRow
<1>2. TypeOK'
  <2>1. Current \in 0 .. Len(rows) /\ kept' \in SUBSET (1 .. Current)
    <3>1. kept \subseteq 1 .. read
      BY DEF IInv, TypeOK
    <3> QED BY <1>1, <3>1, CurrentRow
  <2> QED BY <1>1, <2>1 DEF IInv, TypeOK, DropRow
<1>3. AmountInv'
  <2>1. limited /\ read >= K /\ Cardinality(kept) = Count(read)
    BY <1>1, KeptIsFinite DEF IInv
  <2>2. Cardinality(kept) = K
    BY <2>1, CurrentRow, <1>1 DEF Count
  <2> QED BY <1>1, <2>1, <2>2, CurrentRow DEF AmountInv, Current
<1>4. BestInv'
  <2> SUFFICES ASSUME NEW x \in (1 .. Current) \ kept
               PROVE  \A y \in kept : ~Before(rows[x], rows[y])
    BY <1>1 DEF BestInv
  <2>1. CASE x = Current
    <3>1. PICK t \in kept : IsTop(t) /\ ~Before(rows[Current], rows[t])
      BY DEF DropRow
    <3> QED BY <2>1, <3>1, <1>1, BehindTheTop, CurrentRow
  <2>2. CASE x \in 1 .. read
    BY <2>2 DEF IInv, BestInv
  <2> QED BY <2>1, <2>2, <1>1, CurrentRow
<1>5. AnswerInv'
  BY DEF DropRow, More, AnswerInv
<1> QED BY <1>2, <1>3, <1>4, <1>5 DEF IInv

LEMMA ReplaceTopKeepsIInv ==
  ASSUME IInv, ReplaceTop
  PROVE  IInv'
<1>1. /\ More /\ Full /\ read' = Current /\ rows' = rows /\ limited' = limited
  BY DEF ReplaceTop
<1>2. PICK t \in kept :
        /\ IsTop(t) /\ Before(rows[Current], rows[t])
        /\ kept' = (kept \ {t}) \cup {Current}
  BY DEF ReplaceTop
<1>3. kept' \subseteq 1 .. Current /\ Current \notin kept
  BY <1>1, <1>2, CurrentRow DEF IInv, TypeOK
<1>4. TypeOK'
  <2>1. Current \in 0 .. Len(rows) /\ kept' \in SUBSET (1 .. Current)
    BY <1>1, <1>3, CurrentRow
  <2> QED BY <1>1, <2>1 DEF IInv, TypeOK, ReplaceTop
<1>5. AmountInv'
  <2>1. limited /\ read >= K /\ Cardinality(kept) = Count(read) /\ IsFiniteSet(kept)
    BY <1>1, KeptIsFinite DEF IInv
  <2>2. Cardinality(kept) = K
    BY <2>1, CurrentRow, <1>1 DEF Count
  <2>3. IsFiniteSet(kept \ {t}) /\ Cardinality(kept \ {t}) = K - 1
    BY <2>1, <2>2, FS_RemoveElement
  <2>4. Cardinality((kept \ {t}) \cup {Current}) = (K - 1) + 1
    BY <1>3, <2>3, FS_AddElement
  <2>5. Cardinality(kept') = K
    BY <1>2, <2>4
  <2> QED BY <1>1, <2>1, <2>5, CurrentRow DEF AmountInv, Current
<1>6. BestInv'
  <2> SUFFICES ASSUME NEW x \in (1 .. Current) \ kept', NEW y \in kept'
               PROVE  ~Before(rows[x], rows[y])
    BY <1>1 DEF BestInv
  <2>1. /\ rows[x] \in Row /\ rows[t] \in Row /\ rows[Current] \in Row
        /\ rows[y] \in Row /\ x \in 1 .. Len(rows)
    BY <1>1, <1>2, <1>3, CurrentRow DEF IInv, TypeOK, Current
  <2>2. \A z \in kept : ~Before(rows[x], rows[z])
    <3>1. CASE x = t
      BY <3>1, <1>2 DEF IsTop
    <3>2. CASE x # t
      <4>1. x \in (1 .. read) \ kept
        BY <3>2, <1>1, <1>2, CurrentRow
      <4> QED BY <4>1 DEF IInv, BestInv
    <3> QED BY <3>1, <3>2
  <2>3. CASE y = Current
    <3> SUFFICES ASSUME Before(rows[x], rows[Current])
                 PROVE  FALSE
      BY <2>3
    <3>1. Before(rows[x], rows[t])
      BY <1>2, <2>1, BeforeIsTransitive
    <3> QED BY <2>2, <3>1
  <2>4. CASE y \in kept
    BY <2>2, <2>4
  <2> QED BY <1>2, <2>3, <2>4
<1>7. AnswerInv'
  BY DEF ReplaceTop, More, AnswerInv
<1> QED BY <1>4, <1>5, <1>6, <1>7 DEF IInv

LEMMA ReturnsKeepIInv ==
  ASSUME IInv, ReturnRows \/ ReturnNothing
  PROVE  IInv'
<1>1. CASE ReturnNothing
  BY <1>1 DEF ReturnNothing, AtEnd, IInv, TypeOK, AmountInv, BestInv, AnswerInv, Batch
<1>2. CASE ReturnRows
  <2>1. result' \in Seq(Nat)
    <3>1. Cardinality(kept) \in Nat
      BY KeptIsFinite DEF IInv
    <3>2. result' \in [1 .. Cardinality(kept) -> Nat]
      <4>1. kept \subseteq 1 .. read /\ read \in Int
        BY DEF IInv, TypeOK, Batch
      <4>2. kept \subseteq Nat
        BY <4>1
      <4> QED BY <1>2, <4>2 DEF ReturnRows
    <3> QED BY <3>1, <3>2
  <2>2. TypeOK'
    BY <1>2, <2>1 DEF IInv, TypeOK, ReturnRows, Batch
  <2>3. AmountInv' /\ BestInv'
    BY <1>2 DEF ReturnRows, IInv, AmountInv, BestInv
  <2>4. AnswerInv'
    BY <1>2 DEF ReturnRows, AtEnd, AnswerInv, Sorted, Before
  <2> QED BY <2>2, <2>3, <2>4 DEF IInv
<1> QED BY <1>1, <1>2

LEMMA StepKeepsIInv == IInv /\ [Next]_vars => IInv'
<1> SUFFICES ASSUME IInv, [Next]_vars
             PROVE  IInv'
  OBVIOUS
<1>1. CASE UNCHANGED vars
  <2>1. TypeOK' /\ AmountInv' /\ BestInv'
    BY <1>1 DEF vars, IInv, TypeOK, AmountInv, BestInv
  <2>2. AnswerInv'
    BY <1>1 DEF vars, IInv, AnswerInv, Sorted
  <2> QED BY <2>1, <2>2 DEF IInv
<1>2. CASE Next
  BY <1>2, PullBatchKeepsIInv, KeepRowKeepsIInv, ReplaceTopKeepsIInv,
     DropRowKeepsIInv, ReturnsKeepIInv DEF Next
<1> QED BY <1>1, <1>2

\* The variables of the operators keep their types, and the rows that are
\* kept are rows that were read.
THEOREM SortingTypeCorrect == Spec => []TypeOK
<1>1. IInv => TypeOK
  BY DEF IInv
<1> QED BY InitEstablishesIInv, StepKeepsIInv, <1>1, PTL DEF Spec

LEMMA AnswerIsBest == IInv => ResultIsBest
<1> SUFFICES ASSUME IInv, phase = "done"
             PROVE  ResultIsBest
  BY DEF ResultIsBest
<1>1. /\ read = Len(rows) /\ result \in [1 .. Cardinality(kept) -> kept]
      /\ Sorted(result)
  BY DEF IInv, AnswerInv
<1>2. /\ IsFiniteSet(kept) /\ Cardinality(kept) \in Nat
      /\ Cardinality(kept) = Count(Len(rows))
  BY <1>1, KeptIsFinite DEF IInv
<1>3. Len(result) = Cardinality(kept) /\ DOMAIN result = 1 .. Cardinality(kept)
  <2>1. result \in Seq(Nat)
    BY DEF IInv, TypeOK
  <2> QED BY <1>1, <1>2, <2>1
<1>4. \A p, q \in 1 .. Len(result) :
        p < q => result[p] # result[q] /\ ~Before(rows[result[q]], rows[result[p]])
  BY <1>1, <1>3 DEF Sorted
<1>5. result \in Injection(1 .. Cardinality(kept), kept)
  <2>1. \A p, q \in 1 .. Cardinality(kept) : p # q => result[p] # result[q]
    BY <1>2, <1>3, <1>4
  <2> QED BY <1>1, <2>1 DEF Injection, IsInjective
<1>6. result \in Surjection(1 .. Cardinality(kept), kept)
  <2>1. IsFiniteSet(1 .. Cardinality(kept))
        /\ Cardinality(1 .. Cardinality(kept)) = Cardinality(kept)
    BY <1>2, FS_Interval
  <2> QED BY <1>2, <1>5, <2>1, FS_Injection
<1>7. ASSUME NEW x \in 1 .. Len(rows), \A p \in 1 .. Len(result) : result[p] # x
      PROVE  \A p \in 1 .. Len(result) : ~Before(rows[x], rows[result[p]])
  <2>1. x \in (1 .. read) \ kept
    BY <1>1, <1>3, <1>6, <1>7 DEF Surjection
  <2> QED BY <1>1, <1>3, <2>1 DEF IInv, BestInv
<1> QED BY <1>2, <1>3, <1>4, <1>7 DEF ResultIsBest

\* For every input, every list of sort columns, either direction and every
\* limit, the answer of both operators is the beginning of the sorted input.
THEOREM AnswersAreBest == Spec => []ResultIsBest
BY InitEstablishesIInv, StepKeepsIInv, AnswerIsBest, PTL DEF Spec

HIDE SortingAssumption

-----------------------------------------------------------------------------
\* What OFFSET and LIMIT print of a listing.

\* The row list[n] is the one that is wanted as f[n].
IsListing(list, wanted, f) ==
  /\ IsFiniteSet(DOMAIN wanted)
  /\ f \in Injection(1 .. Len(list), DOMAIN wanted)
  /\ \A n \in 1 .. Len(list) : list[n] = wanted[f[n]]

\* It is in order, and what it leaves out does not come before any of it.
InOrder(list, wanted, f) ==
  /\ \A p, q \in 1 .. Len(list) : p < q => ~Before(list[q], list[p])
  /\ \A d \in DOMAIN wanted : (\A p \in 1 .. Len(list) : f[p] # d) =>
       \A p \in 1 .. Len(list) : ~Before(wanted[d], list[p])

\* The numbers of the rows that are printed out of M.
Printing(M, offset, limit) == {n \in 1 .. M : offset < n /\ n <= offset + limit}

\* All rows are there, or as many as the sort keeps.
Suffices(list, p, M, limit) ==
  /\ M \in Nat /\ limit \in Nat /\ p.offset \in Nat /\ p.limit \in Nat
  /\ \/ Len(list) = M /\ limit = p.limit
     \/ p.offset = 0 /\ limit <= p.limit /\ Len(list) = IF M > limit THEN limit ELSE M

\* What is printed are rows of the list, from OFFSET on.
IsPart(out, list, offset) ==
  \A n \in 1 .. Len(out) : offset + n \in 1 .. Len(list) /\ out[n] = list[offset + n]

\* How many rows OFFSET and LIMIT leave of M.
LEMMA PrintingCounts ==
  ASSUME NEW M \in Nat, NEW offset \in Nat, NEW limit \in Nat
  PROVE  Cardinality(Printing(M, offset, limit))
           = IF M <= offset THEN 0 ELSE IF M <= offset + limit THEN M - offset ELSE limit
<1> DEFINE end == IF M <= offset + limit THEN M ELSE offset + limit
<1>1. Printing(M, offset, limit) = (offset + 1) .. end
  BY DEF Printing
<1>2. offset + 1 \in Int /\ end \in Int
  OBVIOUS
<1> HIDE DEF end
<1>3. Cardinality((offset + 1) .. end) = IF offset + 1 > end THEN 0 ELSE end - (offset + 1) + 1
  BY <1>2, FS_Interval
<1> QED BY <1>1, <1>3 DEF end

\* Slice prints rows of the list, as many as there are to be printed, also when
\* the sort has kept only LIMIT of them.
LEMMA SliceFits ==
  ASSUME NEW S, NEW list \in Seq(S), NEW p, NEW M, NEW limit, Suffices(list, p, M, limit)
  PROVE  /\ Slice(list, p) \in Seq(S)
         /\ Len(Slice(list, p)) = Cardinality(Printing(M, p.offset, limit))
         /\ IsPart(Slice(list, p), list, p.offset)
<1> DEFINE L == Len(list)
           begin == IF p.offset < L THEN p.offset ELSE L
           end == IF begin + p.limit < L THEN begin + p.limit ELSE L
           out == SubSeq(list, begin + 1, end)
<1>1. Slice(list, p) = out
  BY DEF Slice
<1>2. L \in Nat /\ p.offset \in Nat /\ p.limit \in Nat /\ M \in Nat /\ limit \in Nat
  BY DEF Suffices
<1>3. begin \in 0 .. L /\ end \in 0 .. L /\ begin <= end
  BY <1>2
<1>4. begin + 1 \in Int /\ end \in Int /\ \A i \in begin + 1 .. end : list[i] \in S
  <2> HIDE DEF begin, end
  <2> QED BY <1>2, <1>3
<1>5. /\ out \in Seq(S)
      /\ Len(out) = IF begin + 1 <= end THEN end - (begin + 1) + 1 ELSE 0
      /\ \A i \in 1 .. end - (begin + 1) + 1 : out[i] = list[(begin + 1) + i - 1]
  <2> HIDE DEF begin, end
  <2> QED BY <1>4, SubSeqProperties
<1> HIDE DEF out
<1>6. Len(out) = end - begin
  <2> HIDE DEF begin, end
  <2> QED BY <1>2, <1>3, <1>5
<1>7. end - begin = Cardinality(Printing(M, p.offset, limit))
  <2>1. Cardinality(Printing(M, p.offset, limit))
          = IF M <= p.offset THEN 0 ELSE IF M <= p.offset + limit THEN M - p.offset ELSE limit
    BY <1>2, PrintingCounts
  <2>2. CASE L = M /\ limit = p.limit
    BY <1>2, <2>1, <2>2
  <2>3. CASE p.offset = 0 /\ limit <= p.limit /\ L = IF M > limit THEN limit ELSE M
    BY <1>2, <2>1, <2>3
  <2> QED BY <2>2, <2>3 DEF Suffices
<1>8. ASSUME NEW n \in 1 .. Len(out)
      PROVE  p.offset + n \in 1 .. L /\ out[n] = list[p.offset + n]
  <2>1. begin = p.offset
    BY <1>2, <1>6
  <2>2. n \in 1 .. end - begin
    BY <1>6
  <2> HIDE DEF begin, end, L
  <2>3. n \in 1 .. end - (begin + 1) + 1 /\ (begin + 1) + n - 1 = begin + n
        /\ begin + n \in 1 .. L
    BY <1>2, <1>3, <2>2
  <2> QED BY <1>5, <2>1, <2>3
<1> QED BY <1>1, <1>5, <1>6, <1>7, <1>8 DEF IsPart

\* No row is printed more often than it is wanted.
LEMMA NotTooOften ==
  ASSUME NEW list, NEW wanted, NEW f, IsListing(list, wanted, f),
         NEW S, NEW out \in Seq(S), NEW offset \in Nat, IsPart(out, list, offset), NEW r
  PROVE  Times(out, r) <= Times(wanted, r)
<1> DEFINE A == {n \in DOMAIN out : out[n] = r}
           B == {d \in DOMAIN wanted : wanted[d] = r}
           g == [n \in A |-> f[offset + n]]
<1>1. DOMAIN out = 1 .. Len(out) /\ Len(out) \in Nat
  OBVIOUS
<1>2. /\ \A i \in 1 .. Len(list) : f[i] \in DOMAIN wanted
      /\ \A i, j \in 1 .. Len(list) : f[i] = f[j] => i = j
  BY DEF IsListing, Injection, IsInjective
<1>3. \A n \in A : offset + n \in 1 .. Len(list) /\ out[n] = list[offset + n] /\ n \in Nat
  BY <1>1 DEF IsPart
<1>4. g \in [A -> B]
  <2>1. \A n \in A : f[offset + n] \in B
    BY <1>2, <1>3 DEF IsListing
  <2> QED BY <2>1
<1>5. \A m, n \in A : g[m] = g[n] => m = n
  BY <1>2, <1>3
<1>6. g \in Injection(A, B)
  BY <1>4, <1>5 DEF Injection, IsInjective
<1>7. IsFiniteSet(B)
  <2>1. B \in SUBSET DOMAIN wanted
    OBVIOUS
  <2> QED BY <2>1, FS_Subset DEF IsListing
<1> HIDE DEF g, A, B
<1>8. Cardinality(A) <= Cardinality(B)
  BY <1>6, <1>7, FS_Injection
<1> QED BY <1>8 DEF A, B, Times

\* The first rows of a listing are distinct members of what is wanted.
LEMMA FirstRows ==
  ASSUME NEW list, NEW wanted, NEW f, IsListing(list, wanted, f), NEW p \in Nat,
         p <= Len(list), Len(list) \in Nat
  PROVE  /\ IsFiniteSet({f[n] : n \in 1 .. p})
         /\ Cardinality({f[n] : n \in 1 .. p}) = p
<1> DEFINE T == {f[n] : n \in 1 .. p}
           g == [n \in 1 .. p |-> f[n]]
<1>1. \A i, j \in 1 .. p : f[i] = f[j] => i = j
  BY DEF IsListing, Injection, IsInjective
<1>2. g \in Bijection(1 .. p, T)
  BY <1>1 DEF Bijection, Injection, IsInjective, Surjection
<1>3. ExistsBijection(1 .. p, T)
  <2> HIDE DEF g, T
  <2> QED BY <1>2 DEF ExistsBijection
<1> HIDE DEF T
<1>4. IsFiniteSet(T) /\ Cardinality(T) = p
  BY <1>3, FS_NatBijection, FS_CountingElements
<1> QED BY <1>4 DEF T

\* What comes before a row of a listing in order is listed before it.
LEMMA NotTooEarly ==
  ASSUME NEW list \in Seq(Row), NEW wanted, NEW f, IsListing(list, wanted, f),
         InOrder(list, wanted, f), NEW p \in 1 .. Len(list)
  PROVE  Ahead(wanted, list[p]) < p
<1> DEFINE A == {d \in DOMAIN wanted : Before(wanted[d], list[p])}
           T == {f[n] : n \in 1 .. p - 1}
<1>1. Len(list) \in Nat /\ p - 1 \in Nat /\ p - 1 <= Len(list) /\ list[p] \in Row
  OBVIOUS
<1>2. ASSUME NEW d \in A PROVE d \in T
  <2>1. ~ \A q \in 1 .. Len(list) : f[q] # d
    BY DEF InOrder
  <2>2. PICK q \in 1 .. Len(list) : f[q] = d
    BY <2>1
  <2>3. list[q] \in Row /\ Before(list[q], list[p])
    BY <2>2 DEF IsListing
  <2>4. q # p
    BY <2>3, BeforeIsAsymmetric
  <2>5. ~(p < q)
    BY <2>3 DEF InOrder
  <2>6. q \in 1 .. p - 1
    BY <1>1, <2>4, <2>5
  <2> QED BY <2>2, <2>6
<1>3. IsFiniteSet(T) /\ Cardinality(T) = p - 1
  <2>1. ASSUME NEW k \in Nat, k <= Len(list)
        PROVE  IsFiniteSet({f[n] : n \in 1 .. k}) /\ Cardinality({f[n] : n \in 1 .. k}) = k
    <3> HIDE DEF A, T
    <3>1. Len(list) \in Nat
      BY <1>1
    <3> QED BY <2>1, <3>1, FirstRows
  <2> DEFINE k == p - 1
  <2>2. k \in Nat /\ k <= Len(list)
    BY <1>1
  <2> HIDE DEF k
  <2>3. IsFiniteSet({f[n] : n \in 1 .. k}) /\ Cardinality({f[n] : n \in 1 .. k}) = k
    BY <2>1, <2>2
  <2> QED BY <2>3 DEF k
<1>4. A \in SUBSET T
  BY <1>2
<1> HIDE DEF A, T
<1>5. Cardinality(A) <= p - 1 /\ IsFiniteSet(A)
  BY <1>3, <1>4, FS_Subset
<1>6. Cardinality(A) \in Nat
  BY <1>5, FS_CardinalityType
<1>7. Cardinality(A) < p
  BY <1>1, <1>5, <1>6
<1> QED BY <1>7 DEF A, Ahead

\* There is room behind it for what it comes before.
LEMMA NotTooLate ==
  ASSUME NEW list \in Seq(Row), NEW wanted, NEW f, IsListing(list, wanted, f),
         InOrder(list, wanted, f), NEW p \in 1 .. Len(list)
  PROVE  p <= Cardinality(DOMAIN wanted) - Behind(wanted, list[p])
<1> DEFINE D == DOMAIN wanted
           B == {d \in DOMAIN wanted : Before(list[p], wanted[d])}
           T == {f[n] : n \in 1 .. p}
<1>1. Len(list) \in Nat /\ p \in Nat /\ p <= Len(list) /\ list[p] \in Row
  OBVIOUS
<1>2. ASSUME NEW d \in T PROVE d \in D \ B
  <2>1. PICK q \in 1 .. p : d = f[q]
    OBVIOUS
  <2>2. q \in 1 .. Len(list) /\ list[q] \in Row /\ wanted[d] = list[q] /\ d \in D
    BY <1>1, <2>1 DEF IsListing, Injection
  <2>3. CASE q = p
    BY <2>2, <2>3, BeforeIsAsymmetric
  <2>4. CASE q # p
    <3>1. q < p
      BY <1>1, <2>1, <2>4
    <3>2. ~Before(list[p], list[q])
      BY <2>2, <3>1 DEF InOrder
    <3> QED BY <2>2, <3>2
  <2> QED BY <2>3, <2>4
<1>3. IsFiniteSet(T) /\ Cardinality(T) = p
  BY <1>1, FirstRows
<1>4. IsFiniteSet(D) /\ B \in SUBSET D /\ T \in SUBSET D /\ T \cap B = {}
  BY <1>2 DEF IsListing
<1> HIDE DEF T, B, D
<1>5. IsFiniteSet(B) /\ Cardinality(B) \in Nat /\ Cardinality(D) \in Nat
  BY <1>4, FS_Subset, FS_CardinalityType
<1>6. Cardinality(T \cup B) = Cardinality(T) + Cardinality(B) - 0 /\ T \cup B \in SUBSET D
  BY <1>3, <1>4, <1>5, FS_Union, FS_EmptySet
<1>7. Cardinality(T \cup B) <= Cardinality(D)
  BY <1>4, <1>6, FS_Subset
<1>8. p <= Cardinality(D) - Cardinality(B)
  BY <1>1, <1>3, <1>5, <1>6, <1>7
<1> QED BY <1>8 DEF B, D, Behind

\* What AnswerIsExact says of the rows printed.
Exactly(out, wanted, offset, limit, sorted) ==
  LET amount == Cardinality(DOMAIN wanted)
  IN /\ Len(out) = Cardinality(Printing(amount, offset, limit))
     /\ \A n \in 1 .. Len(out) :
          /\ Times(out, out[n]) <= Times(wanted, out[n])
          /\ sorted =>
               /\ Ahead(wanted, out[n]) < offset + n
               /\ offset + n <= amount - Behind(wanted, out[n])

\* A slice of a listing of what is wanted, in order if the plan sorts, is what
\* AnswerIsExact asks for.
LEMMA SlicesAreExact ==
  ASSUME NEW S, NEW list \in Seq(S), NEW wanted, NEW f, IsListing(list, wanted, f),
         NEW sorted \in BOOLEAN, sorted => list \in Seq(Row) /\ InOrder(list, wanted, f),
         NEW p, NEW limit,
         Suffices(list, p, Cardinality(DOMAIN wanted), limit)
  PROVE  Exactly(Slice(list, p), wanted, p.offset, limit, sorted)
<1> DEFINE out == Slice(list, p)
<1>1. /\ out \in Seq(S) /\ IsPart(out, list, p.offset)
      /\ Len(out) = Cardinality(Printing(Cardinality(DOMAIN wanted), p.offset, limit))
  BY SliceFits
<1> HIDE DEF out
<1>2. ASSUME NEW n \in 1 .. Len(out)
      PROVE  /\ Times(out, out[n]) <= Times(wanted, out[n])
             /\ sorted => /\ Ahead(wanted, out[n]) < p.offset + n
                          /\ p.offset + n <= Cardinality(DOMAIN wanted) - Behind(wanted, out[n])
  <2>1. p.offset \in Nat
    BY DEF Suffices
  <2>2. Times(out, out[n]) <= Times(wanted, out[n])
    BY <1>1, <2>1, NotTooOften
  <2>3. p.offset + n \in 1 .. Len(list) /\ out[n] = list[p.offset + n]
    BY <1>1 DEF IsPart
  <2>4. PICK m \in 1 .. Len(list) : m = p.offset + n /\ out[n] = list[m]
    BY <2>3
  <2>5. ASSUME sorted
        PROVE  Ahead(wanted, list[m]) < m /\ m <= Cardinality(DOMAIN wanted) - Behind(wanted, list[m])
    BY <2>5, NotTooEarly, NotTooLate
  <2> QED BY <2>2, <2>4, <2>5
<1>3. Exactly(out, wanted, p.offset, limit, sorted)
  BY <1>1, <1>2 DEF Exactly
<1> QED BY <1>3 DEF out

-----------------------------------------------------------------------------
\* The operators of a plan and what is proved of them.

\* The scan and its filters, with the invariant that is proved of them.
Scans == INSTANCE TableScanProofs WITH
  Columns <- Cells, MaxFilters <- 1, phase <- scan_phase

\* The aggregation of a plan with AVG, with its invariant.
Avg == INSTANCE AggregationProofs WITH
  Ops <- <<"COUNT", "AVG">>, Bytes <- {},
  input <- agg_input, rows <- agg_rows, read <- agg_read, result <- agg_result,
  phase <- agg_phase

\* The aggregation of a plan without AVG, with its invariant.
Cnt == INSTANCE AggregationProofs WITH
  Ops <- <<"COUNT", "COUNT">>, Bytes <- {},
  input <- agg_input, rows <- agg_rows, read <- agg_read, result <- agg_result,
  phase <- agg_phase

\* What the proofs about scans assume holds of the scan of a plan.
LEMMA ScansAssumed == Scans!TableScanAssumption /\ Scans!FiltersAssumption
BY ScanAssumption DEF Scans!TableScanAssumption, Scan!TableScanAssumption, Scan!Filter,
  Scans!Filter, Scan!Row, Scans!Row, Scan!BlockStats, Scans!BlockStats, Scan!Within,
  Scans!Within, Scan!Value, Scans!Value, Scans!FiltersAssumption, Scan!FiltersAssumption

\* The steps of the scan of a plan are those that TableScanProofs is about.
LEMMA ScanSteps ==
  /\ Scan!Init => Scans!Init
  /\ Scan!AddFilter => Scans!AddFilter
  /\ Scan!Start => Scans!Start
  /\ Scan!SkipNextBatch => Scans!SkipNextBatch
  /\ Scan!ReadNextBatch => Scans!ReadNextBatch
  /\ Scan!FilterRows => Scans!FilterRows
  /\ Scan!Deliver => Scans!Deliver
  /\ Scan!Exhausted => Scans!Exhausted
<1> USE DEF Scan!Nothing, Scans!Nothing, Scan!Groups, Scans!Groups
<1>1. Scan!Init => Scans!Init
  BY DEF Scan!Init, Scans!Init
<1>2. Scan!AddFilter => Scans!AddFilter
  BY DEF Scan!AddFilter, Scans!AddFilter
<1>3. Scan!Start => Scans!Start
  BY DEF Scan!Start, Scans!Start
<1>4. Scan!SkipNextBatch => Scans!SkipNextBatch
  BY DEF Scan!SkipNextBatch, Scans!SkipNextBatch, Scan!MaySkip, Scans!MaySkip
<1>5. Scan!ReadNextBatch => Scans!ReadNextBatch
  BY DEF Scan!ReadNextBatch, Scans!ReadNextBatch, Scan!MaySkip, Scans!MaySkip
<1>6. Scan!FilterRows => Scans!FilterRows
  BY DEF Scan!FilterRows, Scans!FilterRows
<1>7. Scan!Deliver => Scans!Deliver
  BY DEF Scan!Deliver, Scans!Deliver
<1>8. Scan!Exhausted => Scans!Exhausted
  BY DEF Scan!Exhausted, Scans!Exhausted
<1> QED BY <1>1, <1>2, <1>3, <1>4, <1>5, <1>6, <1>7, <1>8

\* What the proofs about aggregations assume holds of COUNT and AVG.
LEMMA AvgAssumed ==
  Avg!AggregationAssumption
BY QueryPlansAssumption, SortingAssumption DEF Avg!AggregationAssumption

\* The hash of a key, in the plans and in AggregationProofs.
LEMMA AvgHash ==
  \A key : Averages!Hash(key) = Avg!Hash(key)
BY DEF Averages!Hash, Avg!Hash, Averages!HashCell, Avg!HashCell, Averages!HashString, Avg!HashString, Averages!FoldLeft, Avg!FoldLeft, Averages!MapThenFoldSet, Avg!MapThenFoldSet, Averages!Max, Avg!Max

\* The update of the accumulators, in the plans and in AggregationProofs.
LEMMA AvgUpdate ==
  \A accs, rs : Averages!UpdateAll(accs, rs) = Avg!UpdateAll(accs, rs)
<1>1. \A s : Averages!Total(s) = Avg!Total(s)
  BY DEF Averages!Total, Avg!Total, Averages!FoldLeft, Avg!FoldLeft, Averages!MapThenFoldSet, Avg!MapThenFoldSet, Averages!Max, Avg!Max
<1>2. \A op, s : Averages!BestOf(op, s) = Avg!BestOf(op, s)
  BY DEF Averages!BestOf, Avg!BestOf, Averages!Better, Avg!Better, Averages!FoldLeft, Avg!FoldLeft, Averages!MapThenFoldSet, Avg!MapThenFoldSet, Averages!Max, Avg!Max
<1>3. \A acc, s : Averages!NewBest(acc, s) = Avg!NewBest(acc, s)
  BY <1>2 DEF Averages!NewBest, Avg!NewBest, Averages!Better, Avg!Better
<1>4. \A acc, s : Averages!Update(acc, s) = Avg!Update(acc, s)
  BY <1>1, <1>3 DEF Averages!Update, Avg!Update, Averages!CountRows, Avg!CountRows, Averages!ToSet, Avg!ToSet
<1> QED BY <1>4 DEF Averages!UpdateAll, Avg!UpdateAll

\* The value of an accumulator, in the plans and in AggregationProofs.
LEMMA AvgResults ==
  \A acc : Averages!GetResult(acc) = Avg!GetResult(acc)
BY DEF Averages!GetResult, Avg!GetResult, Averages!Cast, Avg!Cast

\* The steps of COUNT and AVG in a plan are those that AggregationProofs is
\* about.
LEMMA AvgSteps ==
  /\ Averages!Init => Avg!Init
  /\ Averages!PullBatch => Avg!PullBatch
  /\ Averages!NewGroup => Avg!NewGroup
  /\ Averages!KnownGroup => Avg!KnownGroup
  /\ Averages!UpdateColumns => Avg!UpdateColumns
  /\ Averages!ReturnRows => Avg!ReturnRows
  /\ Averages!AverageThrows => Avg!AverageThrows
  /\ Averages!ReturnNothing => Avg!ReturnNothing
<1> USE DEF Averages!groups, Avg!groups, Averages!More, Avg!More, Averages!Current, Avg!Current, Averages!CurrentHash, Avg!CurrentHash, Averages!NextGroupId, Avg!NextGroupId, Averages!AtEnd, Avg!AtEnd, Averages!Take, Avg!Take
<1>1. Averages!Init => Avg!Init
  BY DEF Averages!Init, Avg!Init, Averages!Create, Avg!Create, Averages!NewAccumulator, Avg!NewAccumulator
<1>2. Averages!PullBatch => Avg!PullBatch
  BY DEF Averages!PullBatch, Avg!PullBatch
<1>3. Averages!NewGroup => Avg!NewGroup
  BY AvgHash, AvgUpdate DEF Averages!NewGroup, Avg!NewGroup, Averages!Create, Avg!Create, Averages!NewAccumulator, Avg!NewAccumulator
<1>4. Averages!KnownGroup => Avg!KnownGroup
  BY AvgHash, AvgUpdate DEF Averages!KnownGroup, Avg!KnownGroup
<1>5. Averages!UpdateColumns => Avg!UpdateColumns
  BY AvgUpdate DEF Averages!UpdateColumns, Avg!UpdateColumns, Averages!Extreme, Avg!Extreme
<1>6. Averages!ReturnRows => Avg!ReturnRows
  BY AvgResults DEF Averages!ReturnRows, Avg!ReturnRows, Averages!Bad, Avg!Bad, Averages!taken, Avg!taken
<1>7. Averages!AverageThrows => Avg!AverageThrows
  BY DEF Averages!AverageThrows, Avg!AverageThrows, Averages!Bad, Avg!Bad, Averages!taken, Avg!taken
<1>8. Averages!ReturnNothing => Avg!ReturnNothing
  BY DEF Averages!ReturnNothing, Avg!ReturnNothing, Averages!taken, Avg!taken
<1> QED BY <1>1, <1>2, <1>3, <1>4, <1>5, <1>6, <1>7, <1>8

\* What the proofs about aggregations assume holds of COUNT and COUNT.
LEMMA CntAssumed ==
  Cnt!AggregationAssumption
BY QueryPlansAssumption, SortingAssumption DEF Cnt!AggregationAssumption

\* The same for a plan without AVG: the hash of a key,
LEMMA CntHash ==
  \A key : Counts!Hash(key) = Cnt!Hash(key)
BY DEF Counts!Hash, Cnt!Hash, Counts!HashCell, Cnt!HashCell, Counts!HashString, Cnt!HashString, Counts!FoldLeft, Cnt!FoldLeft, Counts!MapThenFoldSet, Cnt!MapThenFoldSet, Counts!Max, Cnt!Max

\* the update of the accumulators,
LEMMA CntUpdate ==
  \A accs, rs : Counts!UpdateAll(accs, rs) = Cnt!UpdateAll(accs, rs)
<1>1. \A s : Counts!Total(s) = Cnt!Total(s)
  BY DEF Counts!Total, Cnt!Total, Counts!FoldLeft, Cnt!FoldLeft, Counts!MapThenFoldSet, Cnt!MapThenFoldSet, Counts!Max, Cnt!Max
<1>2. \A op, s : Counts!BestOf(op, s) = Cnt!BestOf(op, s)
  BY DEF Counts!BestOf, Cnt!BestOf, Counts!Better, Cnt!Better, Counts!FoldLeft, Cnt!FoldLeft, Counts!MapThenFoldSet, Cnt!MapThenFoldSet, Counts!Max, Cnt!Max
<1>3. \A acc, s : Counts!NewBest(acc, s) = Cnt!NewBest(acc, s)
  BY <1>2 DEF Counts!NewBest, Cnt!NewBest, Counts!Better, Cnt!Better
<1>4. \A acc, s : Counts!Update(acc, s) = Cnt!Update(acc, s)
  BY <1>1, <1>3 DEF Counts!Update, Cnt!Update, Counts!CountRows, Cnt!CountRows, Counts!ToSet, Cnt!ToSet
<1> QED BY <1>4 DEF Counts!UpdateAll, Cnt!UpdateAll

\* the value of an accumulator,
LEMMA CntResults ==
  \A acc : Counts!GetResult(acc) = Cnt!GetResult(acc)
BY DEF Counts!GetResult, Cnt!GetResult, Counts!Cast, Cnt!Cast

\* and the steps.
LEMMA CntSteps ==
  /\ Counts!Init => Cnt!Init
  /\ Counts!PullBatch => Cnt!PullBatch
  /\ Counts!NewGroup => Cnt!NewGroup
  /\ Counts!KnownGroup => Cnt!KnownGroup
  /\ Counts!UpdateColumns => Cnt!UpdateColumns
  /\ Counts!ReturnRows => Cnt!ReturnRows
  /\ Counts!AverageThrows => Cnt!AverageThrows
  /\ Counts!ReturnNothing => Cnt!ReturnNothing
<1> USE DEF Counts!groups, Cnt!groups, Counts!More, Cnt!More, Counts!Current, Cnt!Current, Counts!CurrentHash, Cnt!CurrentHash, Counts!NextGroupId, Cnt!NextGroupId, Counts!AtEnd, Cnt!AtEnd, Counts!Take, Cnt!Take
<1>1. Counts!Init => Cnt!Init
  BY DEF Counts!Init, Cnt!Init, Counts!Create, Cnt!Create, Counts!NewAccumulator, Cnt!NewAccumulator
<1>2. Counts!PullBatch => Cnt!PullBatch
  BY DEF Counts!PullBatch, Cnt!PullBatch
<1>3. Counts!NewGroup => Cnt!NewGroup
  BY CntHash, CntUpdate DEF Counts!NewGroup, Cnt!NewGroup, Counts!Create, Cnt!Create, Counts!NewAccumulator, Cnt!NewAccumulator
<1>4. Counts!KnownGroup => Cnt!KnownGroup
  BY CntHash, CntUpdate DEF Counts!KnownGroup, Cnt!KnownGroup
<1>5. Counts!UpdateColumns => Cnt!UpdateColumns
  BY CntUpdate DEF Counts!UpdateColumns, Cnt!UpdateColumns, Counts!Extreme, Cnt!Extreme
<1>6. Counts!ReturnRows => Cnt!ReturnRows
  BY CntResults DEF Counts!ReturnRows, Cnt!ReturnRows, Counts!Bad, Cnt!Bad, Counts!taken, Cnt!taken
<1>7. Counts!AverageThrows => Cnt!AverageThrows
  BY DEF Counts!AverageThrows, Cnt!AverageThrows, Counts!Bad, Cnt!Bad, Counts!taken, Cnt!taken
<1>8. Counts!ReturnNothing => Cnt!ReturnNothing
  BY DEF Counts!ReturnNothing, Cnt!ReturnNothing, Counts!taken, Cnt!taken
<1> QED BY <1>1, <1>2, <1>3, <1>4, <1>5, <1>6, <1>7, <1>8

\* The invariant of AggregationProofs holds of the aggregation of a new plan.
LEMMA AvgInit == Avg!Init => Avg!ExactInv
BY AvgAssumed, Avg!InitExact

\* Every step of COUNT and AVG keeps it.
LEMMA AvgKeeps == Avg!ExactInv /\ [Avg!Next]_agg_vars => Avg!ExactInv'
<1>1. UNCHANGED agg_vars => UNCHANGED Avg!vars
  BY DEF Avg!vars, Avg!taken, Avg!groups, agg_vars
<1>2. [Avg!Next]_agg_vars => [Avg!Next]_Avg!vars
  BY <1>1
<1>3. Avg!ExactInv /\ [Avg!Next]_Avg!vars => Avg!ExactInv'
  BY AvgAssumed, Avg!StepExact
<1> QED BY <1>2, <1>3

\* It has the answer for all rows,
LEMMA AvgTotals == Avg!ExactInv => Avg!TotalsAreExact
BY AvgAssumed, Avg!TotalsOfAcc

\* and for each group.
LEMMA AvgGroups == Avg!ExactInv => Avg!GroupsAreExact
BY AvgAssumed, Avg!GroupsOfAcc

\* So it has after a step.
LEMMA AvgAnswers == Avg!ExactInv' => Avg!TotalsAreExact' /\ Avg!GroupsAreExact'
BY AvgTotals, AvgGroups, PTL

\* The same for a plan without AVG: at first,
LEMMA CntInit == Cnt!Init => Cnt!ExactInv
BY CntAssumed, Cnt!InitExact

\* after a step,
LEMMA CntKeeps == Cnt!ExactInv /\ [Cnt!Next]_agg_vars => Cnt!ExactInv'
<1>1. UNCHANGED agg_vars => UNCHANGED Cnt!vars
  BY DEF Cnt!vars, Cnt!taken, Cnt!groups, agg_vars
<1>2. [Cnt!Next]_agg_vars => [Cnt!Next]_Cnt!vars
  BY <1>1
<1>3. Cnt!ExactInv /\ [Cnt!Next]_Cnt!vars => Cnt!ExactInv'
  BY CntAssumed, Cnt!StepExact
<1> QED BY <1>2, <1>3

\* for all rows,
LEMMA CntTotals == Cnt!ExactInv => Cnt!TotalsAreExact
BY CntAssumed, Cnt!TotalsOfAcc

\* for each group,
LEMMA CntGroups == Cnt!ExactInv => Cnt!GroupsAreExact
BY CntAssumed, Cnt!GroupsOfAcc

\* and for both after a step.
LEMMA CntAnswers == Cnt!ExactInv' => Cnt!TotalsAreExact' /\ Cnt!GroupsAreExact'
BY CntTotals, CntGroups, PTL

\* The invariant of TableScanProofs holds of the scan of a new plan.
LEMMA ScansInit == Scans!Init => Scans!IInv
BY ScansAssumed, Scans!InitStep

\* A step of the scan, of any kind.
ScanNext ==
  \/ Scans!AddFilter
  \/ Scans!Start
  \/ Scans!SkipNextBatch
  \/ Scans!ReadNextBatch
  \/ Scans!FilterRows
  \/ Scans!Deliver
  \/ Scans!Exhausted

\* Every step of the scan keeps it.
LEMMA ScansKeep ==
  ASSUME Scans!AllSound, Scans!IInv, ScanNext
  PROVE  Scans!IInv'
<1>1. CASE Scans!AddFilter
  BY <1>1, ScansAssumed, Scans!AddFilterStep
<1>2. CASE Scans!Start
  BY <1>2, ScansAssumed, Scans!StartStep
<1>3. CASE Scans!SkipNextBatch
  BY <1>3, ScansAssumed, Scans!SkipStep
<1>4. CASE Scans!ReadNextBatch
  BY <1>4, ScansAssumed, Scans!ReadStep
<1>5. CASE Scans!FilterRows
  BY <1>5, ScansAssumed, Scans!FilterStep
<1>6. CASE Scans!Deliver
  BY <1>6, ScansAssumed, Scans!DeliverStep
<1>7. CASE Scans!Exhausted
  BY <1>7, ScansAssumed, Scans!ExhaustedStep
<1> QED BY <1>1, <1>2, <1>3, <1>4, <1>5, <1>6, <1>7 DEF ScanNext

\* It is kept as well when the scan does nothing.
LEMMA ScansIdle == Scans!IInv /\ UNCHANGED scan_vars => Scans!IInv'
<1> SUFFICES ASSUME Scans!IInv, UNCHANGED scan_vars
             PROVE  Scans!IInv'
  OBVIOUS
<1> USE DEF scan_vars, Scans!IInv, Scans!Groups, Scans!Nothing
<1>1. Scans!TypeInv'
  BY DEF Scans!TypeInv
<1>2. Scans!PushdownInv' /\ Scans!BuildInv'
  BY DEF Scans!PushdownInv, Scans!BuildInv
<1>3. Scans!BatchInv' /\ Scans!BehindInv'
  BY DEF Scans!BatchInv, Scans!BehindInv
<1>4. Scans!ScanIsExact'
  BY DEF Scans!ScanIsExact, Scans!Matching
<1> QED BY <1>1, <1>2, <1>3, <1>4

\* A row group that the scan may skip has no row that the filters accept.
LEMMA SkippedMatchesNothing ==
  ASSUME Scans!AllSound, Scans!IInv, curr_batch <= Len(table.groups), Scans!MaySkip
  PROVE  Scans!Matching(curr_batch) = {}
BY ScansAssumed, Scans!SkippedHasNoMatch DEF Scans!Groups

\* The invariant of the sort is kept when the sort does nothing.
LEMMA SortIdle == IInv /\ UNCHANGED vars => IInv'
BY StepKeepsIInv

-----------------------------------------------------------------------------
\* The rows that leave the filters.

\* The query of the plan, and what operators it has.
PlanShape ==
  /\ query \in QueryIds
  /\ plan.where \in Conditions \cup {None}
  /\ plan.aggregate \in {"no", "all", "groups"} /\ plan.sort \in {"no", "all", "limit"}
  /\ plan.average \in BOOLEAN /\ plan.having \in BOOLEAN
  /\ plan.offset \in Nat /\ plan.limit \in Nat
  /\ plan.having => plan.aggregate = "groups" /\ plan.sort # "no"
  /\ plan.sort = "limit" => plan.offset = 0 /\ plan.limit = Everything
  /\ plan.aggregate = "no" /\ plan.sort = "no" => plan.offset = 0 /\ plan.limit = Everything
  /\ plan.aggregate = "all" =>
       plan.sort = "no" /\ plan.offset = 0 /\ plan.limit = Everything

\* The plan of every query has this shape.
LEMMA ShapeOfPlans ==
  ASSUME PlansInit
  PROVE  PlanShape
<1> DEFINE q == Queries[query]
<1>1. query \in QueryIds /\ plan \in PlansOf(q)
  BY DEF PlansInit
<1>2. Shape(q)
  BY <1>1, QueriesFit
<1> HIDE DEF q
<1>3. /\ plan.where \in WhereOf(q) /\ plan.aggregate = q.aggregate
      /\ plan.average \in BOOLEAN /\ plan.having = (q.having # <<>>) /\ plan.sort = q.sort
      /\ plan.offset = (IF q.offset = 0 THEN 0 ELSE Offset)
      /\ plan.limit = (IF q.limit = "all" THEN Everything ELSE Limit)
  BY <1>1 DEF PlansOf
<1>4. WhereOf(q) \subseteq Conditions \cup {None}
  BY QueryPlansAssumption DEF WhereOf
<1>5. Offset \in Nat /\ Limit \in Nat /\ Everything \in Nat
  BY QueryPlansAssumption
<1>6. plan.having => q.having # <<>>
  BY <1>3
<1>7. /\ plan.having => plan.aggregate = "groups" /\ plan.sort # "no"
      /\ plan.aggregate \in {"no", "all", "groups"} /\ plan.sort \in {"no", "all", "limit"}
      /\ plan.sort = "limit" => plan.offset = 0 /\ plan.limit = Everything
      /\ plan.aggregate = "no" /\ plan.sort = "no" => plan.offset = 0 /\ plan.limit = Everything
      /\ plan.aggregate = "all" =>
           plan.sort = "no" /\ plan.offset = 0 /\ plan.limit = Everything
  BY <1>2, <1>3, <1>6 DEF Shape
<1>8. plan.having \in BOOLEAN
  BY <1>3
<1>9. plan.offset \in Nat /\ plan.limit \in Nat
  BY <1>3, <1>5
<1>10. plan.where \in Conditions \cup {None} /\ plan.average \in BOOLEAN
  BY <1>3, <1>4
<1> QED BY <1>1, <1>7, <1>8, <1>9, <1>10 DEF PlanShape

\* The rows that WHERE accepts, and those of them in the first k row groups.
Where == {r \in Scan!Row : plan.where # None => Condition[plan.where].eval[r]}

\* Of the first k row groups, the rows that WHERE accepts, in their order.
Chosen(k) == Filtered(FlattenSeq(SubSeq(table.groups, 1, k)), Where)

\* The chain has the condition of the plan, once it is built.
ChainInv ==
  IF scan_phase = "build"
    THEN filters = <<>> \/ (plan.where # None /\ filters = <<plan.where>>)
    ELSE filters = IF plan.where = None THEN <<>> ELSE <<plan.where>>

\* The scan ends behind the last row group.
EndInv == scan_phase = "end" => curr_batch = Len(table.groups) + 1

\* The part of the invariant about the scan.
ScanInv == Scans!IInv /\ ChainInv /\ EndInv

\* Types of a table.
LEMMA GroupFacts ==
  ASSUME ScanInv
  PROVE  /\ table.groups \in Seq(Seq(Scan!Row)) /\ Len(table.groups) \in Nat
         /\ table \in Tables
         /\ \A k \in 1 .. Len(table.groups) : table.groups[k] \in Seq(Scan!Row)
         /\ curr_batch \in 1 .. Len(table.groups) + 1
<1>1. table \in Tables /\ curr_batch \in 1 .. Len(table.groups) + 1
  BY DEF ScanInv, Scans!IInv, Scans!TypeInv, Scans!Groups
<1>2. table.groups \in Seq(Seq(Scan!Row))
  BY <1>1, ScanAssumption DEF Scan!TableScanAssumption
<1> QED BY <1>1, <1>2

\* A row of a table can be sorted.
LEMMA RowsAreRows == Scan!Row \subseteq Row /\ Scan!Row \subseteq [Cells -> Int]
<1>1. Scan!Value \subseteq Int
  BY ScanAssumption DEF Scan!FiltersAssumption, Scan!Value
<1> QED BY <1>1 DEF Scan!Row, Row

\* The rows that are selected row group by row group are in the end the rows
\* that the query selects.
LEMMA SelectedFacts ==
  ASSUME ScanInv
  PROVE  /\ Selected \in Seq(Scan!Row) /\ Len(Selected) \in Nat
         /\ Len(Selected) <= Everything
         /\ Chosen(0) = <<>>
         /\ Chosen(Len(table.groups)) = Selected
         /\ \A k \in 1 .. Len(table.groups) :
              /\ Chosen(k) \in Seq(Scan!Row)
              /\ Chosen(k) = Chosen(k - 1) \o Filtered(table.groups[k], Where)
<1> DEFINE gs == table.groups
           S == Scan!Row
<1>1. gs \in Seq(Seq(S)) /\ Len(gs) \in Nat /\ table \in Tables
  BY GroupFacts
<1>2. Selected = Filtered(FlattenSeq(gs), Where)
  BY DEF Selected, Where
<1> HIDE DEF gs, S
<1>3. FlattenSeq(gs) \in Seq(S)
  BY <1>1, FlattenType
<1>4. Selected \in Seq(S)
  BY <1>2, <1>3, FilterType
<1>5. PICK h : IsPlaces(h, FlattenSeq(gs), Where)
  BY <1>3, FilterPlaces
<1>6. Len(Selected) <= Len(FlattenSeq(gs))
  BY <1>2, <1>5 DEF IsPlaces
<1>7. Len(FlattenSeq(gs)) <= Everything /\ Everything \in Nat
  BY <1>1, QueryPlansAssumption DEF gs
<1>8. Len(Selected) \in Nat /\ Len(Selected) <= Everything
  <2>1. Len(Selected) \in Nat /\ Len(FlattenSeq(gs)) \in Nat
    BY <1>3, <1>4
  <2> QED BY <1>6, <1>7, <2>1
<1>9. Chosen(0) = <<>>
  <2>1. SubSeq(gs, 1, 0) = <<>>
    BY SubSeqEmpty
  <2> QED BY <2>1, FlattenNone, FilterNone DEF Chosen, gs
<1>10. Chosen(Len(gs)) = Selected
  <2>1. SubSeq(gs, 1, Len(gs)) = gs
    BY <1>1, SubSeqFull
  <2> QED BY <1>2, <2>1 DEF Chosen, gs
<1>11. ASSUME NEW k \in 1 .. Len(gs)
       PROVE  Chosen(k) \in Seq(S) /\ Chosen(k) = Chosen(k - 1) \o Filtered(gs[k], Where)
  <2> DEFINE u == SubSeq(gs, 1, k - 1)
             v == SubSeq(gs, 1, k)
  <2>1. FlattenSeq(v) = FlattenSeq(u) \o gs[k]
    BY <1>1, FlattenPrefix
  <2>2. u \in Seq(Seq(S)) /\ v \in Seq(Seq(S)) /\ gs[k] \in Seq(S)
    <3>1. k - 1 \in Int /\ k \in Int /\ \A i \in 1 .. k : gs[i] \in Seq(S)
      BY <1>1
    <3>2. \A i \in 1 .. k - 1 : gs[i] \in Seq(S)
      BY <3>1
    <3>3. u \in Seq(Seq(S))
      BY <3>1, <3>2, SubSeqProperties
    <3>4. v \in Seq(Seq(S))
      BY <3>1, <3>2, SubSeqProperties
    <3> QED BY <1>1, <3>3, <3>4
  <2>3. Chosen(k) = Filtered(FlattenSeq(v), Where) /\ Chosen(k - 1) = Filtered(FlattenSeq(u), Where)
    BY DEF Chosen, gs
  <2> HIDE DEF u, v
  <2>4. FlattenSeq(u) \in Seq(S) /\ FlattenSeq(v) \in Seq(S)
    BY <2>2, FlattenType
  <2>5. Filtered(FlattenSeq(u) \o gs[k], Where)
          = Filtered(FlattenSeq(u), Where) \o Filtered(gs[k], Where)
    <3> DEFINE a == FlattenSeq(u)
               b == gs[k]
               W == Where
    <3>1. a \in Seq(S) /\ b \in Seq(S)
      BY <2>2, <2>4
    <3> HIDE DEF a, b, W
    <3>2. Filtered(a \o b, W) = Filtered(a, W) \o Filtered(b, W)
      BY <3>1, FilterConcat
    <3> QED BY <3>2 DEF a, b, W
  <2>6. Filtered(FlattenSeq(v), Where) \in Seq(S)
    BY <2>4, FilterType
  <2> QED BY <2>1, <2>3, <2>5, <2>6
<1> QED BY <1>4, <1>8, <1>9, <1>10, <1>11 DEF gs, S

\* The filters of the chain accept the rows that WHERE accepts.
LEMMA MatchingIsWhere ==
  ASSUME ScanInv, scan_phase # "build", NEW g \in 1 .. Len(table.groups),
         NEW i \in 1 .. Len(table.groups[g])
  PROVE  i \in Scans!Matching(g) <=> table.groups[g][i] \in Where
<1>1. table.groups[g][i] \in Scan!Row
  BY GroupFacts, ElementOfSeq
<1>2. CASE plan.where = None
  <2>1. filters = <<>>
    BY <1>2 DEF ScanInv, ChainInv
  <2> QED BY <1>1, <1>2, <2>1 DEF Scans!Matching, Scans!Groups, Where
<1>3. CASE plan.where # None
  <2>1. filters = <<plan.where>>
    BY <1>3 DEF ScanInv, ChainInv
  <2>2. Len(filters) = 1 /\ filters[1] = plan.where
    BY <2>1
  <2> QED BY <1>1, <1>3, <2>2 DEF Scans!Matching, Scans!Groups, Where
<1> QED BY <1>2, <1>3

\* To skip a row group loses no row of the answer.
LEMMA SkippedHasNoRow ==
  ASSUME Scans!AllSound, ScanInv, scan_phase # "build", curr_batch <= Len(table.groups),
         Scans!MaySkip
  PROVE  Chosen(curr_batch) = Chosen(curr_batch - 1)
<1> DEFINE g == table.groups[curr_batch]
<1>1. curr_batch \in 1 .. Len(table.groups) /\ g \in Seq(Scan!Row)
  BY GroupFacts
<1>2. Scans!Matching(curr_batch) = {}
  BY SkippedMatchesNothing DEF ScanInv
<1>3. \A i \in 1 .. Len(g) : g[i] \notin Where
  BY <1>1, <1>2, MatchingIsWhere
<1> HIDE DEF g
<1>4. Filtered(g, Where) = <<>>
  BY <1>1, <1>3, FilterNothing
<1>5. Chosen(curr_batch) = Chosen(curr_batch - 1) \o <<>>
  BY <1>1, <1>4, SelectedFacts DEF g
<1>6. \E S : Chosen(curr_batch - 1) \in Seq(S)
  <2>1. curr_batch - 1 = 0 \/ curr_batch - 1 \in 1 .. Len(table.groups)
    BY <1>1, GroupFacts
  <2>2. CASE curr_batch - 1 = 0
    BY <2>2, SelectedFacts, EmptySeq
  <2>3. CASE curr_batch - 1 \in 1 .. Len(table.groups)
    BY <2>3, SelectedFacts
  <2> QED BY <2>1, <2>2, <2>3
<1> QED BY <1>5, <1>6, ConcatEmptySeq

\* The batch that leaves the filters has all rows of its row group that WHERE
\* accepts, in their order.
LEMMA BatchHasTheRows ==
  ASSUME ScanInv, Scan!Deliver
  PROVE  /\ curr_batch - 1 \in 1 .. Len(table.groups)
         /\ BatchRows = Filtered(table.groups[curr_batch - 1], Where)
         /\ BatchRows \in Seq(Scan!Row)
<1>1. scan_phase = "filter" /\ level > Len(filters)
  BY DEF Scan!Deliver
<1>2. /\ batch.group = curr_batch - 1 /\ batch.group \in 1 .. Len(table.groups)
      /\ level \in 1 .. Len(filters) + 1 /\ Len(filters) \in Nat
      /\ batch = [group |-> batch.group,
                  rows |-> {r \in 1 .. Len(table.groups[batch.group]) :
                     \A l \in 1 .. Len(filters) :
                       l < level => Condition[filters[l]].eval[table.groups[batch.group][r]]}]
  <2>1. Scans!BatchInv /\ Scans!Groups = table.groups
    BY DEF ScanInv, Scans!IInv, Scans!Groups
  <2>2. Len(filters) \in Nat
    BY DEF ScanInv, Scans!IInv, Scans!TypeInv
  <2> QED BY <1>1, <2>1, <2>2 DEF Scans!BatchInv
<1> DEFINE g == table.groups[batch.group]
<1>3. batch.rows = Scans!Matching(batch.group)
  <2>1. level = Len(filters) + 1
    BY <1>1, <1>2
  <2>2. \A l \in 1 .. Len(filters) : l < level
    BY <1>2, <2>1
  <2>3. batch.rows = {r \in 1 .. Len(g) :
                        \A l \in 1 .. Len(filters) : l < level => Condition[filters[l]].eval[g[r]]}
    <3> DEFINE h == batch.group
               X == {r \in 1 .. Len(g) :
                       \A l \in 1 .. Len(filters) : l < level => Condition[filters[l]].eval[g[r]]}
    <3>1. batch = [group |-> h, rows |-> X]
      BY <1>2
    <3> HIDE DEF h, X
    <3>2. batch.rows = X
      BY <3>1
    <3> QED BY <3>2 DEF X
  <2>4. Scans!Matching(batch.group)
          = {r \in 1 .. Len(g) : \A l \in 1 .. Len(filters) : Condition[filters[l]].eval[g[r]]}
    BY DEF Scans!Matching, Scans!Groups
  <2> HIDE DEF g
  <2> QED BY <2>2, <2>3, <2>4
<1>4. g \in Seq(Scan!Row)
  BY <1>2, GroupFacts
<1>5. \A i \in 1 .. Len(g) : i \in batch.rows <=> g[i] \in Where
  BY <1>1, <1>2, <1>3, MatchingIsWhere
<1>6. BatchRows = At(g, Filtered(Numbers(Len(g)), batch.rows))
  BY DEF BatchRows, At, Numbers, Scan!Groups
<1> HIDE DEF g
<1>7. BatchRows = Filtered(g, Where) /\ Filtered(g, Where) \in Seq(Scan!Row)
  BY <1>4, <1>5, <1>6, FilterNumbers, FilterType
<1> QED BY <1>2, <1>7 DEF g

-----------------------------------------------------------------------------
\* The inductive invariant.

\* The rows as the aggregation takes them: with the key of the group and the
\* values of both aggregations.
Keyed(s) == [n \in 1 .. Len(s) |-> ToAggregate(s[n])]

\* A list of no more than one batch.
OneBatch(s) == s = <<>> \/ \E b : s = <<b>>

\* The invariant of the aggregation that the plan has.
AggExact == IF plan.average THEN Avg!ExactInv ELSE Cnt!ExactInv

\* The part of the invariant about the aggregation.
AggInv ==
  /\ AggExact
  /\ grouped <=> plan.aggregate = "groups"
  /\ OneBatch(agg_input)
  /\ plan.aggregate = "no" => agg_phase = "run"

\* The part of the invariant about the sort.
SortInv ==
  /\ IInv
  /\ limited <=> plan.sort = "limit"
  /\ OneBatch(input)
  /\ ~has_result => rows = <<>>

\* list[n] is the row that is wanted as g[n], and nothing that is wanted is missing.
IsWhole(list, wanted, g) ==
  /\ IsListing(list, wanted, g)
  /\ Len(list) = Cardinality(DOMAIN wanted)
  /\ \A d \in DOMAIN wanted : \E n \in 1 .. Len(list) : g[n] = d

\* The rows that an operator has pulled or is about to pull.
AggRows == agg_rows \o FlattenSeq(agg_input)

\* The rows that the sort has pulled or is about to pull.
SortRows == rows \o FlattenSeq(input)

\* The row groups that have left the filters.
Done == IF scan_phase = "filter" THEN curr_batch - 2 ELSE curr_batch - 1

\* Nothing is lost or taken twice between the operators: the last one has, of
\* the row groups that have left the filters, just the rows that WHERE accepts;
\* a sort behind an aggregation has nothing before that is done, and then its
\* answer.
PipeInv ==
  /\ plan.aggregate # "no" => AggRows = Keyed(Chosen(Done))
  /\ plan.aggregate = "no" /\ plan.sort # "no" => SortRows = Chosen(Done)
  /\ plan.aggregate = "no" /\ plan.sort = "no" => output = Chosen(Done)
  /\ plan.aggregate # "no" /\ plan.sort # "no" /\ agg_phase = "run" =>
       rows = <<>> /\ input = <<>>
  /\ plan.aggregate # "no" /\ plan.sort # "no" /\ agg_phase \in {"done", "none"} =>
       /\ has_result \/ input # <<>>
       /\ SortRows \in Seq(Row) /\ \E g : IsWhole(SortRows, Wanted, g)
  /\ plan.aggregate = "no" /\ plan.sort # "no" /\ delivered # <<>> =>
       has_result \/ input # <<>>

\* The answer is right, and a refusal is.
StatusInv ==
  /\ AnswerIsExact
  /\ status = "refused" => scan_phase = "end" /\ RefusedWithoutRowsOnly

\* The inductive invariant of a plan.
PlansInv == PlanShape /\ ScanInv /\ AggInv /\ SortInv /\ PipeInv /\ StatusInv

\* What is wanted depends on the plan and the table only.
LEMMA WantedStays ==
  ASSUME UNCHANGED <<plan, table>>
  PROVE  Selected' = Selected /\ Wanted' = Wanted /\ Where' = Where
<1>1. Selected' = Selected
  BY DEF Selected
<1>2. Where' = Where
  BY DEF Where
<1>3. Keys' = Keys /\ \A k : OfKey(k)' = OfKey(k)
  BY <1>1 DEF Keys, OfKey
<1>4. \A k, numbers : Summary(k, numbers)' = Summary(k, numbers)
  BY <1>1 DEF Summary, MapThenSumSet, MapThenFoldSet, Average
<1>5. Wanted' = Wanted
  BY <1>1, <1>3, <1>4 DEF Wanted
<1> QED BY <1>1, <1>2, <1>5

\* So do the rows of the first row groups.
LEMMA ChosenStays ==
  ASSUME UNCHANGED <<plan, table>>, NEW k
  PROVE  Chosen(k)' = Chosen(k)
BY WantedStays DEF Chosen

\* A step that neither prints nor refuses keeps what is answered.
LEMMA StatusStays ==
  ASSUME StatusInv, UNCHANGED <<plan_vars, table>>, 
         scan_phase = "end" => scan_phase' = "end" /\ delivered' = delivered
  PROVE  StatusInv'
<1>1. UNCHANGED <<plan, table, status, output>>
  BY DEF plan_vars
<1>2. Wanted' = Wanted /\ Selected' = Selected
  BY <1>1, WantedStays
<1>3. AnswerIsExact'
  BY <1>1, <1>2 DEF StatusInv, AnswerIsExact, Times, Ahead, Behind
<1>4. status' = "refused" => scan_phase' = "end" /\ RefusedWithoutRowsOnly'
  BY <1>1, <1>2 DEF StatusInv, RefusedWithoutRowsOnly
<1> QED BY <1>3, <1>4 DEF StatusInv

-----------------------------------------------------------------------------
\* The scan.

\* A step of the scan that delivers nothing.
ScanMoves ==
  \/ Scan!AddFilter /\ plan.where # None /\ filters = <<>> /\ filters' = <<plan.where>>
  \/ Scan!Start /\ (plan.where = None \/ filters # <<>>)
  \/ Scan!SkipNextBatch
  \/ Scan!ReadNextBatch
  \/ Scan!FilterRows
  \/ Scan!Exhausted

\* The rows that have left the filters after a step, by what has left them.
LEMMA ChosenNext ==
  ASSUME UNCHANGED <<plan, table>>
  PROVE  Chosen(Done)' = Chosen(Done')
BY WantedStays DEF Chosen

\* A step within the scan keeps its invariant, and no row leaves the filters
\* without being delivered.
LEMMA ScanMovesKeep ==
  ASSUME Scans!AllSound, ScanInv, UNCHANGED plan_vars, ScanMoves
  PROVE  /\ ScanInv' /\ table' = table /\ delivered' = delivered
         /\ Chosen(Done)' = Chosen(Done)
         /\ scan_phase = "end" => scan_phase' = "end"
<1>1. plan' = plan
  BY DEF plan_vars
<1>2. Scans!IInv'
  <2>1. ScanNext
    BY ScanSteps DEF ScanMoves, ScanNext
  <2> QED BY <2>1, ScansKeep DEF ScanInv
<1>3. curr_batch \in Nat /\ Len(table.groups) \in Nat /\ curr_batch <= Len(table.groups) + 1
  BY GroupFacts
<1>4. CASE /\ Scan!AddFilter
           /\ plan.where # None /\ filters = <<>> /\ filters' = <<plan.where>>
  <2>1. /\ scan_phase = "build" /\ scan_phase' = scan_phase
        /\ UNCHANGED <<table, delivered, curr_batch>>
    BY <1>4 DEF Scan!AddFilter
  <2>2. ChainInv' /\ EndInv'
    BY <1>1, <1>4, <2>1 DEF ChainInv, EndInv
  <2>3. Done' = Done
    BY <2>1 DEF Done
  <2> QED BY <1>1, <1>2, <2>1, <2>2, <2>3, ChosenNext DEF ScanInv
<1>5. CASE Scan!Start /\ (plan.where = None \/ filters # <<>>)
  <2>1. /\ scan_phase = "build" /\ scan_phase' = "scan"
        /\ UNCHANGED <<table, delivered, curr_batch, filters>>
    BY <1>5 DEF Scan!Start
  <2>2. ChainInv' /\ EndInv'
    BY <1>1, <1>5, <2>1 DEF ScanInv, ChainInv, EndInv
  <2>3. Done' = Done
    BY <2>1 DEF Done
  <2> QED BY <1>1, <1>2, <2>1, <2>2, <2>3, ChosenNext DEF ScanInv
<1>6. CASE Scan!SkipNextBatch
  <2>1. /\ scan_phase = "scan" /\ scan_phase' = "scan" /\ curr_batch' = curr_batch + 1
        /\ UNCHANGED <<table, delivered, filters>>
        /\ curr_batch <= Len(table.groups)
    BY <1>6 DEF Scan!SkipNextBatch, Scan!Groups
  <2>2. ChainInv' /\ EndInv'
    BY <1>1, <2>1 DEF ScanInv, ChainInv, EndInv
  <2>3. Done' = curr_batch /\ Done = curr_batch - 1
    BY <1>3, <2>1 DEF Done
  <2>4. Scans!MaySkip
    BY <1>6 DEF Scan!SkipNextBatch, Scan!MaySkip, Scans!MaySkip
  <2>5. Chosen(curr_batch) = Chosen(curr_batch - 1)
    BY <2>1, <2>4, SkippedHasNoRow
  <2> QED BY <1>1, <1>2, <2>1, <2>2, <2>3, <2>5, ChosenNext DEF ScanInv
<1>7. CASE Scan!ReadNextBatch
  <2>1. /\ scan_phase = "scan" /\ scan_phase' = "filter" /\ curr_batch' = curr_batch + 1
        /\ UNCHANGED <<table, delivered, filters>>
    BY <1>7 DEF Scan!ReadNextBatch
  <2>2. ChainInv' /\ EndInv'
    BY <1>1, <2>1 DEF ScanInv, ChainInv, EndInv
  <2>3. Done' = Done
    BY <1>3, <2>1 DEF Done
  <2> QED BY <1>1, <1>2, <2>1, <2>2, <2>3, ChosenNext DEF ScanInv
<1>8. CASE Scan!FilterRows
  <2>1. scan_phase = "filter" /\ UNCHANGED <<table, delivered, filters, scan_phase, curr_batch>>
    BY <1>8 DEF Scan!FilterRows
  <2>2. ChainInv' /\ EndInv'
    BY <1>1, <2>1 DEF ScanInv, ChainInv, EndInv
  <2>3. Done' = Done
    BY <2>1 DEF Done
  <2> QED BY <1>1, <1>2, <2>1, <2>2, <2>3, ChosenNext DEF ScanInv
<1>9. CASE Scan!Exhausted
  <2>1. /\ scan_phase = "scan" /\ scan_phase' = "end" /\ curr_batch > Len(table.groups)
        /\ UNCHANGED <<table, delivered, filters, curr_batch>>
    BY <1>9 DEF Scan!Exhausted, Scan!Groups
  <2>2. ChainInv' /\ EndInv'
    BY <1>1, <1>3, <2>1 DEF ScanInv, ChainInv, EndInv
  <2>3. Done' = Done
    BY <2>1 DEF Done
  <2> QED BY <1>1, <1>2, <2>1, <2>2, <2>3, ChosenNext DEF ScanInv
<1> QED BY <1>4, <1>5, <1>6, <1>7, <1>8, <1>9 DEF ScanMoves

\* A delivery adds the rows of its batch.
LEMMA DeliveryKeeps ==
  ASSUME Scans!AllSound, ScanInv, plan' = plan, Scan!Deliver
  PROVE  /\ ScanInv' /\ table' = table /\ scan_phase = "filter"
         /\ Chosen(Done)' = Chosen(Done) \o BatchRows
         /\ Chosen(Done) \in Seq(Scan!Row) /\ BatchRows \in Seq(Scan!Row)
<1>1. Scans!IInv'
  <2>1. ScanNext
    BY ScanSteps DEF ScanNext
  <2> QED BY <2>1, ScansKeep DEF ScanInv
<1>2. /\ scan_phase = "filter" /\ scan_phase' = "scan"
      /\ UNCHANGED <<table, filters, curr_batch>>
  BY DEF Scan!Deliver
<1>3. ChainInv' /\ EndInv'
  BY <1>2 DEF ScanInv, ChainInv, EndInv
<1> DEFINE k == curr_batch - 1
<1>4. /\ k \in 1 .. Len(table.groups) /\ BatchRows \in Seq(Scan!Row)
      /\ BatchRows = Filtered(table.groups[k], Where)
  BY BatchHasTheRows
<1>5. Done = k - 1 /\ Done' = k
  BY <1>2, <1>4, GroupFacts DEF Done
<1>6. Chosen(k) = Chosen(k - 1) \o BatchRows
  <2> HIDE DEF k
  <2> QED BY <1>4, SelectedFacts
<1>7. Chosen(k - 1) \in Seq(Scan!Row)
  <2> HIDE DEF k
  <2>1. k - 1 = 0 \/ k - 1 \in 1 .. Len(table.groups)
    BY <1>4, GroupFacts
  <2>2. CASE k - 1 = 0
    BY <2>2, SelectedFacts, EmptySeq
  <2>3. CASE k - 1 \in 1 .. Len(table.groups)
    BY <2>3, SelectedFacts
  <2> QED BY <2>1, <2>2, <2>3
<1> HIDE DEF k
<1>8. Chosen(Done)' = Chosen(k)
  BY <1>2, <1>5, ChosenNext
<1> QED BY <1>1, <1>2, <1>3, <1>4, <1>5, <1>6, <1>7, <1>8 DEF ScanInv

\* At the end of the scan, the rows that have left the filters are the selected
\* ones.
LEMMA ChosenAtEnd ==
  ASSUME ScanInv, scan_phase = "end"
  PROVE  Chosen(Done) = Selected
<1>1. Done = Len(table.groups)
  BY GroupFacts DEF ScanInv, EndInv, Done
<1> QED BY <1>1, SelectedFacts

\* The invariant of the aggregation is kept when it does nothing.
LEMMA AggIdle ==
  ASSUME AggExact, plan' = plan, UNCHANGED agg_vars
  PROVE  AggExact'
<1>1. CASE plan.average
  BY <1>1, AvgKeeps DEF AggExact
<1>2. CASE ~plan.average
  BY <1>2, CntKeeps DEF AggExact
<1> QED BY <1>1, <1>2

\* The plan stays as it was made.
LEMMA ShapeStays ==
  ASSUME PlanShape, UNCHANGED <<query, plan>>
  PROVE  PlanShape'
BY DEF PlanShape

\* The aggregation and the sort do nothing.
LEMMA OthersStay ==
  ASSUME PlansInv, UNCHANGED plan, UNCHANGED agg_vars, UNCHANGED vars
  PROVE  AggInv' /\ SortInv'
<1>1. AggInv'
  <2>1. AggExact'
    BY AggIdle DEF PlansInv, AggInv
  <2> QED BY <2>1 DEF PlansInv, AggInv, OneBatch, agg_vars
<1>2. SortInv'
  <2>1. IInv'
    BY SortIdle DEF PlansInv, SortInv
  <2> QED BY <2>1 DEF PlansInv, SortInv, OneBatch, vars
<1> QED BY <1>1, <1>2

\* A step within the scan keeps the invariant.
LEMMA ScanMoveKeeps ==
  ASSUME Scans!AllSound, PlansInv, ScanMoves, UNCHANGED <<plan_vars, agg_vars, vars>>
  PROVE  PlansInv'
<1>1. UNCHANGED <<query, plan, status, output>> /\ UNCHANGED plan_vars
      /\ UNCHANGED agg_vars /\ UNCHANGED vars
  BY DEF plan_vars
<1>2. /\ ScanInv' /\ table' = table /\ delivered' = delivered
      /\ Chosen(Done)' = Chosen(Done)
      /\ scan_phase = "end" => scan_phase' = "end"
  BY <1>1, ScanMovesKeep DEF PlansInv
<1>3. PlanShape' /\ AggInv' /\ SortInv'
  BY <1>1, OthersStay, ShapeStays DEF PlansInv
<1>4. StatusInv'
  BY <1>1, <1>2, StatusStays DEF PlansInv
<1>5. PipeInv'
  <2>1. /\ AggRows' = AggRows /\ SortRows' = SortRows /\ Wanted' = Wanted
        /\ UNCHANGED <<agg_phase, rows, input, has_result>>
    BY <1>1, <1>2, WantedStays DEF AggRows, SortRows, agg_vars, vars
  <2>2. \A g : IsWhole(SortRows, Wanted, g) = IsWhole(SortRows, Wanted, g)'
    BY <2>1 DEF IsWhole, IsListing
  <2>3. Keyed(Chosen(Done))' = Keyed(Chosen(Done))
    BY <1>2 DEF Keyed, ToAggregate
  <2> QED BY <1>1, <1>2, <2>1, <2>2, <2>3 DEF PlansInv, PipeInv
<1> QED BY <1>2, <1>3, <1>4, <1>5 DEF PlansInv

\* So do the actions of the plan that are such steps.
LEMMA ScanOnlyKeeps ==
  ASSUME Scans!AllSound, PlansInv, BuildFilter \/ StartScan \/ ScanWorks \/ ScanEnds
  PROVE  PlansInv'
<1>1. UNCHANGED <<plan_vars, agg_vars, vars>>
  BY DEF BuildFilter, StartScan, ScanWorks, ScanEnds
<1>2. ScanMoves
  BY DEF BuildFilter, StartScan, ScanWorks, ScanEnds, ScanMoves
<1> QED BY <1>1, <1>2, ScanMoveKeeps

\* The plan of a query has the invariant at first.
LEMMA InitialPlan == PlansInit => PlansInv
<1> SUFFICES ASSUME PlansInit
             PROVE  PlansInv
  OBVIOUS
<1>1. PlanShape
  BY ShapeOfPlans
<1>2. Scan!Init /\ Init /\ output = <<>> /\ status = "running"
  BY DEF PlansInit
<1>3. Scans!IInv
  BY <1>2, ScanSteps, ScansInit
<1>4. /\ scan_phase = "build" /\ filters = <<>> /\ curr_batch = 1 /\ delivered = <<>>
  BY <1>2 DEF Scan!Init
<1>5. ScanInv
  BY <1>3, <1>4 DEF ScanInv, ChainInv, EndInv
<1>6. /\ agg_input = <<>> /\ agg_rows = <<>> /\ agg_phase = "run"
      /\ AggExact /\ (grouped <=> plan.aggregate = "groups")
  <2>1. grouped = (plan.aggregate = "groups")
    BY DEF PlansInit
  <2>2. CASE plan.average
    <3>1. Averages!Init
      BY <2>2 DEF PlansInit
    <3>2. agg_input = <<>> /\ agg_rows = <<>> /\ agg_phase = "run"
      BY <3>1, QueryPlansAssumption DEF Averages!Init
    <3>3. Avg!ExactInv
      BY <3>1, AvgSteps, AvgInit
    <3> QED BY <2>1, <2>2, <3>2, <3>3 DEF AggExact
  <2>3. CASE ~plan.average
    <3>1. Counts!Init
      BY <2>3 DEF PlansInit
    <3>2. agg_input = <<>> /\ agg_rows = <<>> /\ agg_phase = "run"
      BY <3>1, QueryPlansAssumption DEF Counts!Init
    <3>3. Cnt!ExactInv
      BY <3>1, CntSteps, CntInit
    <3> QED BY <2>1, <2>3, <3>2, <3>3 DEF AggExact
  <2> QED BY <2>2, <2>3
<1>7. AggInv
  BY <1>6 DEF AggInv, OneBatch
<1>8. /\ input = <<>> /\ rows = <<>> /\ has_result = FALSE
      /\ IInv /\ (limited <=> plan.sort = "limit")
  <2>1. limited = (plan.sort = "limit")
    BY DEF PlansInit
  <2>2. input = <<>> /\ rows = <<>> /\ has_result = FALSE
    BY <1>2, QueryPlansAssumption DEF Init
  <2> QED BY <1>2, <2>1, <2>2, InitEstablishesIInv
<1>9. SortInv
  BY <1>8 DEF SortInv, OneBatch
<1>10. Done = 0 /\ Chosen(Done) = <<>>
  <2>1. Done = 0
    BY <1>4 DEF Done
  <2> QED BY <1>5, <2>1, SelectedFacts
<1>11. AggRows = <<>> /\ SortRows = <<>>
  BY <1>6, <1>8, FlattenNone DEF AggRows, SortRows
<1>12. Keyed(Chosen(Done)) = <<>>
  BY <1>10 DEF Keyed
<1>13. PipeInv
  BY <1>2, <1>4, <1>6, <1>8, <1>10, <1>11, <1>12 DEF PipeInv
<1>14. StatusInv
  BY <1>2 DEF StatusInv, AnswerIsExact
<1> QED BY <1>1, <1>5, <1>7, <1>9, <1>13, <1>14 DEF PlansInv

-----------------------------------------------------------------------------
\* Batches that leave the scan.

\* Rows of a table are a batch of each aggregation.
LEMMA KeyedType ==
  ASSUME NEW s \in Seq(Scan!Row)
  PROVE  /\ Keyed(s) \in Avg!Batch /\ Keyed(s) \in Cnt!Batch
         /\ Len(Keyed(s)) = Len(s)
         /\ \A n \in 1 .. Len(s) : Keyed(s)[n] = ToAggregate(s[n])
<1>1. ASSUME NEW r \in Scan!Row
      PROVE  ToAggregate(r) \in Avg!Row /\ ToAggregate(r) \in Cnt!Row
  <2>1. r[1] \in Int /\ r[2] \in Int
    <3>1. r \in [Cells -> Int] /\ Cells = 1 .. 3
      BY RowsAreRows, QueryPlansAssumption
    <3> QED BY <3>1
  <2>2. [int |-> r[1]] \in [int : Int]
    BY <2>1
  <2>3. [int |-> r[1]] \in Avg!Cell /\ [int |-> r[1]] \in Cnt!Cell
    BY <2>2 DEF Avg!Cell, Cnt!Cell
  <2>4. <<[int |-> r[1]]>> \in Seq(Avg!Cell) /\ <<[int |-> r[1]]>> \in Seq(Cnt!Cell)
    BY <2>3
  <2>5. /\ <<r[2], r[2]>> \in [1 .. Len(<<"COUNT", "AVG">>) -> Int]
        /\ <<r[2], r[2]>> \in [1 .. Len(<<"COUNT", "COUNT">>) -> Int]
    BY <2>1
  <2> QED BY <2>4, <2>5 DEF ToAggregate, Avg!Row, Cnt!Row
<1>2. Len(s) \in Nat /\ \A n \in 1 .. Len(s) : s[n] \in Scan!Row
  OBVIOUS
<1>3. \A n \in 1 .. Len(s) : ToAggregate(s[n]) \in Avg!Row /\ ToAggregate(s[n]) \in Cnt!Row
  BY <1>1, <1>2
<1> QED BY <1>2, <1>3 DEF Keyed, Avg!Batch, Cnt!Batch

\* Batch by batch, the aggregation takes the rows of all.
LEMMA KeyedConcat ==
  ASSUME NEW s \in Seq(Scan!Row), NEW t \in Seq(Scan!Row)
  PROVE  Keyed(s \o t) = Keyed(s) \o Keyed(t)
<1> DEFINE a == Keyed(s \o t)
           b == Keyed(s)
           c == Keyed(t)
           u == s \o t
<1>1. /\ u \in Seq(Scan!Row) /\ Len(u) = Len(s) + Len(t)
      /\ Len(s) \in Nat /\ Len(t) \in Nat
      /\ \A n \in 1 .. Len(s) + Len(t) :
           u[n] = IF n <= Len(s) THEN s[n] ELSE t[n - Len(s)]
  BY ConcatProperties
<1>2. /\ b \in Seq(Avg!Row) /\ Len(b) = Len(s)
      /\ \A n \in 1 .. Len(s) : b[n] = ToAggregate(s[n])
  BY KeyedType DEF Avg!Batch
<1>3. /\ c \in Seq(Avg!Row) /\ Len(c) = Len(t)
      /\ \A n \in 1 .. Len(t) : c[n] = ToAggregate(t[n])
  BY KeyedType DEF Avg!Batch
<1>4. /\ a \in Seq(Avg!Row) /\ Len(a) = Len(s) + Len(t)
      /\ \A n \in 1 .. Len(u) : a[n] = ToAggregate(u[n])
  <2> HIDE DEF u
  <2>1. /\ Keyed(u) \in Seq(Avg!Row) /\ Len(Keyed(u)) = Len(u)
        /\ \A n \in 1 .. Len(u) : Keyed(u)[n] = ToAggregate(u[n])
    BY <1>1, KeyedType DEF Avg!Batch
  <2> QED BY <1>1, <2>1 DEF u
<1> HIDE DEF a, b, c, u
<1>5. ASSUME NEW n \in 1 .. Len(a)
      PROVE  (b \o c)[n] = a[n]
  <2>1. a[n] = ToAggregate(u[n])
    BY <1>1, <1>4
  <2>2. (b \o c)[n] = IF n <= Len(b) THEN b[n] ELSE c[n - Len(b)]
    BY <1>1, <1>2, <1>3, <1>4, ConcatProperties
  <2>3. CASE n <= Len(s)
    <3>1. n \in 1 .. Len(s) /\ u[n] = s[n]
      BY <1>1, <1>4, <2>3
    <3> QED BY <1>2, <2>1, <2>2, <2>3, <3>1
  <2>4. CASE ~(n <= Len(s))
    <3> DEFINE m == n - Len(s)
    <3>1. m \in 1 .. Len(t) /\ u[n] = t[m]
      BY <1>1, <1>4, <2>4
    <3>2. (b \o c)[n] = c[m]
      BY <1>2, <2>2, <2>4
    <3> HIDE DEF m
    <3> QED BY <1>3, <2>1, <3>1, <3>2
  <2> QED BY <2>3, <2>4
<1>6. a = b \o c
  <2>1. b \o c \in Seq(Avg!Row) /\ Len(b \o c) = Len(a)
    <3>1. b \o c \in Seq(Avg!Row) /\ Len(b \o c) = Len(b) + Len(c)
      BY <1>2, <1>3, ConcatProperties
    <3> QED BY <1>1, <1>2, <1>3, <1>4, <3>1
  <2> QED BY <1>4, <1>5, <2>1, SeqEqual
<1> QED BY <1>6 DEF a, b, c, u

\* The child of the aggregation returns a batch.
LEMMA AvgTakesInput ==
  ASSUME Avg!ExactInv, agg_input' \in Seq(Avg!Batch),
         UNCHANGED <<grouped, agg_rows, agg_read, hash_to_group_id,
                 group_name, group_to_accumulators, members, agg_result, agg_phase>>
  PROVE  Avg!ExactInv'
<1>1. Avg!TypeOK'
  BY DEF Avg!ExactInv, Avg!IInv, Avg!TypeOK
<1>2. Avg!GroupInv'
  BY DEF Avg!ExactInv, Avg!IInv, Avg!GroupInv, Avg!MapInv, Avg!NamesInv, Avg!MembersInv,
         Avg!DistinctInv, Avg!Groups
<1>3. Avg!AccInv'
  BY DEF Avg!ExactInv, Avg!AccInv, Avg!Groups
<1>4. Avg!OrderInv' /\ Avg!WholeInv' /\ Avg!ResultInv'
  BY DEF Avg!ExactInv, Avg!OrderInv, Avg!WholeInv, Avg!ResultInv, Avg!Groups
<1> QED BY <1>1, <1>2, <1>3, <1>4 DEF Avg!ExactInv, Avg!IInv

\* So it does without AVG.
LEMMA CntTakesInput ==
  ASSUME Cnt!ExactInv, agg_input' \in Seq(Cnt!Batch),
         UNCHANGED <<grouped, agg_rows, agg_read, hash_to_group_id,
                 group_name, group_to_accumulators, members, agg_result, agg_phase>>
  PROVE  Cnt!ExactInv'
<1>1. Cnt!TypeOK'
  BY DEF Cnt!ExactInv, Cnt!IInv, Cnt!TypeOK
<1>2. Cnt!GroupInv'
  BY DEF Cnt!ExactInv, Cnt!IInv, Cnt!GroupInv, Cnt!MapInv, Cnt!NamesInv, Cnt!MembersInv,
         Cnt!DistinctInv, Cnt!Groups
<1>3. Cnt!AccInv'
  BY DEF Cnt!ExactInv, Cnt!AccInv, Cnt!Groups
<1>4. Cnt!OrderInv' /\ Cnt!WholeInv' /\ Cnt!ResultInv'
  BY DEF Cnt!ExactInv, Cnt!OrderInv, Cnt!WholeInv, Cnt!ResultInv, Cnt!Groups
<1> QED BY <1>1, <1>2, <1>3, <1>4 DEF Cnt!ExactInv, Cnt!IInv

\* The child of the sort returns a batch.
LEMMA SortTakesInput ==
  ASSUME IInv, input' \in Seq(Batch),
         UNCHANGED <<limited, has_result, rows, read, kept, result, phase>>
  PROVE  IInv'
<1>1. TypeOK' /\ AmountInv'
  BY DEF IInv, TypeOK, AmountInv
<1>2. BestInv'
  BY DEF IInv, BestInv, Before
<1>3. AnswerInv'
  BY DEF IInv, AnswerInv, Sorted, Before
<1> QED BY <1>1, <1>2, <1>3 DEF IInv

\* A batch of the scan that the aggregation pulls.
LEMMA AggregationPullsKeeps ==
  ASSUME Scans!AllSound, PlansInv, AggregationPulls
  PROVE  PlansInv'
<1>1. /\ plan.aggregate # "no" /\ Scan!Deliver
      /\ agg_input = <<>> /\ agg_phase = "run"
      /\ agg_input' = <<Keyed(BatchRows)>>
      /\ UNCHANGED <<query, plan, status, output>> /\ UNCHANGED plan_vars /\ UNCHANGED vars
      /\ UNCHANGED <<grouped, agg_rows, agg_read, hash_to_group_id,
                 group_name, group_to_accumulators, members, agg_result, agg_phase>>
  BY DEF AggregationPulls, Keyed, ScanAsked, AggregationWaits, plan_vars
<1>2. /\ ScanInv' /\ table' = table /\ scan_phase = "filter"
      /\ Chosen(Done)' = Chosen(Done) \o BatchRows
      /\ Chosen(Done) \in Seq(Scan!Row) /\ BatchRows \in Seq(Scan!Row)
  BY <1>1, DeliveryKeeps DEF PlansInv
<1>3. Keyed(BatchRows) \in Avg!Batch /\ Keyed(BatchRows) \in Cnt!Batch
  BY <1>2, KeyedType
<1>4. AggExact'
  <2>1. agg_input' \in Seq(Avg!Batch) /\ agg_input' \in Seq(Cnt!Batch)
    BY <1>1, <1>3
  <2> QED BY <1>1, <2>1, AvgTakesInput, CntTakesInput DEF PlansInv, AggInv, AggExact
<1>5. AggInv'
  BY <1>1, <1>4 DEF PlansInv, AggInv, OneBatch
<1>6. SortInv' /\ PlanShape'
  <2>1. IInv'
    BY <1>1, SortIdle DEF PlansInv, SortInv
  <2> QED BY <1>1, <2>1, ShapeStays DEF PlansInv, SortInv, OneBatch, vars
<1>7. AggRows' = Keyed(Chosen(Done)')
  <2>1. agg_rows \in Seq(Avg!Row) \/ agg_rows \in Seq(Cnt!Row)
    BY DEF PlansInv, AggInv, AggExact, Avg!ExactInv, Avg!IInv, Avg!TypeOK, Avg!Batch,
           Cnt!ExactInv, Cnt!IInv, Cnt!TypeOK, Cnt!Batch
  <2>2. AggRows = agg_rows
    BY <1>1, <2>1, FlattenNone, ConcatEmptySeq DEF AggRows
  <2>3. FlattenSeq(<<Keyed(BatchRows)>>) = Keyed(BatchRows)
    BY <1>3, FlattenOne DEF Avg!Batch
  <2>4. AggRows' = agg_rows \o Keyed(BatchRows)
    BY <1>1, <2>3 DEF AggRows
  <2>5. agg_rows = Keyed(Chosen(Done))
    BY <1>1, <2>2 DEF PlansInv, PipeInv
  <2> QED BY <1>2, <2>4, <2>5, KeyedConcat
<1>8. PipeInv'
  <2>1. Keyed(Chosen(Done))' = Keyed(Chosen(Done)')
    BY DEF Keyed, ToAggregate
  <2>2. plan' = plan /\ agg_phase' = "run" /\ rows' = rows /\ input' = input
    BY <1>1 DEF vars
  <2> QED BY <1>1, <1>7, <2>1, <2>2 DEF PlansInv, PipeInv
<1>9. StatusInv'
  BY <1>1, <1>2, StatusStays DEF PlansInv
<1> QED BY <1>2, <1>5, <1>6, <1>8, <1>9 DEF PlansInv

\* A batch of the scan that the sort pulls.
LEMMA SortPullsKeeps ==
  ASSUME Scans!AllSound, PlansInv, SortPulls
  PROVE  PlansInv'
<1>1. /\ plan.aggregate = "no" /\ plan.sort # "no" /\ Scan!Deliver
      /\ input = <<>> /\ phase = "run"
      /\ input' = <<BatchRows>>
      /\ UNCHANGED <<query, plan, status, output>> /\ UNCHANGED plan_vars /\ UNCHANGED agg_vars
      /\ UNCHANGED <<limited, has_result, rows, read, kept, result, phase>>
  BY DEF SortPulls, ScanAsked, SortWaits, plan_vars
<1>2. /\ ScanInv' /\ table' = table /\ scan_phase = "filter"
      /\ Chosen(Done)' = Chosen(Done) \o BatchRows
      /\ Chosen(Done) \in Seq(Scan!Row) /\ BatchRows \in Seq(Scan!Row)
  BY <1>1, DeliveryKeeps DEF PlansInv
<1>3. BatchRows \in Seq(Row)
  BY <1>2, RowsAreRows
<1>4. SortInv'
  <2>1. input' \in Seq(Batch)
    BY <1>1, <1>3 DEF Batch
  <2>2. IInv'
    BY <1>1, <2>1, SortTakesInput DEF PlansInv, SortInv
  <2> QED BY <1>1, <2>2 DEF PlansInv, SortInv, OneBatch
<1>5. AggInv' /\ PlanShape'
  <2>1. AggExact'
    BY <1>1, AggIdle DEF PlansInv, AggInv
  <2> QED BY <1>1, <2>1, ShapeStays DEF PlansInv, AggInv, OneBatch, agg_vars
<1>6. SortRows' = Chosen(Done)'
  <2>1. rows \in Seq(Row)
    BY DEF PlansInv, SortInv, IInv, TypeOK, Batch
  <2>2. SortRows = rows
    BY <1>1, <2>1, FlattenNone, ConcatEmptySeq DEF SortRows
  <2>3. FlattenSeq(<<BatchRows>>) = BatchRows
    BY <1>3, FlattenOne
  <2>4. SortRows' = rows \o BatchRows
    BY <1>1, <2>3 DEF SortRows
  <2>5. rows = Chosen(Done)
    BY <1>1, <2>2 DEF PlansInv, PipeInv
  <2> QED BY <1>2, <2>4, <2>5
<1>7. PipeInv'
  BY <1>1, <1>6 DEF PlansInv, PipeInv
<1>8. StatusInv'
  BY <1>1, <1>2, StatusStays DEF PlansInv
<1> QED BY <1>2, <1>4, <1>5, <1>7, <1>8 DEF PlansInv

\* A batch of the scan that is printed at once.
LEMMA PrintBatchKeeps ==
  ASSUME Scans!AllSound, PlansInv, PrintBatch
  PROVE  PlansInv'
<1>1. /\ plan.aggregate = "no" /\ plan.sort = "no" /\ Scan!Deliver
      /\ status = "running" /\ output' = output \o BatchRows
      /\ UNCHANGED <<query, plan, status>> /\ UNCHANGED agg_vars /\ UNCHANGED vars
  BY DEF PrintBatch, ScanAsked
<1>2. /\ ScanInv' /\ Chosen(Done)' = Chosen(Done) \o BatchRows
  BY <1>1, DeliveryKeeps DEF PlansInv
<1>3. AggInv' /\ SortInv' /\ PlanShape'
  BY <1>1, OthersStay, ShapeStays DEF PlansInv
<1>4. PipeInv'
  BY <1>1, <1>2 DEF PlansInv, PipeInv
<1>5. StatusInv'
  BY <1>1 DEF StatusInv, AnswerIsExact
<1> QED BY <1>2, <1>3, <1>4, <1>5 DEF PlansInv

-----------------------------------------------------------------------------
\* The aggregation and the sort at work.

\* A batch that is pulled is added to the rows so far.
LEMMA OneBatchPulled ==
  ASSUME NEW S, NEW r \in Seq(S), NEW s \in Seq(Seq(S)), OneBatch(s), s # <<>>
  PROVE  /\ Tail(s) = <<>> /\ OneBatch(Tail(s))
         /\ (r \o Head(s)) \o FlattenSeq(Tail(s)) = r \o FlattenSeq(s)
<1>1. PICK b : s = <<b>>
  BY DEF OneBatch
<1>2. b \in Seq(S) /\ Head(s) = b /\ Tail(s) = <<>>
  BY <1>1
<1>3. FlattenSeq(s) = b /\ FlattenSeq(Tail(s)) = <<>>
  BY <1>1, <1>2, FlattenOne, FlattenNone
<1>4. r \o b \in Seq(S)
  BY <1>2
<1>5. (r \o b) \o <<>> = r \o b
  BY <1>4, ConcatEmptySeq
<1> QED BY <1>2, <1>3, <1>5 DEF OneBatch

\* The aggregation takes a batch, or a row of it.
AggTakes ==
  /\ agg_phase = "run" /\ UNCHANGED <<grouped, agg_phase>>
  /\ \/ UNCHANGED <<agg_input, agg_rows>>
     \/ /\ agg_input # <<>>
        /\ agg_rows' = agg_rows \o Head(agg_input) /\ agg_input' = Tail(agg_input)

\* The aggregation at work touches nothing but its own state, and takes its
\* input in order.
LEMMA AggregationTakes ==
  ASSUME PlansInv, AggregationWorks
  PROVE  AggTakes /\ AggExact' /\ UNCHANGED <<plan_vars, scan_vars, vars>>
<1>1. plan' = plan /\ UNCHANGED <<plan_vars, scan_vars, vars>>
  BY DEF AggregationWorks, plan_vars
<1>2. CASE plan.average
  <2>1. \/ Averages!PullBatch
        \/ Averages!NewGroup
        \/ Averages!KnownGroup
        \/ Averages!UpdateColumns
    BY <1>2 DEF AggregationWorks
  <2>2. [Avg!Next]_agg_vars
    BY <2>1, AvgSteps DEF Avg!Next
  <2>3. AggExact'
    BY <1>1, <1>2, <2>2, AvgKeeps DEF PlansInv, AggInv, AggExact
  <2>4. AggTakes
    BY <2>1 DEF AggTakes, Averages!PullBatch, Averages!NewGroup, Averages!More,
           Averages!KnownGroup, Averages!Take, Averages!UpdateColumns
  <2> QED BY <1>1, <2>3, <2>4
<1>3. CASE ~plan.average
  <2>1. \/ Counts!PullBatch
        \/ Counts!NewGroup
        \/ Counts!KnownGroup
        \/ Counts!UpdateColumns
    BY <1>3 DEF AggregationWorks
  <2>2. [Cnt!Next]_agg_vars
    BY <2>1, CntSteps DEF Cnt!Next
  <2>3. AggExact'
    BY <1>1, <1>3, <2>2, CntKeeps DEF PlansInv, AggInv, AggExact
  <2>4. AggTakes
    BY <2>1 DEF AggTakes, Counts!PullBatch, Counts!NewGroup, Counts!More,
           Counts!KnownGroup, Counts!Take, Counts!UpdateColumns
  <2> QED BY <1>1, <2>3, <2>4
<1> QED BY <1>2, <1>3

\* What the aggregation has read and has before it are lists.
LEMMA AggTypes ==
  ASSUME AggExact
  PROVE  \E S : agg_rows \in Seq(S) /\ agg_input \in Seq(Seq(S))
<1>1. CASE plan.average
  BY <1>1 DEF AggExact, Avg!ExactInv, Avg!IInv, Avg!TypeOK, Avg!Batch
<1>2. CASE ~plan.average
  BY <1>2 DEF AggExact, Cnt!ExactInv, Cnt!IInv, Cnt!TypeOK, Cnt!Batch
<1> QED BY <1>1, <1>2

\* Whatever the aggregation does, as long as nothing leaves it.
LEMMA ScanStays ==
  ASSUME ScanInv, UNCHANGED plan, UNCHANGED scan_vars
  PROVE  /\ ScanInv' /\ UNCHANGED <<table, delivered, scan_phase>>
         /\ Chosen(Done)' = Chosen(Done) /\ Keyed(Chosen(Done))' = Keyed(Chosen(Done))
<1>1. UNCHANGED <<table, filters, scan_phase, curr_batch, delivered>>
  BY DEF scan_vars
<1>2. Scans!IInv'
  BY ScansIdle DEF ScanInv
<1>3. Done' = Done
  BY <1>1 DEF Done
<1>4. Chosen(Done)' = Chosen(Done)
  BY <1>1, <1>3, ChosenNext
<1>5. Keyed(Chosen(Done))' = Keyed(Chosen(Done))
  BY <1>4 DEF Keyed, ToAggregate
<1>6. ChainInv' /\ EndInv'
  BY <1>1 DEF ScanInv, ChainInv, EndInv
<1> QED BY <1>1, <1>2, <1>4, <1>5, <1>6 DEF ScanInv

\* Whatever the other operators do, as long as the sort does nothing.
LEMMA SortStays ==
  ASSUME SortInv, UNCHANGED plan, UNCHANGED vars
  PROVE  /\ SortInv' /\ SortRows' = SortRows /\ UNCHANGED <<rows, input, has_result>>
<1>1. IInv'
  BY SortIdle DEF SortInv
<1> QED BY <1>1 DEF SortInv, OneBatch, SortRows, vars

\* The aggregation takes a batch, finds or makes a group or updates columns.
LEMMA AggregationWorksKeeps ==
  ASSUME PlansInv, AggregationWorks
  PROVE  PlansInv'
<1>1. /\ AggTakes /\ AggExact' /\ UNCHANGED plan_vars /\ UNCHANGED scan_vars
      /\ UNCHANGED vars /\ UNCHANGED <<query, plan, status, output>>
  BY AggregationTakes DEF plan_vars
<1>2. /\ ScanInv' /\ UNCHANGED <<table, delivered, scan_phase>>
      /\ Chosen(Done)' = Chosen(Done) /\ Keyed(Chosen(Done))' = Keyed(Chosen(Done))
  BY <1>1, ScanStays DEF PlansInv
<1>3. SortInv' /\ SortRows' = SortRows /\ UNCHANGED <<rows, input, has_result>>
  BY <1>1, SortStays DEF PlansInv
<1>4. PlanShape' /\ StatusInv'
  BY <1>1, <1>2, ShapeStays, StatusStays DEF PlansInv
<1>5. AggRows' = AggRows /\ OneBatch(agg_input)'
  <2>1. CASE UNCHANGED <<agg_input, agg_rows>>
    BY <2>1 DEF AggRows, PlansInv, AggInv, OneBatch
  <2>2. CASE /\ agg_input # <<>>
             /\ agg_rows' = agg_rows \o Head(agg_input) /\ agg_input' = Tail(agg_input)
    <3>1. OneBatch(agg_input) /\ AggExact
      BY DEF PlansInv, AggInv
    <3>2. PICK S : agg_rows \in Seq(S) /\ agg_input \in Seq(Seq(S))
      BY <3>1, AggTypes
    <3>3. /\ Tail(agg_input) = <<>>
          /\ (agg_rows \o Head(agg_input)) \o FlattenSeq(Tail(agg_input))
               = agg_rows \o FlattenSeq(agg_input)
      BY <2>2, <3>1, <3>2, OneBatchPulled
    <3> QED BY <2>2, <3>3 DEF AggRows, OneBatch
  <2> QED BY <1>1, <2>1, <2>2 DEF AggTakes
<1>6. AggInv'
  BY <1>1, <1>5 DEF PlansInv, AggInv, AggTakes
<1>7. PipeInv'
  BY <1>1, <1>2, <1>3, <1>5 DEF PlansInv, PipeInv, AggTakes
<1> QED BY <1>2, <1>3, <1>4, <1>6, <1>7 DEF PlansInv

\* The sort takes a batch or a row.
LEMMA SortWorksKeeps ==
  ASSUME PlansInv, SortWorks
  PROVE  PlansInv'
<1>1. /\ UNCHANGED plan_vars /\ UNCHANGED scan_vars /\ UNCHANGED agg_vars
      /\ UNCHANGED <<query, plan, status, output, agg_phase, agg_rows, agg_input>>
  BY DEF SortWorks, plan_vars, agg_vars
<1>2. /\ ScanInv' /\ UNCHANGED <<table, delivered, scan_phase>>
      /\ Chosen(Done)' = Chosen(Done) /\ Keyed(Chosen(Done))' = Keyed(Chosen(Done))
  BY <1>1, ScanStays DEF PlansInv
<1>3. AggInv' /\ AggRows' = AggRows
  <2>1. AggExact'
    BY <1>1, AggIdle DEF PlansInv, AggInv
  <2> QED BY <1>1, <2>1 DEF PlansInv, AggInv, OneBatch, agg_vars, AggRows
<1>4. PlanShape' /\ StatusInv'
  BY <1>1, <1>2, ShapeStays, StatusStays DEF PlansInv
<1>5. IInv'
  BY StepKeepsIInv DEF SortWorks, Next, PlansInv, SortInv
<1>6. /\ limited' = limited
      /\ \/ UNCHANGED <<rows, input, has_result>>
         \/ /\ input # <<>> /\ has_result'
            /\ rows' = rows \o Head(input) /\ input' = Tail(input)
  BY DEF SortWorks, PullBatch, KeepRow, ReplaceTop, DropRow
<1>7. /\ SortRows' = SortRows /\ OneBatch(input)'
      /\ ~has_result' => rows' = <<>>
      /\ has_result \/ input # <<>> => has_result' \/ input' # <<>>
      /\ rows = <<>> /\ input = <<>> => rows' = <<>> /\ input' = <<>>
  <2>1. CASE UNCHANGED <<rows, input, has_result>>
    BY <2>1 DEF SortRows, PlansInv, SortInv, OneBatch
  <2>2. CASE /\ input # <<>> /\ has_result'
             /\ rows' = rows \o Head(input) /\ input' = Tail(input)
    <3>1. OneBatch(input) /\ rows \in Seq(Row) /\ input \in Seq(Seq(Row))
      BY DEF PlansInv, SortInv, IInv, TypeOK, Batch
    <3>2. /\ Tail(input) = <<>>
          /\ (rows \o Head(input)) \o FlattenSeq(Tail(input)) = rows \o FlattenSeq(input)
      BY <2>2, <3>1, OneBatchPulled
    <3> QED BY <2>2, <3>2 DEF SortRows, OneBatch
  <2> QED BY <1>6, <2>1, <2>2
<1>8. SortInv'
  BY <1>1, <1>5, <1>6, <1>7 DEF PlansInv, SortInv
<1>9. PipeInv'
  <2>1. Wanted' = Wanted
    BY <1>1, <1>2, WantedStays
  <2>2. \A g : IsWhole(SortRows, Wanted, g) = IsWhole(SortRows, Wanted, g)'
    BY <1>7, <2>1 DEF IsWhole, IsListing
  <2> QED BY <1>1, <1>2, <1>3, <1>7, <2>2 DEF PlansInv, PipeInv
<1> QED BY <1>2, <1>3, <1>4, <1>8, <1>9 DEF PlansInv

\* The aggregation returns that there is nothing more.
LEMMA AggregationEndsKeeps ==
  ASSUME PlansInv, AggregationEnds
  PROVE  PlansInv'
<1>1. /\ Counts!ReturnNothing /\ UNCHANGED plan_vars /\ UNCHANGED scan_vars /\ UNCHANGED vars
      /\ UNCHANGED <<query, plan, status, output>>
  BY DEF AggregationEnds, plan_vars
<1>2. /\ grouped /\ agg_phase = "done" /\ agg_phase' = "none"
      /\ UNCHANGED <<grouped, agg_input, agg_rows>>
  BY <1>1 DEF Counts!ReturnNothing, Counts!taken
<1>3. Avg!ReturnNothing /\ Cnt!ReturnNothing
  BY <1>1 DEF Counts!ReturnNothing, Avg!ReturnNothing, Cnt!ReturnNothing,
              Counts!taken, Counts!groups, Avg!taken, Avg!groups, Cnt!taken, Cnt!groups
<1>4. AggExact'
  <2>1. [Avg!Next]_agg_vars /\ [Cnt!Next]_agg_vars
    BY <1>3 DEF Avg!Next, Cnt!Next
  <2> QED BY <1>1, <2>1, AvgKeeps, CntKeeps DEF PlansInv, AggInv, AggExact
<1>5. /\ ScanInv' /\ UNCHANGED <<table, delivered, scan_phase>>
      /\ Chosen(Done)' = Chosen(Done) /\ Keyed(Chosen(Done))' = Keyed(Chosen(Done))
  BY <1>1, ScanStays DEF PlansInv
<1>6. SortInv' /\ SortRows' = SortRows /\ UNCHANGED <<rows, input, has_result>>
  BY <1>1, SortStays DEF PlansInv
<1>7. PlanShape' /\ StatusInv'
  BY <1>1, <1>5, ShapeStays, StatusStays DEF PlansInv
<1>8. AggInv' /\ AggRows' = AggRows
  BY <1>1, <1>2, <1>4 DEF PlansInv, AggInv, OneBatch, AggRows
<1>9. PipeInv'
  <2>1. Wanted' = Wanted
    BY <1>1, <1>5, WantedStays
  <2>2. \A g : IsWhole(SortRows, Wanted, g) = IsWhole(SortRows, Wanted, g)'
    BY <1>6, <2>1 DEF IsWhole, IsListing
  <2>3. plan.aggregate # "no"
    BY <1>2 DEF PlansInv, AggInv
  <2> QED BY <1>1, <1>2, <1>5, <1>6, <1>8, <2>2, <2>3 DEF PlansInv, PipeInv
<1> QED BY <1>5, <1>6, <1>7, <1>8, <1>9 DEF PlansInv

-----------------------------------------------------------------------------
\* Ends without an answer of an aggregation or a sort.

\* What has to be shown of the printed rows for AnswerIsExact after a step.
LEMMA ExactNext ==
  (status' = "answered" =>
     Exactly(output', Wanted', plan'.offset, IF plan'.sort = "limit" THEN K ELSE plan'.limit,
             plan'.sort # "no"))
  => AnswerIsExact'
BY DEF AnswerIsExact, Exactly, Printing, Times, Ahead, Behind

\* Without OFFSET and LIMIT the slice is the list.
LEMMA SliceOfAll ==
  ASSUME NEW S, NEW s \in Seq(S), NEW p, p.offset = 0, p.limit \in Nat, Len(s) <= p.limit
  PROVE  Slice(s, p) = s
<1>1. Len(s) \in Nat
  OBVIOUS
<1>2. Slice(s, p) = SubSeq(s, 1, Len(s))
  BY <1>1 DEF Slice
<1> QED BY <1>2, SubSeqFull

\* A list is a listing of itself.
LEMMA ListsItself ==
  ASSUME NEW S, NEW s \in Seq(S)
  PROVE  /\ IsListing(s, s, [n \in 1 .. Len(s) |-> n])
         /\ IsWhole(s, s, [n \in 1 .. Len(s) |-> n])
         /\ Cardinality(DOMAIN s) = Len(s)
<1> DEFINE f == [n \in 1 .. Len(s) |-> n]
<1>1. Len(s) \in Nat /\ DOMAIN s = 1 .. Len(s)
  OBVIOUS
<1>2. IsFiniteSet(DOMAIN s) /\ Cardinality(DOMAIN s) = Len(s)
  BY <1>1, FS_Interval
<1>3. f \in Injection(1 .. Len(s), DOMAIN s)
  BY <1>1 DEF Injection, IsInjective
<1> QED BY <1>1, <1>2, <1>3 DEF IsListing, IsWhole

\* A plan without aggregation and sort ends with the scan.
LEMMA EndOfLoopKeeps ==
  ASSUME PlansInv, EndOfLoop
  PROVE  PlansInv'
<1>1. /\ plan.aggregate = "no" /\ plan.sort = "no" /\ scan_phase = "end"
      /\ status' = "answered"
      /\ UNCHANGED <<query, plan, output>>
      /\ UNCHANGED scan_vars /\ UNCHANGED agg_vars /\ UNCHANGED vars
  BY DEF EndOfLoop
<1>2. /\ ScanInv' /\ UNCHANGED <<table, delivered, scan_phase>>
      /\ Chosen(Done)' = Chosen(Done) /\ Keyed(Chosen(Done))' = Keyed(Chosen(Done))
  BY <1>1, ScanStays DEF PlansInv
<1>3. AggInv' /\ SortInv' /\ PlanShape'
  BY <1>1, OthersStay, ShapeStays DEF PlansInv
<1>4. PipeInv'
  BY <1>1, <1>2 DEF PlansInv, PipeInv
<1>5. output' = Selected /\ Wanted' = Selected
  BY <1>1, <1>2, ChosenAtEnd, WantedStays DEF PlansInv, PipeInv, Wanted
<1>6. /\ Selected \in Seq(Scan!Row) /\ Len(Selected) <= Everything /\ Len(Selected) \in Nat
      /\ plan.offset = 0 /\ plan.limit = Everything /\ Everything \in Nat
  BY <1>1, SelectedFacts, QueryPlansAssumption DEF PlansInv, PlanShape
<1>7. Exactly(Selected, Selected, 0, Everything, FALSE)
  <2> DEFINE s == Selected
             f == [n \in 1 .. Len(s) |-> n]
             amount == Cardinality(DOMAIN s)
  <2>1. IsListing(s, s, f) /\ amount = Len(s)
    BY <1>6, ListsItself
  <2>2. Slice(s, plan) = s
    BY <1>6, SliceOfAll
  <2>3. Suffices(s, plan, amount, Everything)
    BY <1>6, <2>1 DEF Suffices
  <2>4. s \in Seq(Scan!Row) /\ FALSE \in BOOLEAN
    BY <1>6
  <2> HIDE DEF s, f, amount
  <2>5. Exactly(Slice(s, plan), s, plan.offset, Everything, FALSE)
    BY <2>1, <2>3, <2>4, SlicesAreExact DEF amount
  <2> QED BY <1>6, <2>2, <2>5 DEF s
<1>8. AnswerIsExact'
  BY <1>1, <1>5, <1>6, <1>7, ExactNext
<1>9. StatusInv'
  BY <1>1, <1>8 DEF StatusInv
<1> QED BY <1>2, <1>3, <1>4, <1>9 DEF PlansInv

\* The number of elements of a set, in AggregationProofs.
LEMMA AvgCardinality == \A S : Avg!Cardinality(S) = Cardinality(S)
BY DEF Avg!Cardinality, Cardinality

\* The same without AVG.
LEMMA CntCardinality == \A S : Cnt!Cardinality(S) = Cardinality(S)
BY DEF Cnt!Cardinality, Cardinality

\* An average fails only when the group has no row.
LEMMA BadHasNoRows ==
  ASSUME Avg!ExactInv, Averages!AverageThrows
  PROVE  ~grouped /\ agg_rows = <<>>
<1>1. /\ agg_read = Len(agg_rows)
      /\ \E g \in 1 .. Len(group_name) : Averages!Bad(group_to_accumulators[g])
  BY DEF Averages!AverageThrows, Averages!AtEnd
<1>2. PICK g \in 1 .. Len(group_name) : Averages!Bad(group_to_accumulators[g])
  BY <1>1
<1>3. group_to_accumulators[g][2].count = 0
  BY <1>2 DEF Averages!Bad
<1>4. Avg!IsAcc(group_to_accumulators[g][2], agg_rows, 2, members[g])
  BY <1>2 DEF Avg!ExactInv, Avg!AccInv, Avg!Groups
<1>5. Cardinality(members[g]) = 0
  <2> DEFINE acc == group_to_accumulators[g][2]
             S == members[g]
  <2>1. acc.op = "AVG" /\ (acc.op \in {"AVG", "COUNT"} => acc.count = Cardinality(S))
    BY <1>4, AvgCardinality DEF Avg!IsAcc
  <2>2. acc.count = 0
    BY <1>3
  <2> HIDE DEF acc, S
  <2>3. Cardinality(S) = 0
    BY <2>1, <2>2
  <2> QED BY <2>3 DEF S
<1>6. members[g] = {}
  <2>1. members[g] \in SUBSET (1 .. agg_read) /\ agg_read \in Nat
    BY <1>2 DEF Avg!ExactInv, Avg!IInv, Avg!TypeOK
  <2>2. IsFiniteSet(members[g])
    <3>1. IsFiniteSet(1 .. agg_read)
      BY <2>1, FS_Interval
    <3> QED BY <2>1, <3>1, FS_Subset
  <2> QED BY <1>5, <2>2, FS_EmptySet
<1>7. ~grouped
  <2> SUFFICES ASSUME grouped
               PROVE  FALSE
    OBVIOUS
  <2>1. Avg!NamesInv /\ Avg!MembersInv
    BY DEF Avg!ExactInv, Avg!IInv, Avg!GroupInv
  <2>2. PICK m \in 1 .. agg_read : group_name[g] = agg_rows[m].key
    BY <1>2, <2>1 DEF Avg!NamesInv, Avg!Groups
  <2>3. m \in members[g]
    BY <1>2, <2>1, <2>2 DEF Avg!MembersInv, Avg!Groups
  <2> QED BY <1>6, <2>3
<1>8. agg_rows = <<>>
  <2>1. Len(group_name) = 1 /\ members[1] = 1 .. agg_read
    BY <1>7 DEF Avg!ExactInv, Avg!IInv, Avg!GroupInv, Avg!WholeInv
  <2>2. agg_rows \in Seq(Avg!Row) /\ g = 1
    BY <1>2, <2>1 DEF Avg!ExactInv, Avg!IInv, Avg!TypeOK, Avg!Batch
  <2>3. Len(agg_rows) = 0
    <3>1. members[1] = {}
      BY <1>6, <2>2
    <3>2. 1 .. agg_read = {}
      BY <2>1, <3>1
    <3>3. Len(agg_rows) \in Nat
      BY <2>2
    <3> QED BY <1>1, <3>2, <3>3
  <2> QED BY <2>2, <2>3
<1> QED BY <1>7, <1>8

\* An average of no row refuses the query: no row was selected then.
LEMMA AverageFailsKeeps ==
  ASSUME PlansInv, AverageFails
  PROVE  PlansInv'
<1>1. /\ plan.aggregate # "no" /\ plan.average /\ scan_phase = "end"
      /\ Averages!AverageThrows /\ status' = "refused"
      /\ UNCHANGED <<query, plan, output>>
      /\ UNCHANGED scan_vars /\ UNCHANGED vars
  BY DEF AverageFails
<1>2. /\ ScanInv' /\ UNCHANGED <<table, delivered, scan_phase>>
      /\ Chosen(Done)' = Chosen(Done) /\ Keyed(Chosen(Done))' = Keyed(Chosen(Done))
  BY <1>1, ScanStays DEF PlansInv
<1>3. SortInv' /\ SortRows' = SortRows /\ PlanShape'
  BY <1>1, SortStays, ShapeStays DEF PlansInv
<1>4. Avg!ExactInv
  BY <1>1 DEF PlansInv, AggInv, AggExact
<1>5. ~grouped /\ agg_rows = <<>>
  BY <1>1, <1>4, BadHasNoRows
<1>6. /\ agg_phase' = "throw" /\ agg_input = <<>>
      /\ UNCHANGED <<grouped, agg_input, agg_rows>>
  BY <1>1 DEF Averages!AverageThrows, Averages!AtEnd, Averages!taken
<1>7. AggInv' /\ AggRows' = AggRows
  <2>1. [Avg!Next]_agg_vars
    BY <1>1, AvgSteps DEF Avg!Next
  <2>2. AggExact'
    BY <1>1, <1>4, <2>1, AvgKeeps DEF AggExact
  <2> QED BY <1>1, <1>6, <2>2 DEF PlansInv, AggInv, OneBatch, AggRows
<1>8. PipeInv'
  BY <1>1, <1>2, <1>6, <1>7 DEF PlansInv, PipeInv
<1>9. Selected = <<>>
  <2>1. AggRows = <<>>
    BY <1>5, <1>6, FlattenNone DEF AggRows
  <2>2. Keyed(Selected) = <<>>
    BY <1>1, <2>1, ChosenAtEnd DEF PlansInv, PipeInv
  <2>3. Selected \in Seq(Scan!Row)
    BY SelectedFacts DEF PlansInv
  <2>4. Len(Selected) = 0
    BY <2>2, <2>3, KeyedType
  <2> QED BY <2>3, <2>4
<1>10. RefusedWithoutRowsOnly'
  <2>1. Selected' = <<>>
    BY <1>1, <1>2, <1>9, WantedStays
  <2>2. plan.aggregate = "all"
    BY <1>1, <1>5 DEF PlansInv, PlanShape, AggInv
  <2> QED BY <1>1, <2>1, <2>2 DEF RefusedWithoutRowsOnly
<1>11. StatusInv'
  BY <1>1, <1>2, <1>10 DEF StatusInv, AnswerIsExact
<1> QED BY <1>2, <1>3, <1>7, <1>8, <1>11 DEF PlansInv

\* A sort without a row refuses the query: no row was wanted then.
LEMMA RefuseNothingKeeps ==
  ASSUME PlansInv, RefuseNothing
  PROVE  PlansInv'
<1>1. /\ plan.sort # "no" /\ ChildEnded /\ ReturnNothing
      /\ status' = "refused"
      /\ UNCHANGED <<query, plan, output>>
      /\ UNCHANGED scan_vars /\ UNCHANGED agg_vars
  BY DEF RefuseNothing
<1>2. /\ input = <<>> /\ ~has_result /\ rows = <<>>
      /\ UNCHANGED <<limited, input, has_result, rows>>
  BY <1>1 DEF ReturnNothing, AtEnd, PlansInv, SortInv
<1>3. /\ ScanInv' /\ UNCHANGED <<table, delivered, scan_phase>>
      /\ Chosen(Done)' = Chosen(Done) /\ Keyed(Chosen(Done))' = Keyed(Chosen(Done))
  BY <1>1, ScanStays DEF PlansInv
<1>4. AggInv' /\ PlanShape' /\ AggRows' = AggRows /\ agg_phase' = agg_phase
  <2>1. AggExact'
    BY <1>1, AggIdle DEF PlansInv, AggInv
  <2> QED BY <1>1, <2>1, ShapeStays DEF PlansInv, AggInv, OneBatch, agg_vars, AggRows
<1>5. SortInv' /\ SortRows' = SortRows
  <2>1. IInv'
    BY <1>1, ReturnsKeepIInv DEF PlansInv, SortInv
  <2> QED BY <1>1, <1>2, <2>1 DEF PlansInv, SortInv, OneBatch, SortRows
<1>6. plan.aggregate = "no" /\ scan_phase = "end"
  <2>1. CASE plan.aggregate # "no"
    <3>1. agg_phase = "none"
      BY <1>1, <2>1 DEF ChildEnded
    <3> QED BY <1>1, <1>2, <2>1, <3>1 DEF PlansInv, PipeInv
  <2> QED BY <1>1, <2>1 DEF ChildEnded
<1>7. Selected = <<>> /\ delivered = <<>>
  <2>1. SortRows = <<>>
    BY <1>2, FlattenNone DEF SortRows
  <2> QED BY <1>1, <1>2, <1>6, <2>1, ChosenAtEnd DEF PlansInv, PipeInv
<1>8. PipeInv'
  BY <1>1, <1>2, <1>3, <1>4, <1>5, <1>6 DEF PlansInv, PipeInv
<1>9. RefusedWithoutRowsOnly'
  <2>1. Selected' = <<>>
    BY <1>1, <1>3, <1>7, WantedStays
  <2> QED BY <1>1, <1>3, <1>6, <1>7, <2>1 DEF RefusedWithoutRowsOnly
<1>10. StatusInv'
  BY <1>1, <1>3, <1>6, <1>9 DEF StatusInv, AnswerIsExact
<1> QED BY <1>3, <1>4, <1>5, <1>8, <1>10 DEF PlansInv

-----------------------------------------------------------------------------
\* The answer of the aggregation.

\* The sums of the values of aggregated rows.
Sums == INSTANCE ProofRules
  WITH Op <- LAMBDA e, x, y : x, Val <- LAMBDA r, k, n : r[n].values[k]

\* The values that are summed are those of the second column.
SumsAreOf(s, t, S) ==
  /\ \E n \in Nat : S \in SUBSET (1 .. n)
  /\ \A x \in S : t[x].values[2] = s[x][2] /\ s[x][2] \in Int

\* Then the sums agree.
LEMMA SumsAgree ==
  ASSUME NEW s, NEW t, NEW S, SumsAreOf(s, t, S)
  PROVE  Sums!SumOver(t, 2, S) = Lists!SumOver(s, 2, S)
<1>0. PICK n \in Nat : S \in SUBSET (1 .. n)
  BY DEF SumsAreOf
<1>1. PICK I : Sums!IsSumTrace(I, t, 2, S)
  <2> DEFINE k == 2
  <2>1. \A x \in S : t[x].values[k] \in Int
    BY DEF SumsAreOf
  <2>2. Sums!NatInduction
    BY Induct DEF Lists!NatInduction, Sums!NatInduction
  <2> HIDE DEF k
  <2>3. \E I : Sums!IsSumTrace(I, t, k, S)
    BY <1>0, <2>1, <2>2, Sums!SumTrace
  <2> QED BY <2>3 DEF k
<1>2. PICK J : Lists!IsSumTrace(J, s, 2, S)
  <2> DEFINE k == 2
  <2>1. \A x \in S : s[x][k] \in Int
    BY DEF SumsAreOf
  <2> HIDE DEF k
  <2>2. \E J : Lists!IsSumTrace(J, s, k, S)
    BY <1>0, <2>1, Induct, Lists!SumTrace
  <2> QED BY <2>2 DEF k
<1>3. /\ I[{}] = 0 /\ Sums!SumOver(t, 2, S) = I[S]
      /\ \A T \in SUBSET S : \A x \in T : I[T] = t[x].values[2] + I[T \ {x}]
  BY <1>1 DEF Sums!IsSumTrace
<1>4. /\ J[{}] = 0 /\ Lists!SumOver(s, 2, S) = J[S]
      /\ \A T \in SUBSET S : \A x \in T : J[T] = s[x][2] + J[T \ {x}]
  BY <1>2 DEF Lists!IsSumTrace
<1> DEFINE P == {T \in SUBSET S : I[T] = J[T]}
<1>5. {} \in P
  BY <1>3, <1>4
<1>6. ASSUME NEW T \in SUBSET S, T \in P, NEW x \in S \ T
      PROVE  T \cup {x} \in P
  <2>1. T \cup {x} \in SUBSET S /\ x \in T \cup {x} /\ (T \cup {x}) \ {x} = T
    OBVIOUS
  <2>2. I[T \cup {x}] = t[x].values[2] + I[T] /\ J[T \cup {x}] = s[x][2] + J[T]
    BY <1>3, <1>4, <2>1
  <2>3. t[x].values[2] = s[x][2] /\ I[T] = J[T]
    BY <1>6 DEF SumsAreOf
  <2> QED BY <2>1, <2>2, <2>3
<1> HIDE DEF P
<1>7. S \in P
  BY <1>0, <1>5, <1>6, Induct, Lists!SubsetInduction
<1> QED BY <1>3, <1>4, <1>7 DEF P

\* The sum that AggregationProofs is about is such a sum.
LEMMA AvgColumnSum ==
  \A r, k, S : Avg!ColumnSum(r, k, S) = Sums!SumOver(r, k, S)
BY DEF Avg!ColumnSum, Avg!Rules!SumOver, Avg!Rules!MapThenFoldSet,
       Sums!SumOver, Sums!MapThenFoldSet

\* So is the sum that the query asks for.
LEMMA SelectedSum ==
  ASSUME NEW S
  PROVE  MapThenSumSet(LAMBDA n : Selected[n][2], S) = Lists!SumOver(Selected, 2, S)
<1> HIDE DEF Selected
<1> QED BY DEF MapThenSumSet, MapThenFoldSet, Lists!SumOver, Lists!MapThenFoldSet

\* The name of the group of a row.
Key(r) == <<[int |-> r[1]]>>

\* The numbers of the rows of s that a group with this name stands for.
RowsOf(s, name, grp) == {n \in 1 .. Len(s) : grp => Key(s[n]) = name}

\* What the second aggregation makes of the rows T of s.
SecondOf(s, T, avg) ==
  IF avg THEN <<Lists!SumOver(s, 2, T), Cardinality(T)>> ELSE Cardinality(T)

\* res has a row for every key of s, or one for all rows, with their number
\* and their average or their number again.
IsAnswer(res, s, grp, avg) ==
  /\ Len(res) \in Nat /\ DOMAIN res = 1 .. Len(res)
  /\ ~grp => Len(res) = 1
  /\ grp =>
       /\ \A g \in 1 .. Len(res) : \E n \in 1 .. Len(s) : res[g].name = Key(s[n])
       /\ \A n \in 1 .. Len(s) : \E g \in 1 .. Len(res) : res[g].name = Key(s[n])
       /\ \A g, h \in 1 .. Len(res) : res[g].name = res[h].name => g = h
  /\ \A g \in 1 .. Len(res) :
       /\ res[g].values[1] = Cardinality(RowsOf(s, res[g].name, grp))
       /\ res[g].values[2] = SecondOf(s, RowsOf(s, res[g].name, grp), avg)

\* The key and the value of a row as the aggregation takes it.
LEMMA KeyedRows ==
  ASSUME NEW s \in Seq(Scan!Row)
  PROVE  /\ Len(Keyed(s)) = Len(s) /\ Len(s) \in Nat
         /\ \A n \in 1 .. Len(s) : Keyed(s)[n].key = Key(s[n]) /\ Keyed(s)[n].values[2] = s[n][2]
<1>1. Len(Keyed(s)) = Len(s) /\ \A n \in 1 .. Len(s) : Keyed(s)[n] = ToAggregate(s[n])
  BY KeyedType
<1>2. \A r : ToAggregate(r).key = Key(r) /\ ToAggregate(r).values[2] = r[2]
  BY DEF ToAggregate, Key
<1> HIDE DEF Keyed
<1> QED BY <1>1, <1>2

\* The hash of a key of the plans is the key itself:
LEMMA AvgHashOfKey == \A r : Avg!Hash(Key(r))[1] = r[1]
<1> SUFFICES ASSUME NEW r
             PROVE  Avg!Hash(Key(r))[1] = r[1]
  OBVIOUS
<1> DEFINE c == [int |-> r[1]]
<1>1. c.int = r[1] /\ "string" \notin DOMAIN c
  OBVIOUS
<1>2. Avg!HashCell(c) = r[1]
  BY <1>1 DEF Avg!HashCell
<1>3. Key(r) = <<c>>
  BY DEF Key
<1> HIDE DEF c
<1>4. Len(Key(r)) = 1 /\ Key(r)[1] = c
  BY <1>3
<1> QED BY <1>2, <1>4 DEF Avg!Hash

\* different keys have different hashes.
LEMMA AvgKeysDiffer ==
  ASSUME NEW r, NEW q, Avg!Hash(Key(r)) = Avg!Hash(Key(q))
  PROVE  Key(r) = Key(q)
<1>1. r[1] = q[1]
  BY AvgHashOfKey
<1> QED BY <1>1 DEF Key

\* Once all rows are read, the members of a group are the rows of its key.
LEMMA AvgMembers ==
  ASSUME Avg!ExactInv, agg_read = Len(agg_rows), NEW s \in Seq(Scan!Row), agg_rows = Keyed(s),
         NEW g \in 1 .. Len(group_name)
  PROVE  members[g] = RowsOf(s, group_name[g], grouped)
<1>1. /\ Len(agg_rows) = Len(s) /\ Len(s) \in Nat
      /\ \A n \in 1 .. Len(s) : agg_rows[n].key = Key(s[n])
  BY KeyedRows
<1>2. members[g] \in SUBSET (1 .. Len(s))
  BY <1>1 DEF Avg!ExactInv, Avg!IInv, Avg!TypeOK
<1>3. CASE grouped
  <2>1. Avg!CollisionFree
    BY <1>1, AvgKeysDiffer DEF Avg!CollisionFree
  <2>2. \A m \in 1 .. Len(s) : m \in members[g] <=> group_name[g] = Key(s[m])
    BY <1>1, <1>3, <2>1, AvgAssumed, Avg!GroupsOfHashes
       DEF Avg!ExactInv, Avg!RowsReachTheirGroup
  <2> QED BY <1>2, <1>3, <2>2 DEF RowsOf
<1>4. CASE ~grouped
  <2>1. Len(group_name) = 1 /\ members[1] = 1 .. agg_read
    BY <1>4 DEF Avg!ExactInv, Avg!IInv, Avg!GroupInv, Avg!WholeInv
  <2>2. members[g] = 1 .. Len(s)
    BY <1>1, <2>1
  <2> QED BY <1>4, <2>2 DEF RowsOf
<1> QED BY <1>3, <1>4

\* COUNT and AVG of the rows taken, when the aggregation is done.
LEMMA AvgAnswer ==
  Avg!ExactInv /\ agg_phase = "done" =>
    \A s \in Seq(Scan!Row) : agg_rows = Keyed(s) => IsAnswer(agg_result, s, grouped, TRUE)
<1> SUFFICES ASSUME Avg!ExactInv, agg_phase = "done", NEW s \in Seq(Scan!Row), agg_rows = Keyed(s)
             PROVE  IsAnswer(agg_result, s, grouped, TRUE)
  OBVIOUS
<1> DEFINE m == Len(group_name)
           accs == group_to_accumulators
<1>1. /\ Len(agg_rows) = Len(s) /\ Len(s) \in Nat
      /\ \A n \in 1 .. Len(s) : agg_rows[n].key = Key(s[n]) /\ agg_rows[n].values[2] = s[n][2]
  BY KeyedRows
<1>2. \A n \in 1 .. Len(s) : s[n][2] \in Int
  BY ElementOfSeq, RowsAreRows, QueryPlansAssumption
<1>3. /\ agg_read = Len(agg_rows) /\ m \in Nat
      /\ agg_result = [g \in 1 .. m |->
           [name |-> group_name[g], values |-> [k \in 1 .. 2 |-> Avg!GetResult(accs[g][k])]]]
  <2>1. m \in Nat
    BY DEF Avg!ExactInv, Avg!IInv, Avg!TypeOK
  <2>2. /\ agg_read = Len(agg_rows)
        /\ agg_result = [g \in 1 .. m |->
             [name |-> group_name[g],
              values |-> [k \in 1 .. Len(<<"COUNT", "AVG">>) |-> Avg!GetResult(accs[g][k])]]]
    BY DEF Avg!ExactInv, Avg!ResultInv
  <2>3. Len(<<"COUNT", "AVG">>) = 2
    OBVIOUS
  <2> QED BY <2>1, <2>2, <2>3
<1>4. /\ Len(agg_result) = m /\ DOMAIN agg_result = 1 .. m
      /\ \A g \in 1 .. m :
           /\ agg_result[g].name = group_name[g]
           /\ agg_result[g].values[1] = Avg!GetResult(accs[g][1])
           /\ agg_result[g].values[2] = Avg!GetResult(accs[g][2])
  BY <1>3
<1>5. ~grouped => m = 1
  BY DEF Avg!ExactInv, Avg!IInv, Avg!GroupInv
<1>6. ASSUME grouped
      PROVE  /\ \A g \in 1 .. m : \E n \in 1 .. Len(s) : group_name[g] = Key(s[n])
             /\ \A n \in 1 .. Len(s) : \E g \in 1 .. m : group_name[g] = Key(s[n])
             /\ \A g, h \in 1 .. m : group_name[g] = group_name[h] => g = h
  <2>1. \A g \in 1 .. m : \E n \in 1 .. Len(s) : group_name[g] = Key(s[n])
    BY <1>1, <1>3, <1>6 DEF Avg!ExactInv, Avg!IInv, Avg!GroupInv, Avg!NamesInv, Avg!Groups
  <2>2. Avg!CollisionFree
    BY <1>1, AvgKeysDiffer DEF Avg!CollisionFree
  <2>3. /\ \A n \in 1 .. Len(s) : \E g \in 1 .. m : n \in members[g]
        /\ \A n \in 1 .. Len(s) : \A g \in 1 .. m :
             n \in members[g] <=> group_name[g] = Key(s[n])
        /\ \A g, h \in 1 .. m : group_name[g] = group_name[h] => g = h
    BY <1>1, <1>3, <1>6, <2>2, AvgAssumed, Avg!GroupsOfHashes
       DEF Avg!ExactInv, Avg!RowsReachTheirGroup
  <2> QED BY <2>1, <2>3
<1>7. ASSUME NEW g \in 1 .. m
      PROVE  /\ Avg!GetResult(accs[g][1]) = Cardinality(RowsOf(s, group_name[g], grouped))
             /\ Avg!GetResult(accs[g][2]) = SecondOf(s, RowsOf(s, group_name[g], grouped), TRUE)
  <2> DEFINE U == RowsOf(s, group_name[g], grouped)
             acc1 == accs[g][1]
             acc2 == accs[g][2]
  <2>1. members[g] = U
    BY <1>3, AvgMembers
  <2>2. Avg!IsAcc(acc1, agg_rows, 1, U) /\ Avg!IsAcc(acc2, agg_rows, 2, U)
    BY <2>1 DEF Avg!ExactInv, Avg!AccInv, Avg!Groups
  <2>3. U \in SUBSET (1 .. Len(s))
    BY DEF RowsOf
  <2> HIDE DEF U, acc1, acc2
  <2>4. acc1.op = "COUNT" /\ acc1.count = Cardinality(U)
    BY <2>2, AvgCardinality DEF Avg!IsAcc
  <2>5. Avg!GetResult(acc1) = Cardinality(U)
    BY <2>4 DEF Avg!GetResult
  <2>6. acc2.op = "AVG" /\ acc2.count = Cardinality(U) /\ acc2.sum = Avg!ColumnSum(agg_rows, 2, U)
    BY <2>2, AvgCardinality DEF Avg!IsAcc
  <2>7. Avg!ColumnSum(agg_rows, 2, U) = Lists!SumOver(s, 2, U)
    <3>1. SumsAreOf(s, agg_rows, U)
      BY <1>1, <1>2, <2>3 DEF SumsAreOf
    <3> QED BY <3>1, SumsAgree, AvgColumnSum
  <2>8. Avg!GetResult(acc2) = SecondOf(s, U, TRUE)
    BY <2>6, <2>7 DEF Avg!GetResult, SecondOf
  <2> QED BY <2>5, <2>8 DEF U, acc1, acc2
<1> HIDE DEF m, accs
<1>8. \A g \in 1 .. m :
        LET T == RowsOf(s, agg_result[g].name, grouped)
        IN /\ agg_result[g].values[1] = Cardinality(T)
           /\ agg_result[g].values[2] = SecondOf(s, T, TRUE)
  <2> SUFFICES ASSUME NEW g \in 1 .. m
               PROVE  LET T == RowsOf(s, agg_result[g].name, grouped)
                      IN /\ agg_result[g].values[1] = Cardinality(T)
                         /\ agg_result[g].values[2] = SecondOf(s, T, TRUE)
    OBVIOUS
  <2>1. /\ agg_result[g].name = group_name[g]
        /\ agg_result[g].values[1] = Avg!GetResult(accs[g][1])
        /\ agg_result[g].values[2] = Avg!GetResult(accs[g][2])
    BY <1>4
  <2> DEFINE T == RowsOf(s, group_name[g], grouped)
  <2>2. /\ Avg!GetResult(accs[g][1]) = Cardinality(T)
        /\ Avg!GetResult(accs[g][2]) = SecondOf(s, T, TRUE)
    BY <1>7
  <2> QED BY <2>1, <2>2
<1>9. grouped =>
        /\ \A g \in 1 .. m : \E n \in 1 .. Len(s) : agg_result[g].name = Key(s[n])
        /\ \A n \in 1 .. Len(s) : \E g \in 1 .. m : agg_result[g].name = Key(s[n])
        /\ \A g, h \in 1 .. m : agg_result[g].name = agg_result[h].name => g = h
  BY <1>4, <1>6
<1>10. Len(agg_result) = m /\ DOMAIN agg_result = 1 .. m /\ m \in Nat
  BY <1>3, <1>4
<1> QED BY <1>5, <1>8, <1>9, <1>10 DEF IsAnswer

\* So it is in the step that returns them.
LEMMA AvgAnswerNext ==
  Avg!ExactInv' /\ agg_phase' = "done" =>
    \A s \in Seq(Scan!Row) : agg_rows' = Keyed(s) => IsAnswer(agg_result', s, grouped', TRUE)
<1>1. (Avg!ExactInv /\ agg_phase = "done")' =>
        (\A s \in Seq(Scan!Row) : agg_rows = Keyed(s) => IsAnswer(agg_result, s, grouped, TRUE))'
  BY AvgAnswer, PTL
<1> QED BY <1>1

\* The same for a plan without AVG: the hash of a key,
LEMMA CntHashOfKey == \A r : Cnt!Hash(Key(r))[1] = r[1]
<1> SUFFICES ASSUME NEW r
             PROVE  Cnt!Hash(Key(r))[1] = r[1]
  OBVIOUS
<1> DEFINE c == [int |-> r[1]]
<1>1. c.int = r[1] /\ "string" \notin DOMAIN c
  OBVIOUS
<1>2. Cnt!HashCell(c) = r[1]
  BY <1>1 DEF Cnt!HashCell
<1>3. Key(r) = <<c>>
  BY DEF Key
<1> HIDE DEF c
<1>4. Len(Key(r)) = 1 /\ Key(r)[1] = c
  BY <1>3
<1> QED BY <1>2, <1>4 DEF Cnt!Hash

\* different keys,
LEMMA CntKeysDiffer ==
  ASSUME NEW r, NEW q, Cnt!Hash(Key(r)) = Cnt!Hash(Key(q))
  PROVE  Key(r) = Key(q)
<1>1. r[1] = q[1]
  BY CntHashOfKey
<1> QED BY <1>1 DEF Key

\* the members of a group,
LEMMA CntMembers ==
  ASSUME Cnt!ExactInv, agg_read = Len(agg_rows), NEW s \in Seq(Scan!Row), agg_rows = Keyed(s),
         NEW g \in 1 .. Len(group_name)
  PROVE  members[g] = RowsOf(s, group_name[g], grouped)
<1>1. /\ Len(agg_rows) = Len(s) /\ Len(s) \in Nat
      /\ \A n \in 1 .. Len(s) : agg_rows[n].key = Key(s[n])
  BY KeyedRows
<1>2. members[g] \in SUBSET (1 .. Len(s))
  BY <1>1 DEF Cnt!ExactInv, Cnt!IInv, Cnt!TypeOK
<1>3. CASE grouped
  <2>1. Cnt!CollisionFree
    BY <1>1, CntKeysDiffer DEF Cnt!CollisionFree
  <2>2. \A m \in 1 .. Len(s) : m \in members[g] <=> group_name[g] = Key(s[m])
    BY <1>1, <1>3, <2>1, CntAssumed, Cnt!GroupsOfHashes
       DEF Cnt!ExactInv, Cnt!RowsReachTheirGroup
  <2> QED BY <1>2, <1>3, <2>2 DEF RowsOf
<1>4. CASE ~grouped
  <2>1. Len(group_name) = 1 /\ members[1] = 1 .. agg_read
    BY <1>4 DEF Cnt!ExactInv, Cnt!IInv, Cnt!GroupInv, Cnt!WholeInv
  <2>2. members[g] = 1 .. Len(s)
    BY <1>1, <2>1
  <2> QED BY <1>4, <2>2 DEF RowsOf
<1> QED BY <1>3, <1>4

\* the answer when the aggregation is done,
LEMMA CntAnswer ==
  Cnt!ExactInv /\ agg_phase = "done" =>
    \A s \in Seq(Scan!Row) : agg_rows = Keyed(s) => IsAnswer(agg_result, s, grouped, FALSE)
<1> SUFFICES ASSUME Cnt!ExactInv, agg_phase = "done", NEW s \in Seq(Scan!Row), agg_rows = Keyed(s)
             PROVE  IsAnswer(agg_result, s, grouped, FALSE)
  OBVIOUS
<1> DEFINE m == Len(group_name)
           accs == group_to_accumulators
<1>1. /\ Len(agg_rows) = Len(s) /\ Len(s) \in Nat
      /\ \A n \in 1 .. Len(s) : agg_rows[n].key = Key(s[n]) /\ agg_rows[n].values[2] = s[n][2]
  BY KeyedRows
<1>2. \A n \in 1 .. Len(s) : s[n][2] \in Int
  BY ElementOfSeq, RowsAreRows, QueryPlansAssumption
<1>3. /\ agg_read = Len(agg_rows) /\ m \in Nat
      /\ agg_result = [g \in 1 .. m |->
           [name |-> group_name[g], values |-> [k \in 1 .. 2 |-> Cnt!GetResult(accs[g][k])]]]
  <2>1. m \in Nat
    BY DEF Cnt!ExactInv, Cnt!IInv, Cnt!TypeOK
  <2>2. /\ agg_read = Len(agg_rows)
        /\ agg_result = [g \in 1 .. m |->
             [name |-> group_name[g],
              values |-> [k \in 1 .. Len(<<"COUNT", "COUNT">>) |-> Cnt!GetResult(accs[g][k])]]]
    BY DEF Cnt!ExactInv, Cnt!ResultInv
  <2>3. Len(<<"COUNT", "COUNT">>) = 2
    OBVIOUS
  <2> QED BY <2>1, <2>2, <2>3
<1>4. /\ Len(agg_result) = m /\ DOMAIN agg_result = 1 .. m
      /\ \A g \in 1 .. m :
           /\ agg_result[g].name = group_name[g]
           /\ agg_result[g].values[1] = Cnt!GetResult(accs[g][1])
           /\ agg_result[g].values[2] = Cnt!GetResult(accs[g][2])
  BY <1>3
<1>5. ~grouped => m = 1
  BY DEF Cnt!ExactInv, Cnt!IInv, Cnt!GroupInv
<1>6. ASSUME grouped
      PROVE  /\ \A g \in 1 .. m : \E n \in 1 .. Len(s) : group_name[g] = Key(s[n])
             /\ \A n \in 1 .. Len(s) : \E g \in 1 .. m : group_name[g] = Key(s[n])
             /\ \A g, h \in 1 .. m : group_name[g] = group_name[h] => g = h
  <2>1. \A g \in 1 .. m : \E n \in 1 .. Len(s) : group_name[g] = Key(s[n])
    BY <1>1, <1>3, <1>6 DEF Cnt!ExactInv, Cnt!IInv, Cnt!GroupInv, Cnt!NamesInv, Cnt!Groups
  <2>2. Cnt!CollisionFree
    BY <1>1, CntKeysDiffer DEF Cnt!CollisionFree
  <2>3. /\ \A n \in 1 .. Len(s) : \E g \in 1 .. m : n \in members[g]
        /\ \A n \in 1 .. Len(s) : \A g \in 1 .. m :
             n \in members[g] <=> group_name[g] = Key(s[n])
        /\ \A g, h \in 1 .. m : group_name[g] = group_name[h] => g = h
    BY <1>1, <1>3, <1>6, <2>2, CntAssumed, Cnt!GroupsOfHashes
       DEF Cnt!ExactInv, Cnt!RowsReachTheirGroup
  <2> QED BY <2>1, <2>3
<1>7. ASSUME NEW g \in 1 .. m
      PROVE  /\ Cnt!GetResult(accs[g][1]) = Cardinality(RowsOf(s, group_name[g], grouped))
             /\ Cnt!GetResult(accs[g][2]) = SecondOf(s, RowsOf(s, group_name[g], grouped), FALSE)
  <2> DEFINE U == RowsOf(s, group_name[g], grouped)
             acc1 == accs[g][1]
             acc2 == accs[g][2]
  <2>1. members[g] = U
    BY <1>3, CntMembers
  <2>2. Cnt!IsAcc(acc1, agg_rows, 1, U) /\ Cnt!IsAcc(acc2, agg_rows, 2, U)
    BY <2>1 DEF Cnt!ExactInv, Cnt!AccInv, Cnt!Groups
  <2>3. U \in SUBSET (1 .. Len(s))
    BY DEF RowsOf
  <2> HIDE DEF U, acc1, acc2
  <2>4. acc1.op = "COUNT" /\ acc1.count = Cardinality(U)
    BY <2>2, CntCardinality DEF Cnt!IsAcc
  <2>5. Cnt!GetResult(acc1) = Cardinality(U)
    BY <2>4 DEF Cnt!GetResult
  <2>6. acc2.op = "COUNT" /\ acc2.count = Cardinality(U)
    BY <2>2, CntCardinality DEF Cnt!IsAcc
  <2>8. Cnt!GetResult(acc2) = SecondOf(s, U, FALSE)
    BY <2>6 DEF Cnt!GetResult, SecondOf
  <2> QED BY <2>5, <2>8 DEF U, acc1, acc2
<1> HIDE DEF m, accs
<1>8. \A g \in 1 .. m :
        LET T == RowsOf(s, agg_result[g].name, grouped)
        IN /\ agg_result[g].values[1] = Cardinality(T)
           /\ agg_result[g].values[2] = SecondOf(s, T, FALSE)
  <2> SUFFICES ASSUME NEW g \in 1 .. m
               PROVE  LET T == RowsOf(s, agg_result[g].name, grouped)
                      IN /\ agg_result[g].values[1] = Cardinality(T)
                         /\ agg_result[g].values[2] = SecondOf(s, T, FALSE)
    OBVIOUS
  <2>1. /\ agg_result[g].name = group_name[g]
        /\ agg_result[g].values[1] = Cnt!GetResult(accs[g][1])
        /\ agg_result[g].values[2] = Cnt!GetResult(accs[g][2])
    BY <1>4
  <2> DEFINE T == RowsOf(s, group_name[g], grouped)
  <2>2. /\ Cnt!GetResult(accs[g][1]) = Cardinality(T)
        /\ Cnt!GetResult(accs[g][2]) = SecondOf(s, T, FALSE)
    BY <1>7
  <2> QED BY <2>1, <2>2
<1>9. grouped =>
        /\ \A g \in 1 .. m : \E n \in 1 .. Len(s) : agg_result[g].name = Key(s[n])
        /\ \A n \in 1 .. Len(s) : \E g \in 1 .. m : agg_result[g].name = Key(s[n])
        /\ \A g, h \in 1 .. m : agg_result[g].name = agg_result[h].name => g = h
  BY <1>4, <1>6
<1>10. Len(agg_result) = m /\ DOMAIN agg_result = 1 .. m /\ m \in Nat
  BY <1>3, <1>4
<1> QED BY <1>5, <1>8, <1>9, <1>10 DEF IsAnswer

\* and in the step that returns it.
LEMMA CntAnswerNext ==
  Cnt!ExactInv' /\ agg_phase' = "done" =>
    \A s \in Seq(Scan!Row) : agg_rows' = Keyed(s) => IsAnswer(agg_result', s, grouped', FALSE)
<1>1. (Cnt!ExactInv /\ agg_phase = "done")' =>
        (\A s \in Seq(Scan!Row) : agg_rows = Keyed(s) => IsAnswer(agg_result, s, grouped, FALSE))'
  BY CntAnswer, PTL
<1> QED BY <1>1

\* The rows that the aggregation returns as res.
RowsIn(res) == [n \in DOMAIN res |-> ToRow(res[n])]

\* An injective listing that misses nothing is as long as what it lists.
LEMMA MakeWhole ==
  ASSUME NEW list, Len(list) \in Nat, NEW wanted,
         NEW g \in Injection(1 .. Len(list), DOMAIN wanted),
         \A n \in 1 .. Len(list) : list[n] = wanted[g[n]],
         \A d \in DOMAIN wanted : \E n \in 1 .. Len(list) : g[n] = d
  PROVE  IsWhole(list, wanted, g)
<1> DEFINE A == 1 .. Len(list)
           B == DOMAIN wanted
<1>1. IsFiniteSet(A) /\ Cardinality(A) = Len(list)
  <2>1. /\ IsFiniteSet(A)
        /\ Cardinality(A) = IF 1 > Len(list) THEN 0 ELSE Len(list) - 1 + 1
    <3>1. 1 \in Int /\ Len(list) \in Int
      OBVIOUS
    <3> QED BY <3>1, FS_Interval
  <2> HIDE DEF A
  <2> QED BY <2>1
<1>2. g \in Injection(A, B) /\ g \in Surjection(A, B)
  BY DEF Injection, Surjection
<1> HIDE DEF A, B
<1>3. IsFiniteSet(B) /\ Cardinality(B) = Cardinality(A)
  BY <1>1, <1>2, FS_Surjection
<1> QED BY <1>1, <1>3 DEF IsWhole, IsListing, A, B

\* The aggregation answers for the selected rows.
LEMMA Answered ==
  ASSUME PlansInv, plan.aggregate # "no", scan_phase = "end", AnswerReady,
         plan' = plan, table' = table
  PROVE  /\ IsAnswer(agg_result', Selected, grouped, plan.average)
         /\ Selected \in Seq(Scan!Row)
         /\ AggExact' /\ agg_phase = "run" /\ agg_phase' = "done"
         /\ UNCHANGED <<agg_input, agg_rows, grouped>>
<1>1. Selected \in Seq(Scan!Row)
  BY SelectedFacts DEF PlansInv
<1>2. /\ agg_phase = "run" /\ agg_phase' = "done" /\ agg_input = <<>>
      /\ UNCHANGED <<agg_input, agg_rows, grouped>>
  BY DEF AnswerReady, Averages!ReturnRows, Counts!ReturnRows, Averages!AtEnd, Counts!AtEnd,
         Averages!taken, Counts!taken
<1>3. agg_rows = Keyed(Selected)
  <2>1. \E S : agg_rows \in Seq(S)
    BY AggTypes DEF PlansInv, AggInv
  <2>2. AggRows = agg_rows
    BY <1>2, <2>1, FlattenNone, ConcatEmptySeq DEF AggRows
  <2> QED BY <2>2, ChosenAtEnd DEF PlansInv, PipeInv
<1>4. CASE plan.average
  <2>1. [Avg!Next]_agg_vars
    BY <1>4, AvgSteps DEF Avg!Next, AnswerReady
  <2>2. Avg!ExactInv'
    BY <1>4, <2>1, AvgKeeps DEF PlansInv, AggInv, AggExact
  <2>3. IsAnswer(agg_result', Selected, grouped', TRUE)
    BY <1>1, <1>2, <1>3, <2>2, AvgAnswerNext
  <2> QED BY <1>1, <1>2, <1>4, <2>2, <2>3 DEF AggExact
<1>5. CASE ~plan.average
  <2>1. [Cnt!Next]_agg_vars
    BY <1>5, CntSteps DEF Cnt!Next, AnswerReady
  <2>2. Cnt!ExactInv'
    BY <1>5, <2>1, CntKeeps DEF PlansInv, AggInv, AggExact
  <2>3. IsAnswer(agg_result', Selected, grouped', FALSE)
    BY <1>1, <1>2, <1>3, <2>2, CntAnswerNext
  <2>4. plan.average = FALSE
    BY <1>5 DEF PlansInv, PlanShape
  <2> QED BY <1>1, <1>2, <1>5, <2>2, <2>3, <2>4 DEF AggExact
<1> QED BY <1>4, <1>5

\* The average of at least one number is a number.
LEMMA AverageType ==
  ASSUME NEW sum \in Int, NEW count \in Nat, count # 0
  PROVE  Average(sum, count) \in Int
<1> DEFINE p == sum * Common
<1>1. p \in Int
  BY QueryPlansAssumption
<1> HIDE DEF p
<1>2. p \div count \in Int
  BY <1>1
<1> QED BY <1>2 DEF Average, p

\* The answer of the aggregation for the rows T, with the key in front.
LEMMA SummaryOfSecond ==
  ASSUME NEW key, NEW T, NEW r, r.values[1] = Cardinality(T),
         r.values[2] = SecondOf(Selected, T, plan.average),
         key = IF grouped THEN r.name[1].int ELSE 0
  PROVE  ToRow(r) = Summary(key, T)
<1> DEFINE sum == Lists!SumOver(Selected, 2, T)
           count == Cardinality(T)
<1>1. MapThenSumSet(LAMBDA n : Selected[n][2], T) = sum
  BY SelectedSum
<1>2. Summary(key, T) = <<key, count, IF plan.average THEN Average(sum, count) ELSE count>>
  BY <1>1 DEF Summary
<1>3. Value(r.values[2]) = IF plan.average THEN Average(sum, count) ELSE count
  BY DEF Value, SecondOf
<1> HIDE DEF sum, count
<1> QED BY <1>2, <1>3 DEF ToRow, count

\* What the query asks for of a group that has a row.
LEMMA SummaryType ==
  ASSUME NEW key \in Int, NEW T \in SUBSET (1 .. Len(Selected)), T # {},
         Selected \in Seq(Scan!Row)
  PROVE  Summary(key, T) \in Row /\ Summary(key, T)[2] = Cardinality(T)
<1> DEFINE sum == Lists!SumOver(Selected, 2, T)
           count == Cardinality(T)
<1>1. MapThenSumSet(LAMBDA n : Selected[n][2], T) = sum
  BY SelectedSum
<1>2. Summary(key, T) = <<key, count, IF plan.average THEN Average(sum, count) ELSE count>>
  BY <1>1 DEF Summary
<1>3. Len(Selected) \in Nat /\ \A n \in 1 .. Len(Selected) : Selected[n][2] \in Int
  BY ElementOfSeq, RowsAreRows, QueryPlansAssumption
<1>4. sum \in Int
  <2> DEFINE s == Selected
             k == 2
             n == Len(Selected)
  <2>1. n \in Nat /\ T \in SUBSET (1 .. n) /\ \A x \in T : s[x][k] \in Int
    BY <1>3
  <2> HIDE DEF s, k, n
  <2>2. Lists!SumOver(s, k, T) \in Int
    BY <2>1, Induct, Lists!SumType
  <2> QED BY <2>2 DEF s, k
<1>5. count \in Nat /\ count # 0
  <2>1. IsFiniteSet(1 .. Len(Selected))
    BY <1>3, FS_Interval
  <2>2. IsFiniteSet(T)
    BY <2>1, FS_Subset
  <2> QED BY <2>2, FS_CardinalityType, FS_EmptySet
<1> HIDE DEF sum, count
<1>6. Average(sum, count) \in Int
  BY <1>4, <1>5, AverageType
<1>7. Cells = 1 .. 3
  BY QueryPlansAssumption
<1>8. PICK v \in Int : Summary(key, T) = <<key, count, v>>
  BY <1>2, <1>5, <1>6
<1>9. <<key, count, v>> \in [1 .. 3 -> Int]
  BY <1>5
<1> QED BY <1>7, <1>8, <1>9 DEF Row, count

-----------------------------------------------------------------------------
\* Groups.

\* Every key, whatever HAVING makes of it.
AllGroups == [key \in Keys |-> Summary(key, OfKey(key))]

\* The rows of the group of a selected row are those with its key.
LEMMA RowsOfKey ==
  ASSUME NEW i \in 1 .. Len(Selected), Selected \in Seq(Scan!Row)
  PROVE  /\ RowsOf(Selected, Key(Selected[i]), TRUE) = OfKey(Selected[i][1])
         /\ i \in OfKey(Selected[i][1]) /\ OfKey(Selected[i][1]) \in SUBSET (1 .. Len(Selected))
         /\ Selected[i][1] \in Keys /\ Selected[i][1] \in Int
<1>1. DOMAIN Selected = 1 .. Len(Selected)
  OBVIOUS
<1>2. \A n \in 1 .. Len(Selected) :
        Key(Selected[n]) = Key(Selected[i]) <=> Selected[n][1] = Selected[i][1]
  <2> SUFFICES ASSUME NEW n \in 1 .. Len(Selected), Key(Selected[n]) = Key(Selected[i])
               PROVE  Selected[n][1] = Selected[i][1]
    BY DEF Key
  <2>1. Avg!Hash(Key(Selected[n]))[1] = Selected[n][1]
        /\ Avg!Hash(Key(Selected[i]))[1] = Selected[i][1]
    BY AvgHashOfKey
  <2> QED BY <2>1
<1>3. Selected[i][1] \in Int
  BY ElementOfSeq, RowsAreRows, QueryPlansAssumption
<1> QED BY <1>1, <1>2, <1>3 DEF RowsOf, OfKey, Keys

\* Each row of the answer of the aggregation is what the query asks for of its
\* key.
LEMMA GroupRow ==
  ASSUME grouped, Selected \in Seq(Scan!Row), NEW res, IsAnswer(res, Selected, TRUE, plan.average),
         NEW n \in 1 .. Len(res)
  PROVE  /\ ToRow(res[n]) \in Row /\ ToRow(res[n])[1] \in Keys
         /\ ToRow(res[n]) = Summary(ToRow(res[n])[1], OfKey(ToRow(res[n])[1]))
         /\ res[n].name = <<[int |-> ToRow(res[n])[1]]>>
<1>1. PICK i \in 1 .. Len(Selected) : res[n].name = Key(Selected[i])
  BY DEF IsAnswer
<1> DEFINE key == Selected[i][1]
           T == OfKey(key)
           r == res[n]
<1>2. /\ RowsOf(Selected, Key(Selected[i]), TRUE) = T
      /\ i \in T /\ T \in SUBSET (1 .. Len(Selected)) /\ key \in Keys /\ key \in Int
  BY RowsOfKey
<1>3. r.values[1] = Cardinality(T) /\ r.values[2] = SecondOf(Selected, T, plan.average)
  BY <1>1, <1>2 DEF IsAnswer
<1>4. r.name = <<[int |-> key]>>
  BY <1>1 DEF Key
<1>5. key = IF grouped THEN r.name[1].int ELSE 0
  BY <1>4
<1> HIDE DEF key, T, r
<1>6. ToRow(r) = Summary(key, T)
  BY <1>3, <1>5, SummaryOfSecond
<1>7. T # {}
  BY <1>2
<1>8. Summary(key, T) \in Row
  BY <1>2, <1>7, SummaryType
<1>9. Summary(key, T)[1] = key
  BY DEF Summary
<1> QED BY <1>2, <1>4, <1>6, <1>8, <1>9 DEF r, T

\* The answer has one row for each key.
LEMMA GroupRows ==
  ASSUME grouped, Selected \in Seq(Scan!Row), NEW res, IsAnswer(res, Selected, TRUE, plan.average)
  PROVE  /\ RowsIn(res) \in Seq(Row)
         /\ \E g : IsWhole(RowsIn(res), AllGroups, g)
<1> DEFINE list == RowsIn(res)
           m == Len(res)
           g == [n \in 1 .. m |-> ToRow(res[n])[1]]
<1>1. m \in Nat /\ DOMAIN res = 1 .. m
  BY DEF IsAnswer
<1>2. \A n \in 1 .. m :
        /\ ToRow(res[n]) \in Row /\ ToRow(res[n])[1] \in Keys
        /\ ToRow(res[n]) = Summary(ToRow(res[n])[1], OfKey(ToRow(res[n])[1]))
        /\ res[n].name = <<[int |-> ToRow(res[n])[1]]>>
  BY GroupRow
<1>3. list \in Seq(Row) /\ Len(list) = m /\ \A n \in 1 .. m : list[n] = ToRow(res[n])
  <2>1. list = [n \in 1 .. m |-> ToRow(res[n])]
    BY <1>1 DEF RowsIn
  <2>2. \A n \in 1 .. m : ToRow(res[n]) \in Row
    BY <1>2
  <2> HIDE DEF list, m
  <2> QED BY <1>1, <2>1, <2>2
<1>4. /\ DOMAIN AllGroups = Keys
      /\ \A k \in Keys : AllGroups[k] = Summary(k, OfKey(k))
  BY DEF AllGroups
<1>5. \A n \in 1 .. m : g[n] \in Keys /\ list[n] = AllGroups[g[n]]
                        /\ res[n].name = <<[int |-> g[n]]>>
  BY <1>2, <1>3, <1>4
<1>6. \A a, b \in 1 .. m : g[a] = g[b] => a = b
  <2>1. \A a, b \in 1 .. m : res[a].name = res[b].name => a = b
    BY DEF IsAnswer
  <2> SUFFICES ASSUME NEW a \in 1 .. m, NEW b \in 1 .. m, g[a] = g[b]
               PROVE  a = b
    OBVIOUS
  <2>2. res[a].name = <<[int |-> g[a]]>> /\ res[b].name = <<[int |-> g[b]]>>
    BY <1>5
  <2> HIDE DEF g, m
  <2>3. res[a].name = res[b].name
    BY <2>2, Zenon
  <2> QED BY <2>1, <2>3
<1>7. g \in Injection(1 .. m, Keys)
  <2>1. g \in [1 .. m -> Keys]
    BY <1>5
  <2> HIDE DEF g, m
  <2> QED BY <1>6, <2>1 DEF Injection, IsInjective
<1>8. \A d \in Keys : \E n \in 1 .. m : g[n] = d
  <2> SUFFICES ASSUME NEW d \in Keys
               PROVE  \E n \in 1 .. m : g[n] = d
    OBVIOUS
  <2>1. PICK i \in 1 .. Len(Selected) : Selected[i][1] = d
    BY DEF Keys
  <2>2. PICK n \in 1 .. m : res[n].name = Key(Selected[i])
    BY DEF IsAnswer
  <2>3. res[n].name = <<[int |-> d]>> /\ res[n].name = <<[int |-> g[n]]>>
    BY <1>5, <2>1, <2>2 DEF Key
  <2>4. <<[int |-> d]>>[1].int = <<[int |-> g[n]]>>[1].int
    BY <2>3
  <2> QED BY <2>4
<1> HIDE DEF list, m, g
<1>9. IsWhole(list, AllGroups, g)
  <2>1. Len(list) \in Nat /\ g \in Injection(1 .. Len(list), DOMAIN AllGroups)
    BY <1>1, <1>3, <1>4, <1>7
  <2>2. /\ \A n \in 1 .. Len(list) : list[n] = AllGroups[g[n]]
        /\ \A d \in DOMAIN AllGroups : \E n \in 1 .. Len(list) : g[n] = d
    BY <1>3, <1>4, <1>5, <1>8
  <2> QED BY <2>1, <2>2, MakeWhole
<1> QED BY <1>3, <1>9 DEF list

\* The second column of a group is the number of its rows.
LEMMA KeyCount ==
  ASSUME Selected \in Seq(Scan!Row), NEW k \in Keys
  PROVE  AllGroups[k][2] = Cardinality(OfKey(k))
BY DEF AllGroups, Summary

\* Without HAVING, all groups are wanted.
LEMMA NoHaving ==
  ASSUME plan.aggregate = "groups", ~plan.having
  PROVE  Wanted = AllGroups
BY DEF Wanted, AllGroups

\* The HAVING filter keeps the groups that the query asks for, and all of them.
LEMMA HavingRows ==
  ASSUME plan.aggregate = "groups", Selected \in Seq(Scan!Row),
         NEW list \in Seq(Row), NEW g, IsWhole(list, AllGroups, g)
  PROVE  /\ Having(list) \in Seq(Row)
         /\ \E f : IsWhole(Having(list), Wanted, f)
<1> DEFINE A == {r \in ToSet(list) : plan.having => r[2] > HavingCount}
           t == Filtered(list, A)
           L == Len(list)
           D == {k \in Keys : plan.having => Cardinality(OfKey(k)) > HavingCount}
<1>1. Having(list) = t
  BY DEF Having
<1>2. t \in Seq(Row) /\ L \in Nat /\ DOMAIN list = 1 .. L
  <2> HIDE DEF A
  <2> QED BY FilterType
<1>3. PICK h : IsPlaces(h, list, A)
  <2> HIDE DEF A
  <2> QED BY FilterPlaces
<1>4. /\ h \in [1 .. Len(t) -> 1 .. L]
      /\ \A i, j \in 1 .. Len(t) : i < j => h[i] < h[j]
      /\ \A i \in 1 .. Len(t) : t[i] = list[h[i]] /\ t[i] \in A
      /\ \A j \in 1 .. L : list[j] \in A => \E i \in 1 .. Len(t) : h[i] = j
  BY <1>3 DEF IsPlaces
<1>5. /\ g \in Injection(1 .. L, Keys)
      /\ \A n \in 1 .. L : list[n] = AllGroups[g[n]]
      /\ \A d \in Keys : \E n \in 1 .. L : g[n] = d
  BY DEF IsWhole, IsListing, AllGroups
<1>6. DOMAIN Wanted = D /\ \A k \in D : Wanted[k] = AllGroups[k]
  BY DEF Wanted, AllGroups
<1>7. \A n \in 1 .. L : g[n] \in Keys /\ (list[n] \in A <=> g[n] \in D)
  <2> SUFFICES ASSUME NEW n \in 1 .. L
               PROVE  g[n] \in Keys /\ (list[n] \in A <=> g[n] \in D)
    OBVIOUS
  <2>1. g[n] \in Keys
    BY <1>5 DEF Injection
  <2>2. list[n][2] = Cardinality(OfKey(g[n]))
    BY <1>5, <2>1, KeyCount
  <2>3. list[n] \in ToSet(list)
    BY <1>2 DEF ToSet
  <2> QED BY <2>1, <2>2, <2>3
<1> DEFINE f == [i \in 1 .. Len(t) |-> g[h[i]]]
<1> HIDE DEF A, t, L, D
<1>8. Len(t) \in Nat
  BY <1>2
<1>9. \A i \in 1 .. Len(t) : f[i] = g[h[i]] /\ f[i] \in D /\ t[i] = Wanted[f[i]]
  BY <1>4, <1>5, <1>6, <1>7
<1>10. \A i, j \in 1 .. Len(t) : f[i] = f[j] => i = j
  <2> SUFFICES ASSUME NEW i \in 1 .. Len(t), NEW j \in 1 .. Len(t), f[i] = f[j], i < j
               PROVE  FALSE
    BY <1>8
  <2>1. h[i] \in 1 .. L /\ h[j] \in 1 .. L /\ h[i] < h[j]
    BY <1>4
  <2>2. g[h[i]] = g[h[j]]
    BY <1>9
  <2>3. h[i] = h[j]
    BY <1>5, <2>1, <2>2 DEF Injection, IsInjective
  <2> QED BY <1>2, <2>1, <2>3
<1>11. f \in Injection(1 .. Len(t), D)
  <2>1. f \in [1 .. Len(t) -> D]
    BY <1>9
  <2> HIDE DEF f
  <2> QED BY <1>10, <2>1 DEF Injection, IsInjective
<1>12. \A d \in D : \E i \in 1 .. Len(t) : f[i] = d
  <2> SUFFICES ASSUME NEW d \in D
               PROVE  \E i \in 1 .. Len(t) : f[i] = d
    OBVIOUS
  <2>1. PICK n \in 1 .. L : g[n] = d
    BY <1>5 DEF D
  <2>2. PICK i \in 1 .. Len(t) : h[i] = n
    BY <1>4, <1>7, <2>1
  <2> QED BY <1>9, <2>1, <2>2
<1> HIDE DEF f
<1>13. IsWhole(t, Wanted, f)
  BY <1>6, <1>8, <1>9, <1>11, <1>12, MakeWhole
<1> QED BY <1>1, <1>2, <1>13

-----------------------------------------------------------------------------
\* The answer of the aggregation is pulled or printed.

\* A list of everything that is wanted, printed without an order.
LEMMA PrintedUnsorted ==
  ASSUME NEW S, NEW list \in Seq(S), NEW wanted, NEW g, IsWhole(list, wanted, g),
         NEW p, p.offset \in Nat, p.limit \in Nat
  PROVE  Exactly(Slice(list, p), wanted, p.offset, p.limit, FALSE)
<1> DEFINE amount == Cardinality(DOMAIN wanted)
           limit == p.limit
<1>1. IsListing(list, wanted, g) /\ Len(list) = amount
  BY DEF IsWhole
<1>2. Suffices(list, p, amount, limit)
  BY <1>1 DEF Suffices
<1>3. FALSE \in BOOLEAN
  OBVIOUS
<1> HIDE DEF limit
<1>4. Exactly(Slice(list, p), wanted, p.offset, limit, FALSE)
  BY <1>1, <1>2, <1>3, SlicesAreExact
<1> QED BY <1>4 DEF limit

\* The answer of the aggregation passes HAVING and is pulled by the sort.
LEMMA SortPullsAnswerKeeps ==
  ASSUME PlansInv, SortPullsAnswer
  PROVE  PlansInv'
<1>1. /\ plan.aggregate # "no" /\ plan.sort # "no" /\ scan_phase = "end" /\ AnswerReady
      /\ input = <<>> /\ input' = <<Having(Returned)>>
      /\ UNCHANGED <<query, plan, status, output>> /\ UNCHANGED plan_vars /\ UNCHANGED scan_vars
      /\ UNCHANGED <<limited, has_result, rows, read, kept, result, phase>>
  BY DEF SortPullsAnswer, SortWaits, plan_vars
<1>2. /\ ScanInv' /\ UNCHANGED <<table, delivered, scan_phase>>
      /\ Chosen(Done)' = Chosen(Done) /\ Keyed(Chosen(Done))' = Keyed(Chosen(Done))
  BY <1>1, ScanStays DEF PlansInv
<1>3. plan.aggregate = "groups" /\ grouped
  BY <1>1 DEF PlansInv, PlanShape, AggInv
<1>4. /\ IsAnswer(agg_result', Selected, grouped, plan.average)
      /\ Selected \in Seq(Scan!Row)
      /\ AggExact' /\ agg_phase = "run" /\ agg_phase' = "done"
      /\ UNCHANGED <<agg_input, agg_rows, grouped>>
  BY <1>1, <1>2, Answered
<1>5. Returned = RowsIn(agg_result')
  BY DEF Returned, RowsIn
<1>6. /\ Having(Returned) \in Seq(Row)
      /\ \E f : IsWhole(Having(Returned), Wanted, f)
  <2> DEFINE res == agg_result'
  <2>0. IsAnswer(res, Selected, TRUE, plan.average)
    <3>1. grouped = TRUE
      <4>1. grouped \in BOOLEAN
        BY DEF PlansInv, AggInv, AggExact, Avg!ExactInv, Avg!IInv, Avg!TypeOK,
               Cnt!ExactInv, Cnt!IInv, Cnt!TypeOK
      <4> QED BY <1>3, <4>1
    <3> QED BY <1>4, <3>1
  <2> HIDE DEF res
  <2>1. RowsIn(res) \in Seq(Row) /\ \E g : IsWhole(RowsIn(res), AllGroups, g)
    BY <1>3, <1>4, <2>0, GroupRows
  <2>2. /\ Having(RowsIn(res)) \in Seq(Row)
        /\ \E f : IsWhole(Having(RowsIn(res)), Wanted, f)
    BY <1>3, <1>4, <2>1, HavingRows
  <2> QED BY <1>5, <2>2 DEF res
<1>7. SortInv'
  <2>1. input' \in Seq(Batch)
    BY <1>1, <1>6 DEF Batch
  <2>2. IInv'
    BY <1>1, <2>1, SortTakesInput DEF PlansInv, SortInv
  <2> QED BY <1>1, <2>2 DEF PlansInv, SortInv, OneBatch
<1>8. AggInv' /\ AggRows' = AggRows
  BY <1>1, <1>4 DEF PlansInv, AggInv, OneBatch, AggRows
<1>9. PlanShape' /\ StatusInv'
  BY <1>1, <1>2, ShapeStays, StatusStays DEF PlansInv
<1>10. SortRows' = Having(Returned)
  <2>1. rows = <<>>
    BY <1>1, <1>4 DEF PlansInv, PipeInv
  <2>2. FlattenSeq(<<Having(Returned)>>) = Having(Returned)
    BY <1>6, FlattenOne
  <2>3. SortRows' = <<>> \o Having(Returned)
    BY <1>1, <2>1, <2>2 DEF SortRows
  <2> QED BY <1>6, <2>3, ConcatEmptySeq
<1>11. PipeInv'
  <2>1. Wanted' = Wanted
    BY <1>1, <1>2, WantedStays
  <2>2. SortRows' \in Seq(Row) /\ \E g : IsWhole(SortRows', Wanted', g)
    BY <1>6, <1>10, <2>1
  <2>3. (\E g : IsWhole(SortRows, Wanted, g))'
    BY <2>2 DEF IsWhole, IsListing
  <2>4. (SortRows \in Seq(Row))'
    BY <2>2
  <2> QED BY <1>1, <1>2, <1>3, <1>4, <1>8, <2>3, <2>4 DEF PlansInv, PipeInv
<1> QED BY <1>2, <1>7, <1>8, <1>9, <1>11 DEF PlansInv

\* The row of all rows.
LEMMA TotalRow ==
  ASSUME ~grouped, plan.aggregate = "all", Selected \in Seq(Scan!Row),
         NEW res, IsAnswer(res, Selected, FALSE, plan.average)
  PROVE  \E S : /\ RowsIn(res) \in Seq(S)
                /\ \E g : IsWhole(RowsIn(res), Wanted, g)
<1> DEFINE r == res[1]
           T == DOMAIN Selected
           w == Summary(0, T)
           g == [n \in 1 .. 1 |-> 1]
           list == RowsIn(res)
<1>1. Len(res) = 1 /\ DOMAIN res = 1 .. 1
  BY DEF IsAnswer
<1>2. \A name : RowsOf(Selected, name, FALSE) = T
  <2>1. T = 1 .. Len(Selected)
    OBVIOUS
  <2> HIDE DEF T
  <2> QED BY <2>1 DEF RowsOf
<1>3. r.values[1] = Cardinality(T) /\ r.values[2] = SecondOf(Selected, T, plan.average)
  <2> DEFINE U == RowsOf(Selected, r.name, FALSE)
  <2>1. 1 \in 1 .. Len(res)
    BY <1>1
  <2>2. r.values[1] = Cardinality(U) /\ r.values[2] = SecondOf(Selected, U, plan.average)
    BY <2>1 DEF IsAnswer
  <2>3. U = T
    BY <1>2
  <2> HIDE DEF U, T, r
  <2> QED BY <2>2, <2>3
<1>4. ToRow(r) = w
  <2>1. 0 = IF grouped THEN r.name[1].int ELSE 0
    OBVIOUS
  <2> HIDE DEF r, T
  <2> QED BY <1>3, <2>1, SummaryOfSecond
<1>5. list = [n \in 1 .. 1 |-> ToRow(res[n])] /\ list[1] = w
  BY <1>1, <1>4 DEF RowsIn
<1>6. Wanted = <<w>>
  BY DEF Wanted
<1> HIDE DEF w, T, r, list
<1>7. list \in Seq({w}) /\ Len(list) = 1
  <2>1. list \in [1 .. 1 -> {w}]
    BY <1>5
  <2> QED BY <2>1
<1>8. DOMAIN Wanted = 1 .. 1 /\ Wanted[1] = w
  BY <1>6
<1>9. g \in Injection(1 .. 1, 1 .. 1)
  BY DEF Injection, IsInjective
<1>10. /\ \A n \in 1 .. 1 : list[n] = Wanted[g[n]]
       /\ \A d \in 1 .. 1 : \E n \in 1 .. 1 : g[n] = d
  BY <1>5, <1>8
<1> HIDE DEF g
<1>11. IsWhole(list, Wanted, g)
  BY <1>7, <1>8, <1>9, <1>10, MakeWhole
<1> QED BY <1>7, <1>11 DEF list

\* The answer of the aggregation is printed.
LEMMA PrintAggregatesKeeps ==
  ASSUME PlansInv, PrintAggregates
  PROVE  PlansInv'
<1>1. /\ plan.aggregate # "no" /\ plan.sort = "no" /\ scan_phase = "end" /\ AnswerReady
      /\ output' = Slice(Returned, plan) /\ status' = "answered"
      /\ UNCHANGED <<query, plan>> /\ UNCHANGED scan_vars /\ UNCHANGED vars
  BY DEF PrintAggregates
<1>2. /\ ScanInv' /\ UNCHANGED <<table, delivered, scan_phase>>
      /\ Chosen(Done)' = Chosen(Done) /\ Keyed(Chosen(Done))' = Keyed(Chosen(Done))
  BY <1>1, ScanStays DEF PlansInv
<1>3. SortInv' /\ SortRows' = SortRows /\ UNCHANGED <<rows, input, has_result>> /\ PlanShape'
  BY <1>1, SortStays, ShapeStays DEF PlansInv
<1>4. /\ IsAnswer(agg_result', Selected, grouped, plan.average)
      /\ Selected \in Seq(Scan!Row)
      /\ AggExact' /\ agg_phase = "run" /\ agg_phase' = "done"
      /\ UNCHANGED <<agg_input, agg_rows, grouped>>
  BY <1>1, <1>2, Answered
<1>5. AggInv' /\ AggRows' = AggRows
  BY <1>1, <1>4 DEF PlansInv, AggInv, OneBatch, AggRows
<1>6. PipeInv'
  BY <1>1, <1>2, <1>3, <1>4, <1>5 DEF PlansInv, PipeInv
<1> DEFINE res == agg_result'
<1>7. Returned = RowsIn(res)
  BY DEF Returned, RowsIn
<1>8. grouped \in BOOLEAN /\ (grouped <=> plan.aggregate = "groups")
  BY DEF PlansInv, AggInv, AggExact, Avg!ExactInv, Avg!IInv, Avg!TypeOK,
         Cnt!ExactInv, Cnt!IInv, Cnt!TypeOK
<1> HIDE DEF res
<1>9. \E S : /\ RowsIn(res) \in Seq(S)
             /\ \E g : IsWhole(RowsIn(res), Wanted, g)
  <2>1. CASE grouped
    <3>1. grouped = TRUE /\ plan.aggregate = "groups"
      BY <1>8, <2>1
    <3>2. IsAnswer(res, Selected, TRUE, plan.average)
      BY <1>4, <3>1 DEF res
    <3>3. RowsIn(res) \in Seq(Row) /\ \E g : IsWhole(RowsIn(res), AllGroups, g)
      BY <1>4, <2>1, <3>2, GroupRows
    <3>4. ~plan.having
      BY <1>1 DEF PlansInv, PlanShape
    <3>5. Wanted = AllGroups
      BY <3>1, <3>4, NoHaving
    <3> QED BY <3>3, <3>5
  <2>2. CASE ~grouped
    <3>1. grouped = FALSE /\ plan.aggregate = "all"
      BY <1>1, <1>8, <2>2 DEF PlansInv, PlanShape
    <3>2. IsAnswer(res, Selected, FALSE, plan.average)
      BY <1>4, <3>1 DEF res
    <3> QED BY <1>4, <2>2, <3>1, <3>2, TotalRow
  <2> QED BY <2>1, <2>2
<1>10. Exactly(output', Wanted, plan.offset, plan.limit, FALSE)
  <2>1. PICK S, g : RowsIn(res) \in Seq(S) /\ IsWhole(RowsIn(res), Wanted, g)
    BY <1>9
  <2>2. plan.offset \in Nat /\ plan.limit \in Nat
    BY DEF PlansInv, PlanShape
  <2> DEFINE list == RowsIn(res)
             wanted == Wanted
             p == plan
  <2>3. list \in Seq(S) /\ IsWhole(list, wanted, g) /\ p.offset \in Nat /\ p.limit \in Nat
    BY <2>1, <2>2
  <2> HIDE DEF list, wanted, p
  <2>4. Exactly(Slice(list, p), wanted, p.offset, p.limit, FALSE)
    BY <2>3, PrintedUnsorted
  <2> QED BY <1>1, <1>7, <2>4 DEF list, wanted, p
<1>11. AnswerIsExact'
  <2>1. Wanted' = Wanted
    BY <1>1, <1>2, WantedStays
  <2>2. plan' = plan /\ (plan.sort # "no") = FALSE
        /\ (IF plan.sort = "limit" THEN K ELSE plan.limit) = plan.limit
    BY <1>1
  <2> QED BY <1>10, <2>1, <2>2, ExactNext
<1>12. StatusInv'
  BY <1>1, <1>11 DEF StatusInv
<1> QED BY <1>2, <1>3, <1>5, <1>6, <1>12 DEF PlansInv

-----------------------------------------------------------------------------
\* The answer of the sort is printed.

\* The answer of the sort is best in the step that returns it.
LEMMA BestNext == IInv' => ResultIsBest'
BY AnswerIsBest, PTL

\* The places of the best rows of all, in order.
IsBestOf(res, all) ==
  /\ res \in Seq(1 .. Len(all))
  /\ \A p, q \in 1 .. Len(res) :
       p < q => res[p] # res[q] /\ ~Before(all[res[q]], all[res[p]])
  /\ \A x \in 1 .. Len(all) :
       (\A p \in 1 .. Len(res) : res[p] # x)
         => \A p \in 1 .. Len(res) : ~Before(all[x], all[res[p]])

\* The best rows of all are a listing in order of what is wanted.
LEMMA SortedListing ==
  ASSUME NEW all \in Seq(Row), NEW wanted, NEW g, IsWhole(all, wanted, g),
         NEW res, IsBestOf(res, all)
  PROVE  LET list == [n \in DOMAIN res |-> all[res[n]]]
             f == [n \in 1 .. Len(res) |-> g[res[n]]]
         IN /\ list \in Seq(Row) /\ Len(list) = Len(res)
            /\ IsListing(list, wanted, f) /\ InOrder(list, wanted, f)
<1> DEFINE list == [n \in DOMAIN res |-> all[res[n]]]
           f == [n \in 1 .. Len(res) |-> g[res[n]]]
           m == Len(res)
           L == Len(all)
           D == DOMAIN wanted
<1>1. /\ m \in Nat /\ L \in Nat /\ DOMAIN res = 1 .. m
      /\ \A n \in 1 .. m : res[n] \in 1 .. L
  BY DEF IsBestOf
<1>2. \A n \in 1 .. L : all[n] \in Row
  OBVIOUS
<1>3. list \in Seq(Row) /\ Len(list) = m /\ \A n \in 1 .. m : list[n] = all[res[n]]
  <2>1. list = [n \in 1 .. m |-> all[res[n]]]
    BY <1>1
  <2>2. \A n \in 1 .. m : all[res[n]] \in Row
    BY <1>1, <1>2
  <2> HIDE DEF list, m
  <2> QED BY <1>1, <2>1, <2>2
<1>4. /\ IsFiniteSet(D) /\ g \in Injection(1 .. L, D)
      /\ \A n \in 1 .. L : all[n] = wanted[g[n]]
      /\ \A d \in D : \E n \in 1 .. L : g[n] = d
  BY DEF IsWhole, IsListing
<1>5. /\ \A p, q \in 1 .. m : p < q => res[p] # res[q] /\ ~Before(all[res[q]], all[res[p]])
      /\ \A x \in 1 .. L : (\A p \in 1 .. m : res[p] # x)
           => \A p \in 1 .. m : ~Before(all[x], all[res[p]])
  BY DEF IsBestOf
<1>6. \A n \in 1 .. m : f[n] = g[res[n]]
  OBVIOUS
<1>7. f = [n \in 1 .. m |-> g[res[n]]]
  OBVIOUS
<1> HIDE DEF list, f, m, L, D
<1>8. f \in Injection(1 .. m, D)
  <2>1. \A n \in 1 .. L : g[n] \in D
    BY <1>4 DEF Injection
  <2>2. f \in [1 .. m -> D]
    BY <1>1, <1>7, <2>1
  <2>3. ASSUME NEW p \in 1 .. m, NEW q \in 1 .. m, f[p] = f[q]
        PROVE  p = q
    <3>1. res[p] = res[q]
      BY <1>1, <1>4, <1>6, <2>3 DEF Injection, IsInjective
    <3>2. ~(p < q) /\ ~(q < p)
      BY <1>5, <3>1
    <3> QED BY <1>1, <3>2
  <2> QED BY <2>2, <2>3 DEF Injection, IsInjective
<1>9. IsListing(list, wanted, f)
  <2>1. \A n \in 1 .. m : list[n] = wanted[f[n]]
    BY <1>1, <1>3, <1>4, <1>6
  <2> QED BY <1>3, <1>4, <1>8, <2>1 DEF IsListing, D
<1>10. InOrder(list, wanted, f)
  <2>1. \A p, q \in 1 .. m : p < q => ~Before(list[q], list[p])
    BY <1>3, <1>5
  <2>2. ASSUME NEW d \in D, \A p \in 1 .. m : f[p] # d, NEW p \in 1 .. m
        PROVE  ~Before(wanted[d], list[p])
    <3>1. PICK n \in 1 .. L : g[n] = d
      BY <1>4
    <3>2. \A i \in 1 .. m : res[i] # n
      BY <1>6, <2>2, <3>1
    <3>3. ~Before(all[n], all[res[p]])
      BY <1>5, <3>2
    <3>4. all[n] = wanted[d] /\ list[p] = all[res[p]]
      BY <1>3, <1>4, <3>1
    <3> QED BY <3>3, <3>4
  <2> QED BY <1>3, <2>1, <2>2 DEF InOrder, D
<1> QED BY <1>3, <1>9, <1>10 DEF list, f, m

\* The answer of the sort is printed from OFFSET on.
LEMMA PrintSortedKeeps ==
  ASSUME PlansInv, PrintSorted
  PROVE  PlansInv'
<1>1. /\ plan.sort # "no" /\ ChildEnded /\ ReturnRows
      /\ output' = Slice([n \in DOMAIN result' |-> rows[result'[n]]], plan)
      /\ status' = "answered"
      /\ UNCHANGED <<query, plan>> /\ UNCHANGED scan_vars /\ UNCHANGED agg_vars
  BY DEF PrintSorted
<1>2. /\ input = <<>> /\ phase' = "done"
      /\ UNCHANGED <<limited, input, has_result, rows>>
  BY <1>1 DEF ReturnRows, AtEnd
<1>3. /\ ScanInv' /\ UNCHANGED <<table, delivered, scan_phase>>
      /\ Chosen(Done)' = Chosen(Done) /\ Keyed(Chosen(Done))' = Keyed(Chosen(Done))
  BY <1>1, ScanStays DEF PlansInv
<1>4. AggInv' /\ PlanShape' /\ AggRows' = AggRows /\ agg_phase' = agg_phase
  <2>1. AggExact'
    BY <1>1, AggIdle DEF PlansInv, AggInv
  <2> QED BY <1>1, <2>1, ShapeStays DEF PlansInv, AggInv, OneBatch, agg_vars, AggRows
<1>5. IInv'
  BY <1>1, ReturnsKeepIInv DEF PlansInv, SortInv
<1>6. SortInv' /\ SortRows' = SortRows
  BY <1>1, <1>2, <1>5 DEF PlansInv, SortInv, OneBatch, SortRows
<1>7. Wanted' = Wanted
  BY <1>1, <1>3, WantedStays
<1>8. PipeInv'
  <2>1. \A g : IsWhole(SortRows, Wanted, g) = IsWhole(SortRows, Wanted, g)'
    BY <1>6, <1>7 DEF IsWhole, IsListing
  <2> QED BY <1>1, <1>2, <1>3, <1>4, <1>6, <2>1 DEF PlansInv, PipeInv
<1>9. rows \in Seq(Row) /\ SortRows = rows
  <2>1. rows \in Seq(Row)
    BY DEF PlansInv, SortInv, IInv, TypeOK, Batch
  <2> QED BY <1>2, <2>1, FlattenNone, ConcatEmptySeq DEF SortRows
<1>10. \E g : IsWhole(rows, Wanted, g)
  <2>1. CASE plan.aggregate = "no"
    <3>1. scan_phase = "end"
      BY <1>1, <2>1 DEF ChildEnded
    <3>2. rows = Selected
      BY <1>1, <1>9, <2>1, <3>1, ChosenAtEnd DEF PlansInv, PipeInv
    <3>3. Wanted = Selected
      BY <2>1 DEF Wanted
    <3> DEFINE s == Selected
    <3>4. s \in Seq(Row)
      BY <1>9, <3>2
    <3> HIDE DEF s
    <3>5. IsWhole(s, s, [n \in 1 .. Len(s) |-> n])
      BY <3>4, ListsItself
    <3>6. IsWhole(s, s, [n \in 1 .. Len(s) |-> n]) => \E g : IsWhole(s, s, g)
      OBVIOUS
    <3> QED BY <3>2, <3>3, <3>5, <3>6 DEF s
  <2>2. CASE plan.aggregate # "no"
    <3>1. agg_phase = "none"
      BY <1>1, <2>2 DEF ChildEnded
    <3> QED BY <1>1, <1>9, <2>2, <3>1 DEF PlansInv, PipeInv
  <2> QED BY <2>1, <2>2
<1>11. PICK g : IsWhole(rows, Wanted, g)
  BY <1>10
<1> DEFINE res == result'
<1>12. IsBestOf(res, rows) /\ Len(res) = Count(Len(rows))
  <2>1. ResultIsBest'
    BY <1>5, BestNext
  <2>2. res \in Seq(1 .. Len(rows))
    <3>1. /\ result' \in [1 .. Cardinality(kept) -> kept]
      BY <1>1 DEF ReturnRows
    <3>2. Cardinality(kept) \in Nat /\ kept \subseteq 1 .. Len(rows)
      <4>1. Cardinality(kept) \in Nat
        BY KeptIsFinite DEF PlansInv, SortInv, IInv
      <4>2. kept \subseteq 1 .. read /\ read \in 0 .. Len(rows) /\ Len(rows) \in Nat
        BY <1>9 DEF PlansInv, SortInv, IInv, TypeOK
      <4> QED BY <4>1, <4>2
    <3>3. result' \in [1 .. Cardinality(kept) -> 1 .. Len(rows)]
      BY <3>1, <3>2
    <3> QED BY <3>2, <3>3
  <2>3. Len(res) = Count(Len(rows))
    BY <1>2, <2>1 DEF ResultIsBest, Count
  <2>4. /\ \A p, q \in 1 .. Len(res) :
             p < q => res[p] # res[q] /\ ~Before(rows[res[q]], rows[res[p]])
        /\ \A x \in 1 .. Len(rows) :
             (\A p \in 1 .. Len(res) : res[p] # x)
               => \A p \in 1 .. Len(res) : ~Before(rows[x], rows[res[p]])
    BY <1>2, <2>1 DEF ResultIsBest, Before
  <2> HIDE DEF res
  <2> QED BY <2>2, <2>3, <2>4 DEF IsBestOf
<1> DEFINE list == [n \in DOMAIN res |-> rows[res[n]]]
           f == [n \in 1 .. Len(res) |-> g[res[n]]]
           limit == IF plan.sort = "limit" THEN K ELSE plan.limit
           amount == Cardinality(DOMAIN Wanted)
<1> HIDE DEF res
<1>13. /\ list \in Seq(Row) /\ Len(list) = Len(res)
       /\ IsListing(list, Wanted, f) /\ InOrder(list, Wanted, f)
  <2> DEFINE w == Wanted
  <2>1. IsWhole(rows, w, g)
    BY <1>11
  <2> HIDE DEF w
  <2>2. /\ list \in Seq(Row) /\ Len(list) = Len(res)
        /\ IsListing(list, w, f) /\ InOrder(list, w, f)
    BY <1>9, <1>12, <2>1, SortedListing
  <2> QED BY <2>2 DEF w
<1>14. Suffices(list, plan, amount, limit)
  <2>1. Len(rows) = amount /\ Len(rows) \in Nat
    BY <1>9, <1>11 DEF IsWhole
  <2>2. /\ limited <=> plan.sort = "limit"
        /\ plan.offset \in Nat /\ plan.limit \in Nat
        /\ plan.sort = "limit" => plan.offset = 0 /\ plan.limit = Everything
    BY DEF PlansInv, PlanShape, SortInv
  <2>3. K \in Nat /\ K <= Everything
    BY SortingAssumption, QueryPlansAssumption
  <2> HIDE DEF list, amount
  <2>4. Len(list) = IF limited /\ amount > K THEN K ELSE amount
    BY <1>12, <1>13, <2>1 DEF Count
  <2>5. CASE plan.sort = "limit"
    BY <2>1, <2>2, <2>3, <2>4, <2>5 DEF Suffices
  <2>6. CASE plan.sort # "limit"
    BY <2>1, <2>2, <2>4, <2>6 DEF Suffices
  <2> QED BY <2>5, <2>6
<1>15. Exactly(output', Wanted, plan.offset, limit, TRUE)
  <2> DEFINE w == Wanted
             p == plan
  <2>1. IsListing(list, w, f) /\ InOrder(list, w, f) /\ list \in Seq(Row)
    BY <1>13
  <2>2. Suffices(list, p, Cardinality(DOMAIN w), limit)
    BY <1>14
  <2>3. TRUE \in BOOLEAN
    OBVIOUS
  <2>4. output' = Slice(list, p)
    BY <1>1 DEF res
  <2> HIDE DEF w, p, list, f, limit
  <2>5. Exactly(Slice(list, p), w, p.offset, limit, TRUE)
    BY <2>1, <2>2, <2>3, SlicesAreExact
  <2> QED BY <2>4, <2>5 DEF w, p
<1>16. AnswerIsExact'
  <2>1. plan' = plan /\ (plan.sort # "no") = TRUE
    BY <1>1
  <2> QED BY <1>7, <1>15, <2>1, ExactNext
<1>17. StatusInv'
  BY <1>1, <1>16 DEF StatusInv
<1> QED BY <1>3, <1>4, <1>6, <1>8, <1>17 DEF PlansInv

-----------------------------------------------------------------------------
\* The theorems.

\* A step that changes nothing.
LEMMA PlanRests == PlansInv /\ UNCHANGED all_vars => PlansInv'
<1> SUFFICES ASSUME PlansInv, UNCHANGED all_vars
             PROVE  PlansInv'
  OBVIOUS
<1>1. /\ UNCHANGED plan_vars /\ UNCHANGED scan_vars /\ UNCHANGED agg_vars /\ UNCHANGED vars
      /\ UNCHANGED <<query, plan, status, output, agg_phase, agg_rows, agg_input>>
  BY DEF all_vars, plan_vars, agg_vars
<1>2. /\ ScanInv' /\ UNCHANGED <<table, delivered, scan_phase>>
      /\ Chosen(Done)' = Chosen(Done) /\ Keyed(Chosen(Done))' = Keyed(Chosen(Done))
  BY <1>1, ScanStays DEF PlansInv
<1>3. SortInv' /\ SortRows' = SortRows /\ UNCHANGED <<rows, input, has_result>>
  BY <1>1, SortStays DEF PlansInv
<1>4. AggInv' /\ PlanShape' /\ StatusInv'
  BY <1>1, <1>2, OthersStay, ShapeStays, StatusStays DEF PlansInv
<1>5. PipeInv'
  <2>1. Wanted' = Wanted /\ AggRows' = AggRows
    BY <1>1, <1>2, WantedStays DEF AggRows
  <2>2. \A g : IsWhole(SortRows, Wanted, g) = IsWhole(SortRows, Wanted, g)'
    BY <1>3, <2>1 DEF IsWhole, IsListing
  <2> QED BY <1>1, <1>2, <1>3, <2>1, <2>2 DEF PlansInv, PipeInv
<1> QED BY <1>2, <1>3, <1>4, <1>5 DEF PlansInv

\* Every step keeps the invariant.
LEMMA PlanStep ==
  ASSUME Scans!AllSound
  PROVE  PlansInv /\ [PlansNext]_all_vars => PlansInv'
<1> SUFFICES ASSUME PlansInv, [PlansNext]_all_vars
             PROVE  PlansInv'
  OBVIOUS
<1>1. CASE BuildFilter \/ StartScan \/ ScanWorks \/ ScanEnds
  BY <1>1, ScanOnlyKeeps
<1>2. CASE AggregationPulls
  BY <1>2, AggregationPullsKeeps
<1>3. CASE SortPulls
  BY <1>3, SortPullsKeeps
<1>4. CASE PrintBatch
  BY <1>4, PrintBatchKeeps
<1>5. CASE EndOfLoop
  BY <1>5, EndOfLoopKeeps
<1>6. CASE AggregationWorks
  BY <1>6, AggregationWorksKeeps
<1>7. CASE SortPullsAnswer
  BY <1>7, SortPullsAnswerKeeps
<1>8. CASE PrintAggregates
  BY <1>8, PrintAggregatesKeeps
<1>9. CASE AggregationEnds
  BY <1>9, AggregationEndsKeeps
<1>10. CASE AverageFails
  BY <1>10, AverageFailsKeeps
<1>11. CASE SortWorks
  BY <1>11, SortWorksKeeps
<1>12. CASE PrintSorted
  BY <1>12, PrintSortedKeeps
<1>13. CASE RefuseNothing
  BY <1>13, RefuseNothingKeeps
<1>14. CASE UNCHANGED all_vars
  BY <1>14, PlanRests
<1> QED BY <1>1, <1>2, <1>3, <1>4, <1>5, <1>6, <1>7, <1>8, <1>9, <1>10, <1>11, <1>12, <1>13,
           <1>14 DEF PlansNext

\* The inductive invariant holds always.
LEMMA PlansInvariance ==
  ASSUME Scans!AllSound
  PROVE  PlansSpec => []PlansInv
BY InitialPlan, PlanStep, PTL DEF PlansSpec

\* Whatever the table, the way its rows are cut into row groups, the
\* statistics, the query, the columns of the sort and the limits: a query that
\* is answered prints what it asks for. A row that is lost in a skipped row
\* group, pulled twice, put into a wrong group, dropped by the queue of the
\* sort or cut off by OFFSET and LIMIT would contradict it. The filters have to
\* be sound, as CompareIsSound and CombinationsAreSound show of what the code
\* builds.
THEOREM AnswersAreExact ==
  ASSUME Scans!AllSound
  PROVE  PlansSpec => []AnswerIsExact
<1>1. PlansInv => AnswerIsExact
  BY DEF PlansInv, StatusInv
<1> QED BY <1>1, PlansInvariance, PTL

\* A query is refused only when no row answers it: an average of no rows, or a
\* sort that nothing reaches.
THEOREM RefusalsAreRight ==
  ASSUME Scans!AllSound
  PROVE  PlansSpec => []RefusedWithoutRowsOnly
<1>1. PlansInv => RefusedWithoutRowsOnly
  BY DEF PlansInv, StatusInv, RefusedWithoutRowsOnly
<1> QED BY <1>1, PlansInvariance, PTL

\* A sort within a plan, behind filters or an aggregation, returns the best of
\* what it pulled.
THEOREM PlansSortBest ==
  ASSUME Scans!AllSound
  PROVE  PlansSpec => []ResultIsBest
<1>1. PlansInv => ResultIsBest
  BY AnswerIsBest DEF PlansInv, SortInv
<1> QED BY <1>1, PlansInvariance, PTL

\* Every plan uses columns of types that its operators accept.
THEOREM PlansFit == PlansSpec => []PlansFitTheScheme
<1>1. PlansInit => query \in QueryIds
  BY DEF PlansInit
<1>2. query \in QueryIds /\ [PlansNext]_all_vars => (query \in QueryIds)'
  <2>1. PlansNext => query' = query
    BY DEF PlansNext, BuildFilter, StartScan, ScanWorks, ScanEnds, AggregationPulls,
           SortPulls, PrintBatch, EndOfLoop, AggregationWorks, SortPullsAnswer,
           PrintAggregates, AggregationEnds, AverageFails, SortWorks, PrintSorted,
           RefuseNothing, plan_vars
  <2>2. UNCHANGED all_vars => query' = query
    BY DEF all_vars, plan_vars
  <2> QED BY <2>1, <2>2
<1>3. query \in QueryIds => PlansFitTheScheme
  BY QueriesFit DEF PlansFitTheScheme
<1> QED BY <1>1, <1>2, <1>3, PTL DEF PlansSpec

=============================================================================

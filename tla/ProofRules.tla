----------------------------- MODULE ProofRules -----------------------------
(***************************************************************************)
(* The rules the proofs of this project need about numbers, folds and sums *)
(* and the library states for an operator given as a parameter only.  Here *)
(* induction is about a set, and a fold or a sum is about the two operator *)
(* constants of this module, which an instance replaces by the operator    *)
(* the model folds with: a lemma is then cited like any other fact.  Op    *)
(* and Val take the parameters their callers need, so that one instance    *)
(* serves all the folds, and all the sums, of a module.                    *)
(*                                                                         *)
(* A proof sees all that its instances bring, so this module extends no    *)
(* more than it must: it takes induction over the natural numbers as a     *)
(* hypothesis, which each module with an instance proves by the library,   *)
(* and it counts the elements of a set by a function of its own.           *)
(***************************************************************************)
EXTENDS Integers, Sequences, Folds

\* Op(e, v, x) is the step of a fold, Val(a, b, x) the summand of x.
CONSTANTS Op(_, _, _), Val(_, _, _)

\* A set of numbers with 0 that is closed under + 1 is all of Nat.
NatInduction ==
  \A S \in SUBSET Nat : 0 \in S /\ (\A n \in S : n + 1 \in S) => S = Nat

-----------------------------------------------------------------------------
\* Every set of numbers that is not empty has a least one.
LEMMA LeastOf ==
  ASSUME NatInduction, NEW T, T \subseteq Nat, T # {}
  PROVE  \E x \in T : \A y \in T : x <= y
<1> SUFFICES ASSUME \A x \in T : \E y \in T : y < x
             PROVE  FALSE
  <2>1. \A x, y \in T : x \in Int /\ y \in Int
    OBVIOUS
  <2> QED BY <2>1
<1> DEFINE S == {k \in Nat : \A x \in T : k <= x}
<1>1. 0 \in S
  OBVIOUS
<1>2. ASSUME NEW k \in S PROVE k + 1 \in S
  <2>1. k \notin T
    OBVIOUS
  <2>2. \A x \in T : k <= x /\ x # k /\ x \in Nat
    BY <2>1
  <2> QED BY <2>2
<1>3. S \in SUBSET Nat
  OBVIOUS
<1> HIDE DEF S
<1>4. S = Nat
  BY <1>1, <1>2, <1>3 DEF NatInduction
<1>5. PICK x : x \in T
  OBVIOUS
<1>6. x + 1 \in S /\ x \in Nat
  BY <1>4, <1>5
<1> QED BY <1>5, <1>6 DEF S

\* Induction up to a bound.
LEMMA UpTo ==
  ASSUME NatInduction, NEW n \in Nat, NEW S, 0 \in S,
         \A i \in 0 .. n - 1 : i \in S => i + 1 \in S
  PROVE  0 .. n \subseteq S
<1> DEFINE P == {i \in Nat : i \in 0 .. n => i \in S}
<1>1. P \in SUBSET Nat /\ 0 \in P
  OBVIOUS
<1>2. ASSUME NEW i \in P PROVE i + 1 \in P
  <2> SUFFICES ASSUME i + 1 \in 0 .. n PROVE i + 1 \in S
    OBVIOUS
  <2>1. i \in 0 .. n - 1
    OBVIOUS
  <2> QED BY <2>1
<1> HIDE DEF P
<1>3. P = Nat
  BY <1>1, <1>2 DEF NatInduction
<1> QED BY <1>3 DEF P

\* The greatest of a set of numbers.
Greatest(S) == CHOOSE x \in S : \A y \in S : x >= y

\* The greatest of a finite set of positive numbers is one of them and not
\* below any of them.
LEMMA GreatestOf ==
  ASSUME NatInduction, NEW n \in Nat, NEW T, T \subseteq 1 .. n, T # {}
  PROVE  Greatest(T) \in T /\ \A y \in T : y <= Greatest(T)
<1> DEFINE U == {n - x : x \in T}
<1>1. PICK u \in U : \A y \in U : u <= y
  <2>1. U \subseteq Nat
    OBVIOUS
  <2>2. U # {}
    <3>1. PICK y : y \in T
      OBVIOUS
    <3>2. n - y \in U
      BY <3>1
    <3> QED BY <3>2
  <2> HIDE DEF U
  <2> QED BY <2>1, <2>2, LeastOf
<1>2. PICK x \in T : u = n - x
  BY <1>1
<1>3. \A y \in T : x >= y
  <2> TAKE y \in T
  <2>1. n - x <= n - y
    BY <1>1, <1>2
  <2> QED BY <2>1
<1>4. Greatest(T) \in T /\ \A y \in T : Greatest(T) >= y
  BY <1>3 DEF Greatest
<1> QED BY <1>4

-----------------------------------------------------------------------------
\* size counts the elements of the sets of numbers up to n.
Counts(size, n) ==
  /\ size \in [SUBSET (1 .. n) -> 0 .. n]
  /\ \A T \in SUBSET (1 .. n) : size[T] = 0 => T = {}
  /\ size[{}] = 0
  /\ \A T \in SUBSET (1 .. n) : \A x \in T : size[T] = size[T \ {x}] + 1

\* There is such a function.
LEMMA SizeExists ==
  ASSUME NatInduction, NEW n \in Nat
  PROVE  \E size : Counts(size, n)
<1> DEFINE S == {k \in Nat : \E size : Counts(size, k)}
<1>1. 0 \in S
  <2>1. SUBSET (1 .. 0) = {{}}
    OBVIOUS
  <2>2. Counts([T \in SUBSET (1 .. 0) |-> 0], 0)
    BY <2>1 DEF Counts
  <2> QED BY <2>2
<1>2. ASSUME NEW k \in S PROVE k + 1 \in S
  <2>0. k \in Nat /\ k + 1 \in Nat
    OBVIOUS
  <2>1. PICK old : Counts(old, k)
    OBVIOUS
  <2> DEFINE last == k + 1
             size == [T \in SUBSET (1 .. last) |->
                        old[T \ {last}] + (IF last \in T THEN 1 ELSE 0)]
  <2>2. \A T \in SUBSET (1 .. last) : T \ {last} \in SUBSET (1 .. k)
    BY <2>0
  <2>3. \A T \in SUBSET (1 .. k) : old[T] \in Nat
    BY <2>1 DEF Counts
  <2>4. /\ \A T \in SUBSET (1 .. k) : old[T] = 0 => T = {}
        /\ old[{}] = 0
        /\ \A T \in SUBSET (1 .. k) : \A x \in T : old[T] = old[T \ {x}] + 1
    BY <2>1 DEF Counts
  <2> HIDE DEF last
  <2>5. size \in [SUBSET (1 .. last) -> 0 .. last]
    <3>1. \A T \in SUBSET (1 .. last) : old[T \ {last}] \in 0 .. k
      BY <2>1, <2>2 DEF Counts
    <3>2. \A T \in SUBSET (1 .. last) :
            old[T \ {last}] + (IF last \in T THEN 1 ELSE 0) \in 0 .. last
      <4> TAKE T \in SUBSET (1 .. last)
      <4> DEFINE o == old[T \ {last}]
      <4>1. o \in 0 .. k
        BY <3>1
      <4> HIDE DEF o
      <4>2. last \in Nat /\ last = k + 1
        BY <2>0 DEF last
      <4>3. o + (IF last \in T THEN 1 ELSE 0) \in 0 .. last
        BY <2>0, <4>1, <4>2
      <4> QED BY <4>3 DEF o
    <3> QED BY <3>2
  <2>6. ASSUME NEW T \in SUBSET (1 .. last), size[T] = 0 PROVE T = {}
    <3>1. old[T \ {last}] + (IF last \in T THEN 1 ELSE 0) = 0
      BY <2>6
    <3>2. last \notin T /\ old[T \ {last}] = 0
      BY <2>2, <2>3, <3>1
    <3> QED BY <2>2, <2>4, <3>2
  <2>7. size[{}] = 0
    <3>1. {} \ {last} = {}
      OBVIOUS
    <3> QED BY <2>4, <3>1
  <2>8. ASSUME NEW T \in SUBSET (1 .. last), NEW x \in T
        PROVE  size[T] = size[T \ {x}] + 1
    <3>0. T \ {x} \in SUBSET (1 .. last)
      OBVIOUS
    <3>1. CASE x = last
      <4>1. (T \ {x}) \ {last} = T \ {last}
        BY <3>1
      <4>2. size[T \ {x}] = old[T \ {last}] + 0
        BY <3>0, <3>1, <4>1
      <4>3. size[T] = old[T \ {last}] + 1
        BY <3>1
      <4>4. old[T \ {last}] \in Nat
        BY <2>2, <2>3
      <4> HIDE DEF size
      <4> QED BY <4>2, <4>3, <4>4
    <3>2. CASE x # last
      <4>1. (T \ {x}) \ {last} = (T \ {last}) \ {x} /\ x \in T \ {last}
        BY <3>2
      <4>2. old[T \ {last}] = old[(T \ {last}) \ {x}] + 1
        BY <2>2, <2>4, <4>1
      <4>3. (T \ {last}) \ {x} \in SUBSET (1 .. k)
        BY <2>2
      <4>4. old[(T \ {last}) \ {x}] \in Nat
        BY <2>3, <4>3
      <4>5. size[T \ {x}] = old[(T \ {last}) \ {x}] + (IF last \in T THEN 1 ELSE 0)
        BY <3>0, <3>2, <4>1
      <4>6. size[T] = old[T \ {last}] + (IF last \in T THEN 1 ELSE 0)
        OBVIOUS
      <4> HIDE DEF size
      <4> QED BY <4>2, <4>4, <4>5, <4>6
    <3> QED BY <3>1, <3>2
  <2> HIDE DEF size
  <2>9. Counts(size, last)
    BY <2>5, <2>6, <2>7, <2>8 DEF Counts
  <2>10. last \in S
    BY <2>0, <2>9 DEF last
  <2> QED BY <2>10 DEF last
<1>3. S \in SUBSET Nat
  OBVIOUS
<1> HIDE DEF S
<1>4. S = Nat
  BY <1>1, <1>2, <1>3 DEF NatInduction
<1> QED BY <1>4 DEF S
-----------------------------------------------------------------------------
\* The fold of s by Op(e, _, _) from base, as FoldLeft evaluates it.
Folded(e, base, s) ==
  MapThenFoldSet(LAMBDA x, v : Op(e, v, x), base, LAMBDA i : s[i],
                 LAMBDA S : Greatest(S), DOMAIN s)

\* F holds the partial results of the fold over s, of length n.
IsTrace(F, e, base, s, n) ==
  /\ DOMAIN F = 0 .. n
  /\ F[0] = base
  /\ \A i \in 1 .. n : F[i] = Op(e, F[i - 1], s[i])
  /\ Folded(e, base, s) = F[n]

\* A fold over a sequence is the last of its partial results, each of which is
\* the one before it and one element more.
LEMMA FoldTrace ==
  ASSUME NatInduction, NEW e, NEW base, NEW n \in Nat, NEW s, DOMAIN s = 1 .. n
  PROVE  \E F : IsTrace(F, e, base, s, n)
<1>0. PICK size : Counts(size, n)
  BY SizeExists
<1> DEFINE D(k) == {T \in SUBSET (1 .. n) : size[T] <= k}
           IsIter(f, d) == f = [T \in d |-> IF T = {} THEN base
                                 ELSE Op(e, f[T \ {Greatest(T)}], s[Greatest(T)])]
<1>1. \A T \in SUBSET (1 .. n) : size[T] \in 0 .. n /\ (size[T] = 0 <=> T = {})
  BY <1>0 DEF Counts
<1>2. \A T \in SUBSET (1 .. n) : T # {} =>
        /\ Greatest(T) \in T /\ T \ {Greatest(T)} \in SUBSET (1 .. n)
        /\ size[T \ {Greatest(T)}] = size[T] - 1
  <2> TAKE T \in SUBSET (1 .. n)
  <2> HAVE T # {}
  <2>1. Greatest(T) \in T
    BY GreatestOf
  <2>2. size[T] = size[T \ {Greatest(T)}] + 1
    BY <1>0, <2>1 DEF Counts
  <2>3. T \ {Greatest(T)} \in SUBSET (1 .. n)
    OBVIOUS
  <2>4. size[T \ {Greatest(T)}] \in Nat
    BY <1>1, <2>3
  <2> QED BY <2>1, <2>2, <2>3, <2>4
<1>3. \A k \in Nat : \E f : IsIter(f, D(k))
  <2> DEFINE S == {k \in Nat : \E f : IsIter(f, D(k))}
  <2>1. 0 \in S
    <3>1. D(0) = {{}}
      BY <1>1
    <3>2. IsIter([T \in D(0) |-> base], D(0))
      BY <3>1
    <3> QED BY <3>2
  <2>2. ASSUME NEW k \in S PROVE k + 1 \in S
    <3>1. PICK f : IsIter(f, D(k))
      OBVIOUS
    <3> DEFINE g == [T \in D(k + 1) |-> IF T = {} THEN base
                                 ELSE Op(e, f[T \ {Greatest(T)}], s[Greatest(T)])]
    <3>2. \A T \in D(k) : g[T] = f[T]
      <4> TAKE T \in D(k)
      <4>1. T \in D(k + 1)
        BY <1>1
      <4>2. f[T] = IF T = {} THEN base ELSE Op(e, f[T \ {Greatest(T)}], s[Greatest(T)])
        BY <3>1
      <4> QED BY <4>1, <4>2
    <3>3. \A T \in D(k + 1) : T # {} => T \ {Greatest(T)} \in D(k)
      <4> TAKE T \in D(k + 1)
      <4> HAVE T # {}
      <4>1. T \in SUBSET (1 .. n) /\ size[T] <= k + 1 /\ k \in Nat
        OBVIOUS
      <4>2. size[T \ {Greatest(T)}] = size[T] - 1 /\ size[T] \in 0 .. n
        BY <1>1, <1>2, <4>1
      <4>3. size[T \ {Greatest(T)}] <= k
        BY <4>1, <4>2
      <4> QED BY <1>2, <4>1, <4>3
    <3>4. IsIter(g, D(k + 1))
      BY <3>2, <3>3
    <3>5. \E h : IsIter(h, D(k + 1))
      <4> HIDE DEF g, D, IsIter
      <4> QED BY <3>4
    <3>6. k + 1 \in Nat
      OBVIOUS
    <3> HIDE DEF IsIter, D, g
    <3> QED BY <3>5, <3>6
  <2>4. S \in SUBSET Nat
    OBVIOUS
  <2> HIDE DEF S
  <2>3. S = Nat
    BY <2>1, <2>2, <2>4 DEF NatInduction
  <2> QED BY <2>3 DEF S
<1>4. D(n) = SUBSET (1 .. n)
  BY <1>1
<1>5. \E f : IsIter(f, SUBSET (1 .. n))
  BY <1>3, <1>4
<1> DEFINE iter == CHOOSE f : IsIter(f, SUBSET (1 .. n))
<1>6. IsIter(iter, SUBSET (1 .. n))
  BY <1>5
<1>7. Folded(e, base, s) = iter[1 .. n]
  BY DEF Folded, MapThenFoldSet
<1> HIDE DEF iter
<1> DEFINE F == [i \in 0 .. n |-> iter[1 .. i]]
<1>8. F[0] = base
  BY <1>6
<1>9. ASSUME NEW i \in 1 .. n PROVE F[i] = Op(e, F[i - 1], s[i])
  <2>0. i \in 1 .. i /\ i \in Nat
    OBVIOUS
  <2>1. Greatest(1 .. i) = i
    <3>1. Greatest(1 .. i) \in 1 .. i /\ i <= Greatest(1 .. i)
      BY <2>0, GreatestOf
    <3> QED BY <3>1
  <2>2. 1 .. i # {} /\ 1 .. i \in SUBSET (1 .. n)
    BY <2>0
  <2>4. (1 .. i) \ {i} = 1 .. (i - 1)
    OBVIOUS
  <2>5. F[i] = iter[1 .. i] /\ F[i - 1] = iter[1 .. (i - 1)]
    OBVIOUS
  <2>3. iter[1 .. i] = Op(e, iter[(1 .. i) \ {Greatest(1 .. i)}], s[Greatest(1 .. i)])
    BY <1>6, <2>2
  <2> HIDE DEF F
  <2> QED BY <2>1, <2>3, <2>4, <2>5
<1>10. DOMAIN F = 0 .. n /\ F[n] = iter[1 .. n]
  <2>1. n \in 0 .. n
    OBVIOUS
  <2> QED BY <2>1
<1> HIDE DEF F
<1>11. Folded(e, base, s) = F[n]
  BY <1>7, <1>10
<1>12. IsTrace(F, e, base, s, n)
  BY <1>8, <1>9, <1>10, <1>11 DEF IsTrace
<1> QED BY <1>12

-----------------------------------------------------------------------------
\* Induction over the subsets of a finite set, one element at a time.
LEMMA SubsetInduction ==
  ASSUME NatInduction, NEW n \in Nat, NEW U \in SUBSET (1 .. n), NEW P, {} \in P,
         \A T \in SUBSET U : T \in P => \A x \in U \ T : T \cup {x} \in P
  PROVE  \A T \in SUBSET U : T \in P
<1>0. PICK size : Counts(size, n)
  BY SizeExists
<1> DEFINE S == {k \in Nat : \A T \in SUBSET U : size[T] = k => T \in P}
<1>1. \A T \in SUBSET U : size[T] \in 0 .. n /\ (size[T] = 0 <=> T = {})
  <2>1. \A T \in SUBSET U : T \in SUBSET (1 .. n)
    OBVIOUS
  <2> QED BY <1>0, <2>1 DEF Counts
<1>2. 0 \in S
  BY <1>1
<1>3. ASSUME NEW k \in S PROVE k + 1 \in S
  <2> SUFFICES ASSUME NEW T \in SUBSET U, size[T] = k + 1
               PROVE  T \in P
    OBVIOUS
  <2>1. PICK x : x \in T
    BY <1>1
  <2>2. size[T \ {x}] = k
    <3>1. size[T] = size[T \ {x}] + 1
      <4>1. T \in SUBSET (1 .. n)
        OBVIOUS
      <4> QED BY <1>0, <2>1, <4>1 DEF Counts
    <3>2. size[T \ {x}] \in 0 .. n
      BY <1>1
    <3> QED BY <3>1, <3>2
  <2>3. T \ {x} \in P
    BY <2>2
  <2>4. T = (T \ {x}) \cup {x} /\ x \in U \ (T \ {x}) /\ T \ {x} \in SUBSET U
    BY <2>1
  <2>5. (T \ {x}) \cup {x} \in P
    BY <2>3, <2>4
  <2> QED BY <2>4, <2>5
<1>4. S \in SUBSET Nat
  OBVIOUS
<1> HIDE DEF S
<1>5. S = Nat
  BY <1>2, <1>3, <1>4 DEF NatInduction
<1> QED BY <1>1, <1>5 DEF S

-----------------------------------------------------------------------------
\* The sum of Val(a, b, _) over S.
SumOver(a, b, S) ==
  MapThenFoldSet(LAMBDA x, y : x + y, 0, LAMBDA x : Val(a, b, x),
                 LAMBDA T : CHOOSE x \in T : TRUE, S)

\* I holds the sums over the subsets of S.
IsSumTrace(I, a, b, S) ==
  /\ I \in [SUBSET S -> Int]
  /\ I[{}] = 0
  /\ \A T \in SUBSET S : \A x \in T : I[T] = Val(a, b, x) + I[T \ {x}]
  /\ SumOver(a, b, S) = I[S]

\* A sum over a finite set has its partial sums: the sum of a subset is the sum
\* without any one of its elements and that element.
LEMMA SumTrace ==
  ASSUME NatInduction, NEW a, NEW b, NEW n \in Nat, NEW S \in SUBSET (1 .. n),
         \A x \in S : Val(a, b, x) \in Int
  PROVE  \E I : IsSumTrace(I, a, b, S)
<1>0. PICK size : Counts(size, n)
  BY SizeExists
<1> DEFINE D(k) == {T \in SUBSET S : size[T] <= k}
           Some(T) == CHOOSE x \in T : TRUE
           IsIter(f, d) == f = [T \in d |-> IF T = {} THEN 0
                                 ELSE Val(a, b, Some(T)) + f[T \ {Some(T)}]]
<1>1. \A T \in SUBSET S : size[T] \in 0 .. n /\ (size[T] = 0 <=> T = {})
  <2>1. \A T \in SUBSET S : T \in SUBSET (1 .. n)
    OBVIOUS
  <2> QED BY <1>0, <2>1 DEF Counts
<1> DEFINE Smaller(T) == \A x \in T : size[T \ {x}] = size[T] - 1
<1>14. \A T \in SUBSET S : Smaller(T)
  <2> TAKE T \in SUBSET S
  <2> SUFFICES ASSUME NEW x \in T PROVE size[T \ {x}] = size[T] - 1
    OBVIOUS
  <2>1. T \in SUBSET (1 .. n)
    OBVIOUS
  <2>2. size[T] = size[T \ {x}] + 1
    BY <1>0, <2>1 DEF Counts
  <2>3. size[T \ {x}] \in 0 .. n
    BY <1>1
  <2> QED BY <2>2, <2>3
<1>2. \A T \in SUBSET S : T # {} =>
        /\ Some(T) \in T /\ T \ {Some(T)} \in SUBSET S
        /\ size[T \ {Some(T)}] = size[T] - 1
  <2> TAKE T \in SUBSET S
  <2> HAVE T # {}
  <2>1. Some(T) \in T
    OBVIOUS
  <2> HIDE DEF Some
  <2> QED BY <1>14, <2>1
<1> HIDE DEF Some, Smaller
<1>3. \A k \in Nat : \E f : IsIter(f, D(k))
  <2> DEFINE K == {k \in Nat : \E f : IsIter(f, D(k))}
  <2>1. 0 \in K
    <3>1. D(0) = {{}}
      <4>1. {} \in D(0)
        BY <1>1
      <4>2. ASSUME NEW T \in D(0) PROVE T = {}
        BY <1>1
      <4> HIDE DEF D
      <4> QED BY <4>1, <4>2
    <3>2. IsIter([T \in D(0) |-> 0], D(0))
      BY <3>1
    <3> QED BY <3>2
  <2>2. ASSUME NEW k \in K PROVE k + 1 \in K
    <3>1. PICK f : IsIter(f, D(k))
      OBVIOUS
    <3> DEFINE g == [T \in D(k + 1) |-> IF T = {} THEN 0
                                 ELSE Val(a, b, Some(T)) + f[T \ {Some(T)}]]
    <3>2. \A T \in D(k) : g[T] = f[T]
      <4> TAKE T \in D(k)
      <4>1. T \in D(k + 1)
        BY <1>1
      <4>2. f[T] = IF T = {} THEN 0 ELSE Val(a, b, Some(T)) + f[T \ {Some(T)}]
        BY <3>1
      <4> QED BY <4>1, <4>2
    <3>3. \A T \in D(k + 1) : T # {} => T \ {Some(T)} \in D(k)
      <4> TAKE T \in D(k + 1)
      <4> HAVE T # {}
      <4>1. T \in SUBSET S /\ size[T] <= k + 1 /\ k \in Nat
        OBVIOUS
      <4>2. size[T \ {Some(T)}] = size[T] - 1 /\ size[T] \in 0 .. n
        BY <1>1, <1>2, <4>1
      <4>3. size[T \ {Some(T)}] <= k
        BY <4>1, <4>2
      <4> QED BY <1>2, <4>1, <4>3
    <3>4. IsIter(g, D(k + 1))
      BY <3>2, <3>3
    <3>5. \E h : IsIter(h, D(k + 1))
      <4> HIDE DEF g, D, IsIter
      <4> QED BY <3>4
    <3>6. k + 1 \in Nat
      OBVIOUS
    <3> HIDE DEF IsIter, D, g
    <3> QED BY <3>5, <3>6
  <2>3. K \in SUBSET Nat
    OBVIOUS
  <2> HIDE DEF K
  <2>4. K = Nat
    BY <2>1, <2>2, <2>3 DEF NatInduction
  <2> QED BY <2>4 DEF K
<1>4. \E f : IsIter(f, SUBSET S)
  <2>1. D(n) = SUBSET S
    BY <1>1
  <2> HIDE DEF D, IsIter
  <2> QED BY <1>3, <2>1
<1> DEFINE I == CHOOSE f : IsIter(f, SUBSET S)
<1>5. IsIter(I, SUBSET S)
  BY <1>4
<1>6. SumOver(a, b, S) = I[S]
  BY DEF SumOver, MapThenFoldSet, Some
<1> HIDE DEF I
<1>7. I[{}] = 0
  BY <1>5
<1>8. \A T \in SUBSET S : T # {} => I[T] = Val(a, b, Some(T)) + I[T \ {Some(T)}]
  BY <1>5
<1> HIDE DEF IsIter, D
<1> DEFINE P == {T \in SUBSET S : I[T] \in Int /\
                   \A x \in T : I[T] = Val(a, b, x) + I[T \ {x}]}
<1>9. \A T \in SUBSET S : T \in P
  <2> DEFINE Q(k) == \A T \in SUBSET S : size[T] <= k => T \in P
             K == {k \in Nat : Q(k)}
  <2>1. 0 \in K
    <3>1. ASSUME NEW T \in SUBSET S, size[T] <= 0 PROVE T = {}
      <4>1. size[T] = 0
        BY <1>1, <3>1
      <4> QED BY <1>1, <4>1
    <3>2. {} \in P
      BY <1>7
    <3> HIDE DEF P
    <3>3. Q(0)
      BY <3>1, <3>2
    <3> QED BY <3>3
  <2>2. ASSUME NEW k \in K PROVE k + 1 \in K
    <3> SUFFICES ASSUME NEW T \in SUBSET S, size[T] <= k + 1
                 PROVE  T \in P
      OBVIOUS
    <3> HIDE DEF Q
    <3>0. CASE T = {}
      BY <1>7, <3>0
    <3>1. CASE T # {}
      <4> DEFINE y == Some(T)
      <4>0. \A U \in SUBSET S : size[U] <= k => U \in P
        BY DEF Q
      <4>1. y \in T /\ T \ {y} \in SUBSET S /\ size[T \ {y}] <= k
        <5>1. y \in T /\ T \ {y} \in SUBSET S /\ size[T \ {y}] = size[T] - 1
          BY <1>2, <3>1
        <5>2. size[T] \in 0 .. n /\ k \in Nat
          BY <1>1
        <5> HIDE DEF y
        <5> QED BY <5>1, <5>2
      <4>2. T \ {y} \in P
        BY <4>0, <4>1
      <4>3. I[T] = Val(a, b, y) + I[T \ {y}]
        BY <1>8, <3>1
      <4>4. I[T \ {y}] \in Int /\ I[T] \in Int
        <5>1. I[T \ {y}] \in Int
          BY <4>2
        <5>2. Val(a, b, y) \in Int
          BY <4>1
        <5> HIDE DEF y
        <5> QED BY <4>3, <5>1, <5>2
      <4> HIDE DEF y
      <4>5. ASSUME NEW x \in T, x # y
            PROVE  I[T] = Val(a, b, x) + I[T \ {x}]
        <5>1. T \ {x} \in SUBSET S /\ y \in T \ {x} /\ x \in T \ {y}
          BY <4>1, <4>5
        <5>2. size[T \ {x}] <= k
          <6>1. size[T \ {x}] = size[T] - 1 /\ size[T] \in 0 .. n
            BY <1>1, <1>14 DEF Smaller
          <6> QED BY <6>1
        <5>3. T \ {x} \in P
          BY <4>0, <5>1, <5>2
        <5>4. I[T \ {x}] = Val(a, b, y) + I[(T \ {x}) \ {y}]
          BY <5>1, <5>3
        <5>5. I[T \ {y}] = Val(a, b, x) + I[(T \ {y}) \ {x}]
          BY <4>2, <5>1
        <5>6. (T \ {x}) \ {y} = (T \ {y}) \ {x}
          OBVIOUS
        <5>7. /\ Val(a, b, x) \in Int /\ Val(a, b, y) \in Int
              /\ I[T \ {x}] \in Int
          BY <4>1, <5>3
        <5>8. (T \ {x}) \ {y} \in P
          <6>1. (T \ {x}) \ {y} \in SUBSET S
            OBVIOUS
          <6>2. size[(T \ {x}) \ {y}] <= k
            <7>1. size[(T \ {x}) \ {y}] = size[T \ {x}] - 1
              BY <1>14, <5>1 DEF Smaller
            <7>2. size[T \ {x}] \in Nat /\ k \in Nat
              BY <1>1, <5>1
            <7> QED BY <5>2, <7>1, <7>2
          <6> QED BY <4>0, <6>1, <6>2
        <5>9. I[(T \ {x}) \ {y}] \in Int
          BY <5>8
        <5> DEFINE w == I[(T \ {x}) \ {y}]
        <5>10. /\ I[T] = Val(a, b, y) + I[T \ {y}] /\ I[T \ {y}] = Val(a, b, x) + w
               /\ I[T \ {x}] = Val(a, b, y) + w
          BY <4>3, <5>4, <5>5, <5>6
        <5>11. w \in Int
          BY <5>9
        <5> HIDE DEF w
        <5> QED BY <5>7, <5>10, <5>11
      <4> QED BY <4>3, <4>4, <4>5
    <3> QED BY <3>0, <3>1
  <2>3. K \in SUBSET Nat
    OBVIOUS
  <2> HIDE DEF K
  <2>4. K = Nat
    BY <2>1, <2>2, <2>3 DEF NatInduction
  <2>5. n \in K
    BY <2>4
  <2> QED BY <1>1, <2>5 DEF K
<1>10. DOMAIN I = SUBSET S
  BY <1>5 DEF IsIter
<1>11. I \in [SUBSET S -> Int]
  <2>1. I = [T \in SUBSET S |-> I[T]]
    BY <1>5, <1>10 DEF IsIter
  <2>2. \A T \in SUBSET S : I[T] \in Int
    BY <1>9
  <2> HIDE DEF P
  <2> QED BY <2>1, <2>2
<1>12. \A T \in SUBSET S : \A x \in T : I[T] = Val(a, b, x) + I[T \ {x}]
  BY <1>9
<1>13. IsSumTrace(I, a, b, S)
  BY <1>6, <1>7, <1>11, <1>12 DEF IsSumTrace
<1> QED BY <1>13

\* Nothing sums to 0.
LEMMA SumEmpty ==
  ASSUME NatInduction, NEW a, NEW b
  PROVE  SumOver(a, b, {}) = 0
<1>1. {} \in SUBSET (1 .. 0) /\ 0 \in Nat
  OBVIOUS
<1>2. PICK I : IsSumTrace(I, a, b, {})
  BY <1>1, SumTrace
<1> QED BY <1>2 DEF IsSumTrace

\* The sum of integers is an integer.
LEMMA SumType ==
  ASSUME NatInduction, NEW a, NEW b, NEW n \in Nat, NEW S \in SUBSET (1 .. n),
         \A x \in S : Val(a, b, x) \in Int
  PROVE  SumOver(a, b, S) \in Int
<1>1. PICK I : IsSumTrace(I, a, b, S)
  BY SumTrace
<1> QED BY <1>1 DEF IsSumTrace

\* The sum of natural numbers is one.
LEMMA SumNat ==
  ASSUME NatInduction, NEW a, NEW b, NEW n \in Nat, NEW S \in SUBSET (1 .. n),
         \A x \in S : Val(a, b, x) \in Nat
  PROVE  SumOver(a, b, S) \in Nat
<1>1. PICK I : IsSumTrace(I, a, b, S)
  <2>1. \A x \in S : Val(a, b, x) \in Int
    OBVIOUS
  <2> QED BY <2>1, SumTrace
<1> DEFINE P == {T \in SUBSET S : I[T] \in Nat}
<1>2. {} \in P
  BY <1>1 DEF IsSumTrace
<1>3. ASSUME NEW T \in SUBSET S, T \in P, NEW x \in S \ T PROVE T \cup {x} \in P
  <2>1. T \cup {x} \in SUBSET S /\ (T \cup {x}) \ {x} = T /\ x \in T \cup {x}
    BY <1>3
  <2>2. I[T \cup {x}] = Val(a, b, x) + I[T]
    BY <1>1, <2>1 DEF IsSumTrace
  <2>3. I[T] \in Nat /\ Val(a, b, x) \in Nat
    BY <1>3
  <2> QED BY <2>1, <2>2, <2>3
<1> HIDE DEF P
<1>4. S \in P
  BY <1>2, <1>3, SubsetInduction
<1> QED BY <1>1, <1>4 DEF P, IsSumTrace

\* The summands of S are the same integers for a, b and for c, d.
SameValues(a, b, c, d, S) ==
  \A x \in S : Val(a, b, x) \in Int /\ Val(a, b, x) = Val(c, d, x)

\* S is a set of positions of some sequence.
Bounded(S) == \E n \in Nat : S \in SUBSET (1 .. n)

\* Two traces of the same summands agree on what both are about.
LEMMA SumAgree ==
  ASSUME NatInduction, NEW a, NEW b, NEW c, NEW d, NEW I, NEW J, NEW S, NEW V,
         NEW U, Bounded(U), U \subseteq S, U \subseteq V,
         IsSumTrace(I, a, b, S), IsSumTrace(J, c, d, V),
         SameValues(a, b, c, d, U)
  PROVE  I[U] = J[U]
<1>0. PICK n \in Nat : U \in SUBSET (1 .. n)
  BY DEF Bounded
<1> DEFINE P == {T \in SUBSET U : I[T] = J[T]}
<1>1. {} \in P
  BY DEF IsSumTrace
<1>2. ASSUME NEW T \in SUBSET U, T \in P, NEW x \in U \ T
      PROVE  T \cup {x} \in P
  <2>1. I[T \cup {x}] = Val(a, b, x) + I[(T \cup {x}) \ {x}]
    <3>1. T \cup {x} \in SUBSET S /\ x \in T \cup {x}
      OBVIOUS
    <3> QED BY <3>1 DEF IsSumTrace
  <2>2. J[T \cup {x}] = Val(c, d, x) + J[(T \cup {x}) \ {x}]
    <3>1. T \cup {x} \in SUBSET V /\ x \in T \cup {x}
      OBVIOUS
    <3> QED BY <3>1 DEF IsSumTrace
  <2>3. (T \cup {x}) \ {x} = T
    OBVIOUS
  <2> QED BY <1>2, <2>1, <2>2, <2>3 DEF SameValues
<1> HIDE DEF P
<1>3. U \in P
  BY <1>0, <1>1, <1>2, SubsetInduction
<1> QED BY <1>3 DEF P

\* One element more adds its summand.
LEMMA SumAdd ==
  ASSUME NatInduction, NEW a, NEW b, NEW n \in Nat, NEW S \in SUBSET (1 .. n),
         NEW x \in (1 .. n) \ S, \A y \in S \cup {x} : Val(a, b, y) \in Int
  PROVE  SumOver(a, b, S \cup {x}) = SumOver(a, b, S) + Val(a, b, x)
<1>1. S \cup {x} \in SUBSET (1 .. n)
  OBVIOUS
<1>2. PICK I : IsSumTrace(I, a, b, S)
  BY SumTrace
<1>3. PICK J : IsSumTrace(J, a, b, S \cup {x})
  BY <1>1, SumTrace
<1>4. I[S] = J[S]
  <2>1. SameValues(a, b, a, b, S)
    BY DEF SameValues
  <2>2. Bounded(S) /\ S \subseteq S /\ S \subseteq S \cup {x}
    BY DEF Bounded
  <2> QED BY <1>2, <1>3, <2>1, <2>2, SumAgree
<1>5. J[S \cup {x}] = Val(a, b, x) + J[(S \cup {x}) \ {x}]
  BY <1>3 DEF IsSumTrace
<1>6. (S \cup {x}) \ {x} = S /\ I[S] \in Int /\ Val(a, b, x) \in Int
  BY <1>2 DEF IsSumTrace
<1>7. SumOver(a, b, S) = I[S] /\ SumOver(a, b, S \cup {x}) = J[S \cup {x}]
  BY <1>2, <1>3 DEF IsSumTrace
<1>8. J[S \cup {x}] = Val(a, b, x) + I[S]
  BY <1>4, <1>5, <1>6
<1> DEFINE v == Val(a, b, x)  sum == J[S \cup {x}]  old == I[S]
<1>9. sum = old + v
  <2>1. sum = v + old /\ v \in Int /\ old \in Int
    BY <1>6, <1>8
  <2> HIDE DEF v, sum, old
  <2> QED BY <2>1
<1> QED BY <1>7, <1>9

\* The same summands have the same sum.
LEMMA SumSame ==
  ASSUME NatInduction, NEW a, NEW b, NEW c, NEW d, NEW S, Bounded(S),
         SameValues(a, b, c, d, S)
  PROVE  SumOver(a, b, S) = SumOver(c, d, S)
<1>0. PICK n \in Nat : S \in SUBSET (1 .. n)
  BY DEF Bounded
<1>5. \A x \in S : Val(a, b, x) \in Int /\ Val(c, d, x) \in Int
  BY DEF SameValues
<1>1. PICK I : IsSumTrace(I, a, b, S)
  BY <1>0, <1>5, SumTrace
<1>2. PICK J : IsSumTrace(J, c, d, S)
  BY <1>0, <1>5, SumTrace
<1>3. I[S] = J[S]
  <2>1. S \subseteq S
    OBVIOUS
  <2> QED BY <1>1, <1>2, <2>1, SumAgree
<1>4. SumOver(a, b, S) = I[S] /\ SumOver(c, d, S) = J[S]
  BY <1>1, <1>2 DEF IsSumTrace
<1> QED BY <1>3, <1>4

-----------------------------------------------------------------------------
\* What \div and % are, as one fact.
LEMMA DivMod ==
  ASSUME NEW x \in Int, NEW m \in Nat \ {0}
  PROVE  /\ x = m * (x \div m) + (x % m)
         /\ x % m \in 0 .. m - 1
         /\ x \div m \in Int
OBVIOUS

\* A multiple of m less than m away from 0 is 0.
LEMMA Small ==
  ASSUME NEW q \in Int, NEW m \in Nat \ {0}, m * q < m, -m < m * q
  PROVE  q = 0
<1>1. CASE q >= 1
  <2>1. m * q >= m * 1
    BY <1>1
  <2> QED BY <2>1
<1>2. CASE q <= -1
  <2>1. m * q <= m * (-1)
    BY <1>2
  <2> QED BY <2>1
<1> QED BY <1>1, <1>2

\* The quotient and the rest of a number are the only ones.
LEMMA ModUnique ==
  ASSUME NEW m \in Nat \ {0}, NEW q \in Int, NEW r \in 0 .. m - 1
  PROVE  (m * q + r) % m = r /\ (m * q + r) \div m = q
<1> DEFINE x == m * q + r  a == x \div m  b == x % m  d == a - q
<1>1. x \in Int /\ m * q \in Int
  OBVIOUS
<1>2. x = m * a + b /\ b \in 0 .. m - 1 /\ a \in Int
  BY <1>1, DivMod
<1>3. m * d = m * a - m * q /\ m * a \in Int /\ m * d \in Int /\ d \in Int
  BY <1>2
<1>4. x = m * q + r
  OBVIOUS
<1> HIDE DEF x, a, b, d
<1>5. m * d = r - b
  BY <1>1, <1>2, <1>3, <1>4
<1>6. m * d < m /\ -m < m * d
  BY <1>2, <1>5
<1>7. d = 0
  BY <1>3, <1>6, Small
<1>8. a = q /\ b = r
  BY <1>2, <1>3, <1>5, <1>7 DEF d
<1> QED BY <1>8 DEF x, a, b

\* Congruent numbers less than m apart are equal.
LEMMA Congruent ==
  ASSUME NEW m \in Nat \ {0}, NEW a \in Int, NEW b \in Int, (a - b) % m = 0,
         a - b < m, -m < a - b
  PROVE  a = b
<1>1. a - b = m * ((a - b) \div m) + 0 /\ (a - b) \div m \in Int
  BY DivMod
<1>2. (a - b) \div m = 0
  <2> DEFINE q == (a - b) \div m
  <2>1. m * q < m /\ -m < m * q /\ q \in Int
    BY <1>1
  <2> HIDE DEF q
  <2>2. q = 0
    BY <2>1, Small
  <2> QED BY <2>2 DEF q
<1> QED BY <1>1, <1>2

\* Numbers congruent to the same number are congruent.
LEMMA SameRest ==
  ASSUME NEW m \in Nat \ {0}, NEW a \in Int, NEW b \in Int, NEW s \in Int,
         (a - s) % m = 0, (b - s) % m = 0
  PROVE (a - b) % m = 0
<1> DEFINE p == (a - s) \div m  q == (b - s) \div m
<1>1. a - s = m * p /\ p \in Int /\ b - s = m * q /\ q \in Int
  <2>1. a - s = m * p + 0 /\ p \in Int /\ b - s = m * q + 0 /\ q \in Int
    BY DivMod
  <2> HIDE DEF p, q
  <2> QED BY <2>1
<1> HIDE DEF p, q
<1>2. a - b = m * (p - q) + 0 /\ p - q \in Int
  <2>1. m * (p - q) = m * p - m * q
    BY <1>1
  <2> QED BY <1>1, <2>1
<1> DEFINE d == p - q
<1>3. d \in Int /\ 0 \in 0 .. m - 1 /\ a - b = m * d + 0
  BY <1>2
<1> HIDE DEF d
<1>4. (m * d + 0) % m = 0
  BY <1>3, ModUnique
<1> QED BY <1>3, <1>4

\* Wrapping v to a signed word of 2 * h values gives a number of that word,
\* congruent to v.
LEMMA CastRule ==
  ASSUME NEW h \in Nat \ {0}, NEW v \in Int
  PROVE  /\ ((v + h) % (2 * h)) - h \in -h .. h - 1
         /\ (((v + h) % (2 * h)) - h - v) % (2 * h) = 0
<1> DEFINE m == 2 * h  b == (v + h) % m  a == (v + h) \div m  d == -a
<1>1. m \in Nat \ {0} /\ v + h \in Int
  OBVIOUS
<1> HIDE DEF m
<1> DEFINE x == v + h
<1>2. v + h = m * a + b /\ b \in 0 .. m - 1 /\ a \in Int /\ d \in Int
  <2>1. x = m * (x \div m) + (x % m) /\ x % m \in 0 .. m - 1 /\ x \div m \in Int
    <3> HIDE DEF x
    <3> QED BY <1>1, DivMod DEF x
  <2> QED BY <2>1
<1>3. b \in 0 .. 2 * h - 1
  BY <1>2 DEF m
<1>4. m * d = -(m * a) /\ m * a \in Int
  BY <1>1, <1>2
<1> HIDE DEF a, b, d
<1>5. b - h - v = m * d + 0 /\ 0 \in 0 .. m - 1
  BY <1>1, <1>2, <1>4
<1>6. (m * d + 0) % m = 0
  BY <1>1, <1>2, <1>5, ModUnique
<1> QED BY <1>3, <1>5, <1>6 DEF b, m

=============================================================================

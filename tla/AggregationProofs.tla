------------------------- MODULE AggregationProofs -------------------------
(***************************************************************************)
(* Proofs about GROUP BY and about totals, for every input, every list of  *)
(* operations and every hash that Hash may be: its definition is never     *)
(* used.  A row goes to the group whose name has the hash of its own key,  *)
(* and no two groups have names of the same hash; where a hash stands for  *)
(* one key only, this is the group of the key itself.  Each accumulator    *)
(* holds what its operation makes of the cells of its group read so far,   *)
(* which is what makes the answer exact in the end.                        *)
(***************************************************************************)
EXTENDS Aggregation, SequenceTheorems, FiniteSetTheorems, WellFoundedInduction,
        TLAPS

\* The folds of a batch of cells, and the sum of the cells k of some rows.
Rules == INSTANCE ProofRules
  WITH Op <- LAMBDA op, x, y : IF op = "SUM" THEN x + y ELSE Better(op, x, y),
       Val <- LAMBDA r, k, n : r[n].values[k]

\* Induction over the natural numbers, from the well-founded order of them.
LEMMA Induct == Rules!NatInduction
<1> SUFFICES ASSUME NEW S \in SUBSET Nat, 0 \in S, \A n \in S : n + 1 \in S
             PROVE  S = Nat
  BY DEF Rules!NatInduction
<1> SUFFICES ASSUME Nat \ S # {} PROVE FALSE
  OBVIOUS
<1>1. \E R : /\ IsWellFoundedOn(R, Nat)
             /\ \A m, n \in Nat : m < n => <<m, n>> \in R
  <2>1. \A m, n \in Nat : m < n => <<m, n>> \in OpToRel(<, Nat)
    BY DEF OpToRel
  <2> QED BY <2>1, NatLessThanWellFounded, Zenon
<1>2. PICK R : /\ IsWellFoundedOn(R, Nat)
               /\ \A m, n \in Nat : m < n => <<m, n>> \in R
  BY <1>1
<1>3. PICK x \in Nat \ S : \A y \in Nat \ S : ~ (<<y, x>> \in R)
  <2>1. IsWellFoundedOn(R, Nat)
    BY <1>2
  <2> QED BY <2>1, WFMin, Zenon
<1>4. x # 0 /\ x - 1 \in Nat /\ x - 1 < x
  BY <1>3
<1>5. x - 1 \in S
  BY <1>2, <1>3, <1>4
<1>6. (x - 1) + 1 = x
  BY <1>3
<1> QED BY <1>3, <1>5, <1>6

-----------------------------------------------------------------------------
Groups == 1 .. Len(group_name)

\* The map knows the group of each hash, and each group is known.
MapInv ==
  /\ \A e \in hash_to_group_id : e.hash = Hash(group_name[e.id])
  /\ \A g \in Groups : \E e \in hash_to_group_id : e.hash = Hash(group_name[g])

\* A group takes its name from one of its rows.
NamesInv == \A g \in Groups : \E m \in 1 .. read : group_name[g] = rows[m].key

\* The rows of a group are those with the hash of its name, and every row has
\* its group.
MembersInv ==
  /\ \A m \in 1 .. read : \A g \in Groups :
       m \in members[g] <=> Hash(rows[m].key) = Hash(group_name[g])
  /\ \A m \in 1 .. read : \E g \in Groups : m \in members[g]

DistinctInv ==
  \A g, h \in Groups : Hash(group_name[g]) = Hash(group_name[h]) => g = h

GroupInv ==
  IF grouped THEN MapInv /\ NamesInv /\ MembersInv /\ DistinctInv
             ELSE Len(group_name) = 1

IInv == TypeOK /\ GroupInv

-----------------------------------------------------------------------------
LEMMA InitInv == Init => IInv
<1> USE AggregationAssumption
<1> SUFFICES ASSUME Init
             PROVE  IInv
  OBVIOUS
<1>1. input \in Seq(Batch) /\ rows \in Batch
  BY DEF Init, Batch
<1>2. CASE grouped
  <2>1. TypeOK
    BY <1>1, <1>2 DEF Init, TypeOK
  <2>2. GroupInv
    BY <1>2 DEF Init, GroupInv, MapInv, NamesInv, MembersInv, DistinctInv, Groups
  <2> QED BY <2>1, <2>2 DEF IInv
<1>3. CASE ~grouped
  <2>1. group_name = <<<<>>>> /\ members = <<{}>>
    BY <1>3 DEF Init
  <2>2. /\ group_name \in Seq(Seq(Cell)) /\ Len(group_name) = 1
        /\ members \in Seq(SUBSET (1 .. 0)) /\ Len(members) = 1
    BY <2>1
  <2>3. TypeOK
    BY <1>1, <2>2 DEF Init, TypeOK
  <2> QED BY <1>3, <2>2, <2>3 DEF IInv, GroupInv
<1> QED BY <1>2, <1>3 DEF Init

LEMMA PullBatchInv == IInv /\ PullBatch => IInv'
<1> USE AggregationAssumption
<1> SUFFICES ASSUME IInv, PullBatch
             PROVE  IInv'
  OBVIOUS
<1> USE DEF groups
<1>1. /\ Head(input) \in Batch
      /\ input' \in Seq(Batch)
  BY DEF IInv, TypeOK, PullBatch
<1>2. /\ rows' \in Batch
      /\ Len(rows) <= Len(rows')
      /\ \A m \in 1 .. Len(rows) : rows'[m] = rows[m]
  BY <1>1 DEF IInv, TypeOK, PullBatch, Batch
<1>3. TypeOK'
  BY <1>1, <1>2 DEF IInv, TypeOK, PullBatch
<1>4. GroupInv'
  BY <1>2 DEF IInv, TypeOK, PullBatch, GroupInv, MapInv, NamesInv, MembersInv,
              DistinctInv, Groups
<1> QED BY <1>3, <1>4 DEF IInv

LEMMA NewGroupInv == IInv /\ NewGroup => IInv'
<1> USE AggregationAssumption
<1> SUFFICES ASSUME IInv, NewGroup
             PROVE  IInv'
  OBVIOUS
<1> DEFINE n == Len(group_name)
           key == rows[Current].key
           e0 == [hash |-> Hash(key), id |-> n + 1]
<1>1. /\ grouped /\ read \in Nat
      /\ Current \in 1 .. Len(rows) /\ Current = read + 1
      /\ rows \in Seq(Row) /\ n \in Nat
  BY DEF IInv, TypeOK, NewGroup, More, Current, Batch
<1>2. key \in Seq(Cell)
  <2>1. rows[Current] \in Row
    BY <1>1
  <2> QED BY <2>1 DEF Row
<1>3. /\ group_name' = Append(group_name, key)
      /\ group_name' \in Seq(Seq(Cell)) /\ Len(group_name') = n + 1
      /\ \A g \in 1 .. n : group_name'[g] = group_name[g]
      /\ group_name'[n + 1] = key
  BY <1>2 DEF IInv, TypeOK, NewGroup
<1>4. /\ members' \in Seq(SUBSET (1 .. read')) /\ Len(members') = n + 1
      /\ \A g \in 1 .. n : members'[g] = members[g]
      /\ members'[n + 1] = {Current}
      /\ read' = Current
  <2>1. members \in Seq(SUBSET (1 .. Current))
    <3>1. SUBSET (1 .. read) \subseteq SUBSET (1 .. Current)
      BY <1>1
    <3> QED BY <3>1 DEF IInv, TypeOK
  <2>2. /\ members' = Append(members, {Current}) /\ read' = Current
        /\ {Current} \in SUBSET (1 .. Current) /\ Len(members) = n
    BY <1>1 DEF IInv, TypeOK, NewGroup
  <2> HIDE DEF n
  <2> QED BY <1>1, <2>1, <2>2
<1>5. /\ hash_to_group_id' = hash_to_group_id \cup {e0}
      /\ \A e \in hash_to_group_id : e.hash # Hash(key)
      /\ UNCHANGED <<grouped, input, rows, phase>>
  BY DEF NewGroup, CurrentHash, NextGroupId
<1>7. TypeOK'
  BY <1>1, <1>3, <1>4, <1>5 DEF IInv, TypeOK
<1>8. MapInv /\ NamesInv /\ MembersInv /\ DistinctInv
  BY <1>1 DEF IInv, GroupInv
<1>9. \A g \in 1 .. n : Hash(group_name[g]) # Hash(key)
  BY <1>5, <1>8 DEF MapInv, Groups
<1>10. MapInv'
  <2>1. \A e \in hash_to_group_id : e.id \in 1 .. n
    BY DEF IInv, TypeOK
  <2>2. e0.hash = Hash(key) /\ e0.id = n + 1
    OBVIOUS
  <2> HIDE DEF key, e0
  <2>3. \A e \in hash_to_group_id' : e.hash = Hash(group_name'[e.id])
    BY <1>3, <1>5, <1>8, <2>1, <2>2 DEF MapInv
  <2>4. \A g \in 1 .. n + 1 :
          \E e \in hash_to_group_id' : e.hash = Hash(group_name'[g])
    BY <1>1, <1>3, <1>5, <1>8, <2>2 DEF MapInv, Groups
  <2> QED BY <1>3, <2>3, <2>4 DEF MapInv, Groups
<1>11. NamesInv'
  BY <1>1, <1>3, <1>4, <1>5, <1>8 DEF NamesInv, Groups
<1>12. MembersInv'
  <2>1. \A g \in 1 .. n : Current \notin members[g]
    BY <1>1 DEF IInv, TypeOK
  <2>2. \A m \in 1 .. read' : m \in 1 .. read \/ m = Current
    BY <1>1, <1>4
  <2>3. rows' = rows /\ \A m \in 1 .. read : m # Current
    BY <1>1, <1>5
  <2> HIDE DEF n, key
  <2>4. ASSUME NEW m \in 1 .. read', NEW g \in 1 .. n + 1
        PROVE  m \in members'[g] <=> Hash(rows'[m].key) = Hash(group_name'[g])
    <3>1. CASE g \in 1 .. n /\ m \in 1 .. read
      <4>1. m \in members[g] <=> Hash(rows[m].key) = Hash(group_name[g])
        BY <1>8, <3>1 DEF MembersInv, Groups, n
      <4>2. members'[g] = members[g] /\ group_name'[g] = group_name[g]
        BY <1>3, <1>4, <3>1
      <4> QED BY <4>1, <4>2, <2>3
    <3>2. CASE g \in 1 .. n /\ m = Current
      BY <1>3, <1>4, <1>9, <2>1, <2>3, <3>2 DEF key
    <3>3. CASE g = n + 1 /\ m \in 1 .. read
      <4>1. PICK h \in Groups : m \in members[h]
        BY <1>8, <3>3 DEF MembersInv
      <4>2. Hash(rows[m].key) = Hash(group_name[h])
        BY <1>8, <3>3, <4>1 DEF MembersInv
      <4> QED BY <1>3, <1>4, <1>9, <2>3, <3>3, <4>1, <4>2 DEF Groups, n
    <3>4. CASE g = n + 1 /\ m = Current
      BY <1>3, <1>4, <2>3, <3>4 DEF key
    <3> QED BY <1>1, <2>2, <3>1, <3>2, <3>3, <3>4
  <2>5. ASSUME NEW m \in 1 .. read'
        PROVE  \E g \in 1 .. n + 1 : m \in members'[g]
    <3>1. CASE m \in 1 .. read
      BY <1>1, <1>4, <1>8, <3>1 DEF MembersInv, Groups, n
    <3>2. CASE m = Current
      BY <1>1, <1>4, <3>2
    <3> QED BY <2>2, <3>1, <3>2
  <2> QED BY <1>3, <2>4, <2>5 DEF MembersInv, Groups
<1>13. DistinctInv'
  <2> HIDE DEF key
  <2>1. \A g, h \in 1 .. n : Hash(group_name'[g]) = Hash(group_name'[h]) => g = h
    BY <1>3, <1>8 DEF DistinctInv, Groups
  <2>2. \A g \in 1 .. n : Hash(group_name'[g]) # Hash(group_name'[n + 1])
    BY <1>3, <1>9
  <2>3. Groups' = 1 .. n \cup {n + 1}
    BY <1>1, <1>3 DEF Groups
  <2> QED BY <2>1, <2>2, <2>3 DEF DistinctInv
<1> QED BY <1>1, <1>5, <1>7, <1>10, <1>11, <1>12, <1>13 DEF IInv, GroupInv

LEMMA KnownGroupInv == IInv /\ KnownGroup => IInv'
<1> USE AggregationAssumption
<1> SUFFICES ASSUME IInv, KnownGroup
             PROVE  IInv'
  OBVIOUS
<1> DEFINE key == rows[Current].key
<1>1. /\ grouped /\ read \in Nat
      /\ Current \in 1 .. Len(rows) /\ Current = read + 1
  BY DEF IInv, TypeOK, KnownGroup, More, Current
<1>2. PICK e \in hash_to_group_id : e.hash = Hash(key) /\ Take(e.id)
  BY DEF KnownGroup, CurrentHash
<1>3. /\ MapInv /\ NamesInv /\ MembersInv /\ DistinctInv
      /\ e.id \in Groups
  BY <1>1 DEF IInv, GroupInv, TypeOK, Groups
<1>4. Hash(group_name[e.id]) = Hash(key)
  BY <1>2, <1>3 DEF MapInv
<1>5. /\ read' = Current
      /\ UNCHANGED <<grouped, input, rows, hash_to_group_id, group_name, phase>>
  BY <1>2 DEF Take
<1>6. /\ members' \in Seq(SUBSET (1 .. read')) /\ Len(members') = Len(group_name)
      /\ \A g \in Groups : members'[g] = IF g = e.id THEN members[g] \cup {Current}
                                                    ELSE members[g]
  <2>1. members \in Seq(SUBSET (1 .. Current))
    <3>1. SUBSET (1 .. read) \subseteq SUBSET (1 .. Current)
      BY <1>1
    <3> QED BY <3>1 DEF IInv, TypeOK
  <2>2. members' = [members EXCEPT ![e.id] = @ \cup {Current}]
    BY <1>2 DEF Take
  <2>3. members[e.id] \cup {Current} \in SUBSET (1 .. Current)
    BY <1>1, <1>3, <2>1 DEF IInv, TypeOK, Groups
  <2>4. Len(members) = Len(group_name)
    BY DEF IInv, TypeOK
  <2>5. Len(members') = Len(members)
    BY <2>1, <2>2
  <2>6. DOMAIN members = Groups
    BY <2>1, <2>4 DEF Groups
  <2>7. members' \in Seq(SUBSET (1 .. Current))
    BY <1>3, <2>1, <2>2, <2>3, <2>4, ElementOfSeq, ExceptSeq DEF Groups
  <2> QED BY <1>3, <1>5, <2>2, <2>4, <2>5, <2>6, <2>7
<1>8. TypeOK'
  BY <1>1, <1>5, <1>6 DEF IInv, TypeOK
<1>9. MapInv' /\ NamesInv' /\ DistinctInv'
  <2>1. MapInv' /\ DistinctInv'
    BY <1>3, <1>5 DEF MapInv, DistinctInv, Groups
  <2>2. NamesInv'
    BY <1>1, <1>3, <1>5 DEF NamesInv, Groups
  <2> QED BY <2>1, <2>2
<1>10. MembersInv'
  <2>1. \A g \in Groups : Current \notin members[g]
    BY <1>1 DEF IInv, TypeOK, Groups
  <2>2. \A g \in Groups : Hash(key) = Hash(group_name[g]) <=> g = e.id
    BY <1>3, <1>4 DEF DistinctInv
  <2>3. \A m \in 1 .. read' : m \in 1 .. read \/ m = Current
    BY <1>1, <1>5
  <2>4. Groups' = Groups /\ rows' = rows /\ group_name' = group_name
    BY <1>5 DEF Groups
  <2> HIDE DEF key
  <2>5. ASSUME NEW m \in 1 .. read', NEW g \in Groups
        PROVE  m \in members'[g] <=> Hash(rows[m].key) = Hash(group_name[g])
    <3>1. CASE m \in 1 .. read
      <4>1. m \in members[g] <=> Hash(rows[m].key) = Hash(group_name[g])
        BY <1>3, <3>1 DEF MembersInv
      <4>2. m # Current
        BY <1>1, <3>1
      <4> QED BY <1>6, <4>1, <4>2
    <3>2. CASE m = Current
      BY <1>6, <2>1, <2>2, <3>2 DEF key
    <3> QED BY <2>3, <3>1, <3>2
  <2>6. ASSUME NEW m \in 1 .. read'
        PROVE  \E g \in Groups : m \in members'[g]
    BY <1>3, <1>6, <2>3 DEF MembersInv
  <2> QED BY <2>4, <2>5, <2>6 DEF MembersInv
<1> QED BY <1>1, <1>5, <1>8, <1>9, <1>10 DEF IInv, GroupInv

LEMMA UpdateColumnsInv == IInv /\ UpdateColumns => IInv'
<1> USE AggregationAssumption
<1> SUFFICES ASSUME IInv, UpdateColumns
             PROVE  IInv'
  OBVIOUS
<1>1. /\ Head(input) \in Batch
      /\ input' \in Seq(Batch)
  BY DEF IInv, TypeOK, UpdateColumns
<1>2. /\ rows' \in Batch /\ Len(rows') \in Nat
      /\ read' = Len(rows')
  BY <1>1 DEF IInv, TypeOK, UpdateColumns, Batch
<1>3. /\ members' = <<1 .. read'>>
      /\ ~grouped' /\ UNCHANGED <<grouped, hash_to_group_id, group_name, phase>>
  BY DEF UpdateColumns
<1>4. /\ members' \in Seq(SUBSET (1 .. read')) /\ Len(members') = 1
  BY <1>3
<1>5. Len(group_name) = 1
  BY <1>3 DEF IInv, GroupInv
<1>6. TypeOK'
  BY <1>1, <1>2, <1>3, <1>4, <1>5 DEF IInv, TypeOK
<1> QED BY <1>3, <1>5, <1>6 DEF IInv, GroupInv

-----------------------------------------------------------------------------
LEMMA StepInv == IInv /\ [Next]_vars => IInv'
<1> USE AggregationAssumption
<1> SUFFICES ASSUME IInv, [Next]_vars
             PROVE  IInv'
  OBVIOUS
<1>1. CASE PullBatch
  BY <1>1, PullBatchInv
<1>2. CASE NewGroup
  BY <1>2, NewGroupInv
<1>3. CASE KnownGroup
  BY <1>3, KnownGroupInv
<1>4. CASE UpdateColumns
  BY <1>4, UpdateColumnsInv
<1>5. ASSUME UNCHANGED <<grouped, input, taken, groups>>,
             phase' \in {"run", "done", "none", "throw", "undefined"}
      PROVE  IInv'
  BY <1>5 DEF taken, groups, IInv, TypeOK, GroupInv, MapInv, NamesInv,
              MembersInv, DistinctInv, Groups
<1>6. CASE ExtremeOfNothing
  BY <1>5, <1>6 DEF ExtremeOfNothing
<1>7. CASE ReturnRows
  BY <1>5, <1>7 DEF ReturnRows
<1>8. CASE AverageThrows
  BY <1>5, <1>8 DEF AverageThrows
<1>9. CASE ReturnNothing
  BY <1>5, <1>9 DEF ReturnNothing
<1>10. CASE UNCHANGED vars
  BY <1>5, <1>10 DEF vars, IInv, TypeOK
<1> QED
  BY <1>1, <1>2, <1>3, <1>4, <1>6, <1>7, <1>8, <1>9, <1>10 DEF Next

LEMMA Invariance == Spec => []IInv
<1> QED BY InitInv, StepInv, PTL DEF Spec

\* The variables of both operators keep their types, whatever the child
\* returns and whatever is aggregated.
THEOREM AggregationTypeCorrect == Spec => []TypeOK
<1>1. IInv => TypeOK
  BY DEF IInv
<1> QED BY <1>1, Invariance, PTL

LEMMA GroupsOfHashes == IInv => RowsReachTheirGroup
<1> SUFFICES ASSUME IInv, grouped, CollisionFree
             PROVE  /\ \A m \in 1 .. read : \E g \in Groups : m \in members[g]
                    /\ \A m \in 1 .. read : \A g \in Groups :
                         m \in members[g] <=> group_name[g] = rows[m].key
                    /\ \A g, h \in Groups : group_name[g] = group_name[h] => g = h
  BY DEF RowsReachTheirGroup, Groups
<1>1. /\ MapInv /\ NamesInv /\ MembersInv /\ DistinctInv
      /\ 1 .. read \subseteq 1 .. Len(rows)
  BY DEF IInv, GroupInv, TypeOK
<1>2. ASSUME NEW m \in 1 .. read, NEW g \in Groups
      PROVE  Hash(rows[m].key) = Hash(group_name[g]) <=> group_name[g] = rows[m].key
  <2>1. PICK k \in 1 .. read : group_name[g] = rows[k].key
    BY <1>1 DEF NamesInv
  <2> QED BY <1>1, <2>1 DEF CollisionFree
<1>3. \A g, h \in Groups : group_name[g] = group_name[h] => g = h
  BY <1>1 DEF DistinctInv
<1> QED BY <1>1, <1>2, <1>3 DEF MembersInv

\* As long as no two keys of the input have the same hash, every row that GROUP
\* BY takes is given to the group of its own key and to no other.
THEOREM GroupingIsExact == Spec => []RowsReachTheirGroup
<1> QED BY Invariance, GroupsOfHashes, PTL

-----------------------------------------------------------------------------
\* An accumulator: the operation, and what each of them keeps.
Accumulator ==
  [op : {"SUM", "AVG", "MIN", "MAX", "COUNT", "CountDistinct"}, sum : Int, count : Nat,
   has_data : BOOLEAN, best : Int, set : SUBSET Int]

\* The cells of column k in the rows S of r, and their sum.
Cells(r, k, S) == {r[n].values[k] : n \in S}
ColumnSum(r, k, S) == Rules!SumOver(r, k, S)
\* v is the least, or the greatest, of V.
IsBest(op, v, V) == v \in V /\ \A w \in V : IF op = "MIN" THEN v <= w ELSE v >= w

\* acc holds what its operation makes of column k of the rows S: the sum and
\* the count as they are, a best value once there is one, the set of the
\* values.
IsAcc(acc, r, k, S) ==
  /\ acc \in Accumulator /\ acc.op = Ops[k]
  /\ acc.op \in {"SUM", "AVG"} => acc.sum = ColumnSum(r, k, S)
  /\ acc.op \in {"AVG", "COUNT"} => acc.count = Cardinality(S)
  /\ acc.op \in {"MIN", "MAX"} =>
       IF S = {} THEN ~acc.has_data
                 ELSE acc.has_data /\ IsBest(acc.op, acc.best, Cells(r, k, S))
  /\ acc.op = "CountDistinct" => acc.set = Cells(r, k, S)

\* The sum of a batch is the last of its partial sums.
LEMMA TotalTrace ==
  ASSUME NEW n \in Nat, NEW s, DOMAIN s = 1 .. n
  PROVE  \E F : /\ F[0] = 0
                /\ \A i \in 1 .. n : F[i] = F[i - 1] + s[i]
                /\ Total(s) = F[n]
<1>1. PICK F : Rules!IsTrace(F, "SUM", 0, s, n)
  BY Induct, Rules!FoldTrace
<1>2. /\ F[0] = 0
      /\ \A i \in 1 .. n : F[i] = F[i - 1] + s[i]
      /\ Rules!Folded("SUM", 0, s) = F[n]
  BY <1>1 DEF Rules!IsTrace
<1>3. Total(s) = Rules!Folded("SUM", 0, s)
  BY DEF Total, FoldLeft, MapThenFoldSet, Max, Rules!Folded, Rules!MapThenFoldSet, Rules!Greatest
<1> QED BY <1>2, <1>3

\* The best of a batch is the last of its best values so far.
LEMMA BestTrace ==
  ASSUME NEW n \in Nat, NEW s, DOMAIN s = 1 .. n, NEW op \in {"MIN", "MAX"}
  PROVE  \E F : /\ F[0] = s[1]
                /\ \A i \in 1 .. n : F[i] = Better(op, F[i - 1], s[i])
                /\ BestOf(op, s) = F[n]
<1>1. PICK F : Rules!IsTrace(F, op, s[1], s, n)
  BY Induct, Rules!FoldTrace
<1>2. /\ F[0] = s[1]
      /\ \A i \in 1 .. n : F[i] = Better(op, F[i - 1], s[i])
      /\ Rules!Folded(op, s[1], s) = F[n]
  BY <1>1 DEF Rules!IsTrace
<1>3. BestOf(op, s) = Rules!Folded(op, s[1], s)
  BY DEF BestOf, FoldLeft, MapThenFoldSet, Max, Rules!Folded, Rules!MapThenFoldSet, Rules!Greatest
<1> QED BY <1>2, <1>3

\* The loop over a batch for MIN or MAX finds the best of its cells.
LEMMA BestOfCells ==
  ASSUME NEW n \in Nat \ {0}, NEW s \in [1 .. n -> Int], NEW op \in {"MIN", "MAX"}
  PROVE  IsBest(op, BestOf(op, s), {s[i] : i \in 1 .. n})
<1>1. PICK F : /\ F[0] = s[1]
               /\ \A i \in 1 .. n : F[i] = Better(op, F[i - 1], s[i])
               /\ BestOf(op, s) = F[n]
  BY BestTrace
<1> DEFINE P == {i \in 0 .. n : /\ F[i] \in {s[j] : j \in 1 .. n}
                                /\ \A j \in 1 .. i : IF op = "MIN" THEN F[i] <= s[j] ELSE F[i] >= s[j]}
<1>2. 0 \in P
  <2>1. s[1] \in {s[j] : j \in 1 .. n}
    OBVIOUS
  <2> QED BY <1>1, <2>1
<1>3. ASSUME NEW i \in 0 .. n - 1, i \in P PROVE i + 1 \in P
  <2>1. i + 1 \in 1 .. n /\ (i + 1) - 1 = i
    OBVIOUS
  <2>2. F[i + 1] = Better(op, F[i], s[i + 1])
    BY <1>1, <2>1
  <2>3. F[i] \in Int /\ s[i + 1] \in Int /\ F[i] \in {s[j] : j \in 1 .. n}
        /\ s[i + 1] \in {s[j] : j \in 1 .. n}
    BY <1>3, <2>1
  <2>4. F[i + 1] \in {s[j] : j \in 1 .. n}
    BY <2>2, <2>3 DEF Better
  <2>5. IF op = "MIN" THEN F[i + 1] <= F[i] /\ F[i + 1] <= s[i + 1]
                      ELSE F[i + 1] >= F[i] /\ F[i + 1] >= s[i + 1]
    BY <2>2, <2>3 DEF Better
  <2>6. F[i + 1] \in Int
    BY <2>4
  <2>7. ASSUME NEW j \in 1 .. i + 1
        PROVE  IF op = "MIN" THEN F[i + 1] <= s[j] ELSE F[i + 1] >= s[j]
    <3>1. CASE j = i + 1
      BY <2>5, <3>1
    <3>2. CASE j \in 1 .. i
      <4>1. s[j] \in Int /\ (IF op = "MIN" THEN F[i] <= s[j] ELSE F[i] >= s[j])
        BY <1>3, <3>2
      <4> QED BY <2>3, <2>5, <2>6, <4>1
    <3> QED BY <3>1, <3>2
  <2> QED BY <2>1, <2>4, <2>7
<1> HIDE DEF P
<1>4. 0 .. n \subseteq P
  BY <1>2, <1>3, Induct, Rules!UpTo
<1>5. n \in P
  BY <1>4
<1> QED BY <1>1, <1>5 DEF P, IsBest

\* s is column k of the m rows of r after row n, as an aggregation is given it.
IsColumn(s, r, k, n, m) ==
  s \in [1 .. m -> Int] /\ \A i \in 1 .. m : s[i] = r[n + i].values[k]

\* The rows S and the m rows after row n.
Grown(S, n, m) == S \cup (n + 1 .. n + m)

\* Adding the sum of a batch to a sum gives the sum of all the rows.
LEMMA SumOfColumn ==
  ASSUME NEW r \in Batch, NEW k \in 1 .. Len(Ops), NEW n \in Nat, NEW m \in Nat,
         n + m <= Len(r), NEW S \in SUBSET (1 .. n), NEW s, IsColumn(s, r, k, n, m)
  PROVE  ColumnSum(r, k, Grown(S, n, m)) = ColumnSum(r, k, S) + Total(s)
<1> DEFINE T(j) == S \cup (n + 1 .. n + j)
<1>0. ASSUME NEW x \in 1 .. Len(r) PROVE r[x].values[k] \in Int
  <2>1. r[x] \in Row
    BY DEF Batch
  <2>2. r[x].values \in [1 .. Len(Ops) -> Int]
    BY <2>1 DEF Row
  <2> QED BY <2>2
<1>7. Len(r) \in Nat
  BY DEF Batch
<1>1. PICK F : /\ F[0] = 0
               /\ \A i \in 1 .. m : F[i] = F[i - 1] + s[i]
               /\ Total(s) = F[m]
  <2>1. DOMAIN s = 1 .. m
    BY DEF IsColumn
  <2> QED BY <2>1, TotalTrace
<1> DEFINE P == {j \in 0 .. m : F[j] \in Int /\ ColumnSum(r, k, T(j)) = ColumnSum(r, k, S) + F[j]}
<1>2. ColumnSum(r, k, S) \in Int
  <2>1. \A x \in S : x \in 1 .. Len(r)
    BY <1>7
  <2>2. \A x \in S : r[x].values[k] \in Int
    BY <1>0, <2>1
  <2> QED BY <2>2, Induct, Rules!SumType DEF ColumnSum
<1>3. 0 \in P
  <2>1. T(0) = S
    OBVIOUS
  <2> HIDE DEF T
  <2> QED BY <1>1, <1>2, <2>1
<1>4. ASSUME NEW j \in 0 .. m - 1, j \in P PROVE j + 1 \in P
  <2>1. T(j + 1) = T(j) \cup {n + j + 1} /\ n + j + 1 \notin T(j)
    OBVIOUS
  <2>2. n + j \in Nat /\ T(j) \in SUBSET (1 .. n + j)
    OBVIOUS
  <2>3. \A x \in T(j) \cup {n + j + 1} : r[x].values[k] \in Int
    <3>1. \A x \in T(j) \cup {n + j + 1} : x \in 1 .. Len(r)
      BY <1>7
    <3> QED BY <1>0, <3>1
  <2>4. ColumnSum(r, k, T(j) \cup {n + j + 1}) = ColumnSum(r, k, T(j)) + r[n + j + 1].values[k]
    <3> DEFINE c == n + j + 1  x == n + j + 1  U == T(j)
    <3>1. /\ c \in Nat /\ U \in SUBSET (1 .. c) /\ x \in (1 .. c) \ U
          /\ \A y \in U \cup {x} : r[y].values[k] \in Int
      BY <2>1, <2>2, <2>3
    <3>2. ColumnSum(r, k, U \cup {x}) = ColumnSum(r, k, U) + r[x].values[k]
      <4> HIDE DEF T, c, x, U
      <4> QED BY <3>1, Induct, Rules!SumAdd DEF ColumnSum
    <3> QED BY <3>2
  <2>5. F[j + 1] = F[j] + r[n + j + 1].values[k]
    <3>1. j + 1 \in 1 .. m /\ (j + 1) - 1 = j /\ s[j + 1] = r[n + (j + 1)].values[k]
          /\ n + (j + 1) = n + j + 1
      BY DEF IsColumn
    <3> QED BY <1>1, <3>1
  <2>6. r[n + j + 1].values[k] \in Int
    BY <2>3
  <2>7. j + 1 \in 0 .. m /\ F[j] \in Int /\ ColumnSum(r, k, T(j)) = ColumnSum(r, k, S) + F[j]
    BY <1>4
  <2> HIDE DEF T, P
  <2> DEFINE v == r[n + j + 1].values[k]
  <2>8. F[j + 1] = F[j] + v /\ v \in Int /\ F[j] \in Int
    BY <2>5, <2>6, <2>7
  <2>9. /\ ColumnSum(r, k, T(j + 1)) = ColumnSum(r, k, T(j)) + v
        /\ ColumnSum(r, k, T(j)) = ColumnSum(r, k, S) + F[j]
    BY <2>1, <2>4, <2>7
  <2> HIDE DEF v
  <2>10. F[j + 1] \in Int /\ ColumnSum(r, k, T(j + 1)) = ColumnSum(r, k, S) + F[j + 1]
    BY <1>2, <2>8, <2>9
  <2> QED BY <2>7, <2>10 DEF P
<1> HIDE DEF P
<1>5. 0 .. m \subseteq P
  BY <1>3, <1>4, Induct, Rules!UpTo
<1>6. m \in P
  BY <1>5
<1> QED BY <1>1, <1>6 DEF P, Grown

\* An accumulator as it is created is that of no row.
LEMMA NewAcc ==
  ASSUME NEW r, NEW k \in 1 .. Len(Ops)
  PROVE  IsAcc(NewAccumulator(Ops[k]), r, k, {})
<1>1. Ops[k] \in {"SUM", "AVG", "MIN", "MAX", "COUNT", "CountDistinct"}
  BY AggregationAssumption
<1>2. ColumnSum(r, k, {}) = 0
  BY Induct, Rules!SumEmpty DEF ColumnSum
<1>3. Cardinality({}) = 0
  BY FS_EmptySet
<1>4. Cells(r, k, {}) = {}
  BY DEF Cells
<1> QED BY <1>1, <1>2, <1>3, <1>4 DEF IsAcc, NewAccumulator, Accumulator

\* The cells of a column of a batch, and any sum of them, are integers.
LEMMA ColumnOfInts ==
  ASSUME NEW r \in Batch, NEW k \in 1 .. Len(Ops), NEW S \in SUBSET (1 .. Len(r))
  PROVE  /\ \A x \in S : r[x].values[k] \in Int
         /\ ColumnSum(r, k, S) \in Int
<1>1. ASSUME NEW x \in S PROVE r[x].values[k] \in Int
  <2>1. r[x] \in Row
    BY DEF Batch
  <2>2. r[x].values \in [1 .. Len(Ops) -> Int]
    BY <2>1 DEF Row
  <2> QED BY <2>2
<1>2. Len(r) \in Nat
  BY DEF Batch
<1> QED BY <1>1, <1>2, Induct, Rules!SumType DEF ColumnSum

\* Counting a batch adds the number of its rows.
LEMMA CountOfRows ==
  ASSUME NEW n \in Nat, NEW m \in Nat, NEW S \in SUBSET (1 .. n)
  PROVE  /\ Cardinality(Grown(S, n, m)) = Cardinality(S) + m
         /\ Cardinality(S) \in Nat
<1>1. IsFiniteSet(1 .. n) /\ S \subseteq 1 .. n
  BY FS_Interval
<1>2. IsFiniteSet(S)
  BY <1>1, FS_Subset, Zenon
<1> DEFINE T == n + 1 .. n + m
<1>3. IsFiniteSet(T) /\ Cardinality(T) = m
  BY FS_Interval
<1>4. S \cap T = {}
  OBVIOUS
<1>5. Cardinality({}) = 0
  BY FS_EmptySet
<1>6. Cardinality(S) \in Nat
  BY <1>2, FS_CardinalityType
<1> HIDE DEF T
<1>7. Cardinality(S \cup T) = Cardinality(S) + Cardinality(T) - Cardinality(S \cap T)
  BY <1>2, <1>3, FS_Union, Zenon
<1>8. Cardinality(S \cap T) = 0
  BY <1>4, <1>5, Zenon
<1> DEFINE c == Cardinality(S)  d == Cardinality(S \cup T)
<1>9. d = c + m
  <2>1. d = c + m - 0 /\ c \in Nat
    BY <1>3, <1>6, <1>7, <1>8
  <2> HIDE DEF c, d
  <2> QED BY <2>1
<1> QED BY <1>6, <1>9 DEF T, Grown

\* The better of two best values is the best of both sets.
LEMMA BestOfTwo ==
  ASSUME NEW op \in {"MIN", "MAX"}, NEW V \in SUBSET Int, NEW W \in SUBSET Int,
         NEW v, NEW w, IsBest(op, v, V), IsBest(op, w, W)
  PROVE  IsBest(op, Better(op, w, v), V \cup W)
BY DEF IsBest, Better

\* Update: an accumulator of some rows that takes a batch is the accumulator of
\* those rows and the batch, whatever its operation; only MIN and MAX need a
\* batch that is not empty.
LEMMA UpdateAcc ==
  ASSUME NEW r \in Batch, NEW k \in 1 .. Len(Ops), NEW n \in Nat, NEW m \in Nat,
         n + m <= Len(r), NEW S \in SUBSET (1 .. n),
         NEW acc, IsAcc(acc, r, k, S), NEW s, IsColumn(s, r, k, n, m),
         Ops[k] \in {"MIN", "MAX"} => m > 0
  PROVE  IsAcc(Update(acc, s), r, k, Grown(S, n, m))
<1> DEFINE T == Grown(S, n, m)  V == {s[i] : i \in 1 .. m}
<1>1. /\ acc \in Accumulator /\ acc.op = Ops[k]
      /\ acc.op \in {"SUM", "AVG", "MIN", "MAX", "COUNT", "CountDistinct"}
  BY DEF IsAcc, Accumulator
<1>2. s \in [1 .. m -> Int] /\ s \in Seq(Int) /\ Len(s) = m
  BY DEF IsColumn
<1>3. Cells(r, k, T) = Cells(r, k, S) \cup V
  <2>1. \A x \in n + 1 .. n + m : x - n \in 1 .. m /\ n + (x - n) = x
    OBVIOUS
  <2>2. \A i \in 1 .. m : n + i \in n + 1 .. n + m
    OBVIOUS
  <2>3. \A x \in n + 1 .. n + m : r[x].values[k] = s[x - n]
    BY <2>1 DEF IsColumn
  <2>4. {r[x].values[k] : x \in n + 1 .. n + m} = V
    <3>1. \A x \in n + 1 .. n + m : r[x].values[k] \in V
      BY <2>1, <2>3
    <3>2. \A i \in 1 .. m : s[i] \in {r[x].values[k] : x \in n + 1 .. n + m}
      BY <2>2 DEF IsColumn
    <3> QED BY <3>1, <3>2
  <2> QED BY <2>4 DEF Cells, Grown
<1>4. ToSet(s) = V
  BY <1>2 DEF ToSet
<1>5. /\ Cardinality(T) = Cardinality(S) + m
      /\ Cardinality(S) \in Nat /\ Cardinality(T) \in Nat
  <2>1. Cardinality(T) = Cardinality(S) + m /\ Cardinality(S) \in Nat
    BY CountOfRows
  <2> HIDE DEF T
  <2> QED BY <2>1
<1>6. S \in SUBSET (1 .. Len(r)) /\ T \in SUBSET (1 .. Len(r))
  <2>1. Len(r) \in Nat
    BY DEF Batch
  <2> QED BY <2>1 DEF Grown
<1>7. /\ \A x \in S : r[x].values[k] \in Int
      /\ ColumnSum(r, k, S) \in Int /\ ColumnSum(r, k, T) \in Int
  BY <1>6, ColumnOfInts
<1>8. Cells(r, k, S) \in SUBSET Int /\ V \in SUBSET Int
  BY <1>2, <1>7 DEF Cells
<1>9. ColumnSum(r, k, T) = ColumnSum(r, k, S) + Total(s)
  BY SumOfColumn
<1> HIDE DEF T, V
<1>10. CASE acc.op = "SUM"
  <2>1. Update(acc, s) = [acc EXCEPT !.sum = ColumnSum(r, k, T)]
    BY <1>1, <1>9, <1>10 DEF Update, IsAcc, Accumulator
  <2> QED BY <1>1, <1>7, <1>10, <2>1 DEF IsAcc, Accumulator, T
<1>11. CASE acc.op = "AVG"
  <2>1. Update(acc, s) = [acc EXCEPT !.sum = ColumnSum(r, k, T), !.count = Cardinality(T)]
    BY <1>1, <1>2, <1>5, <1>9, <1>11 DEF Update, IsAcc, Accumulator, CountRows
  <2> QED BY <1>1, <1>5, <1>7, <1>11, <2>1 DEF IsAcc, Accumulator, T
<1>12. CASE acc.op = "COUNT"
  <2>1. Update(acc, s) = [acc EXCEPT !.count = Cardinality(T)]
    BY <1>1, <1>2, <1>5, <1>12 DEF Update, IsAcc, Accumulator
  <2> QED BY <1>1, <1>5, <1>12, <2>1 DEF IsAcc, Accumulator, T
<1>13. CASE acc.op = "CountDistinct"
  <2>1. Update(acc, s) = [acc EXCEPT !.set = Cells(r, k, T)]
    BY <1>1, <1>3, <1>4, <1>13 DEF Update, IsAcc, Accumulator
  <2>2. Cells(r, k, T) \in SUBSET Int
    BY <1>3, <1>8
  <2> QED BY <1>1, <1>13, <2>1, <2>2 DEF IsAcc, Accumulator, T
<1>14. CASE acc.op \in {"MIN", "MAX"}
  <2>1. m \in Nat \ {0} /\ T # {}
    <3>1. m \in Nat \ {0}
      BY <1>1, <1>14
    <3>2. n + 1 \in T
      BY <3>1 DEF T, Grown
    <3> QED BY <3>1, <3>2
  <2>2. IsBest(acc.op, BestOf(acc.op, s), V)
    BY <1>2, <1>14, <2>1, BestOfCells DEF V
  <2> DEFINE b == NewBest(acc, s)
  <2>3. IsBest(acc.op, b, Cells(r, k, T))
    <3>1. CASE S = {}
      BY <1>3, <1>14, <2>2, <3>1 DEF NewBest, IsAcc, Cells
    <3>2. CASE S # {}
      <4>1. acc.has_data /\ IsBest(acc.op, acc.best, Cells(r, k, S))
        BY <1>14, <3>2 DEF IsAcc
      <4> QED BY <1>3, <1>8, <1>14, <2>2, <4>1, BestOfTwo DEF NewBest
    <3> QED BY <3>1, <3>2
  <2>4. b \in Int
    BY <1>3, <1>8, <2>3 DEF IsBest
  <2>5. Update(acc, s) = [acc EXCEPT !.best = b, !.has_data = TRUE]
    BY <1>14 DEF Update
  <2> HIDE DEF b
  <2> QED BY <1>1, <1>14, <2>1, <2>3, <2>4, <2>5 DEF IsAcc, Accumulator, T
<1> QED BY <1>1, <1>10, <1>11, <1>12, <1>13, <1>14

-----------------------------------------------------------------------------
\* Each group has an accumulator for each operation, that of the rows the group
\* has taken.
AccInv ==
  /\ group_to_accumulators \in Seq([1 .. Len(Ops) -> Accumulator])
  /\ Len(group_to_accumulators) = Len(group_name)
  /\ \A g \in Groups : \A k \in 1 .. Len(Ops) :
       IsAcc(group_to_accumulators[g][k], rows, k, members[g])

\* A group is older than another when its first row comes before all of the
\* other's: results are in the order the keys were met.
OrderInv ==
  grouped => \A g, h \in Groups : g < h =>
    \A n \in members[h] : \E m \in members[g] : m < n

\* Without GROUP BY the only group has all the rows read.
WholeInv == ~grouped => read = Len(rows) /\ members[1] = 1 .. read

\* The rows returned are those of the groups.
ResultInv ==
  phase = "done" =>
    /\ read = Len(rows)
    /\ result = [g \in 1 .. Len(group_name) |->
         [name |-> group_name[g],
          values |-> [k \in 1 .. Len(Ops) |-> GetResult(group_to_accumulators[g][k])]]]

ExactInv == IInv /\ AccInv /\ OrderInv /\ WholeInv /\ ResultInv

\* Rows read later change nothing in what an accumulator stands for.
LEMMA AccKeeps ==
  ASSUME NEW r \in Batch, NEW q \in Batch, NEW k \in 1 .. Len(Ops),
         NEW S \in SUBSET (1 .. Len(r)), Len(r) <= Len(q),
         \A m \in 1 .. Len(r) : q[m] = r[m],
         NEW acc, IsAcc(acc, r, k, S)
  PROVE  IsAcc(acc, q, k, S)
<1>1. Len(r) \in Nat /\ Len(q) \in Nat
  BY DEF Batch
<1>2. \A x \in S : r[x].values[k] \in Int /\ r[x].values[k] = q[x].values[k]
  BY ColumnOfInts
<1>3. ColumnSum(r, k, S) = ColumnSum(q, k, S)
  <2>1. Rules!SameValues(r, k, q, k, S)
    BY <1>2 DEF Rules!SameValues
  <2>3. Rules!Bounded(S)
    BY <1>1 DEF Rules!Bounded
  <2>4. Rules!SumOver(r, k, S) = Rules!SumOver(q, k, S)
    BY <2>1, <2>3, Induct, Rules!SumSame
  <2> QED BY <2>4 DEF ColumnSum
<1>4. Cells(r, k, S) = Cells(q, k, S)
  BY <1>2 DEF Cells
<1> QED BY <1>3, <1>4 DEF IsAcc

\* Initially there is no group, or one with accumulators of no row.
LEMMA InitExact == Init => ExactInv
<1> SUFFICES ASSUME Init
             PROVE  ExactInv
  OBVIOUS
<1>1. IInv
  BY InitInv
<1>2. CASE grouped
  <2>1. AccInv
    BY <1>2 DEF Init, AccInv, Groups
  <2> QED BY <1>1, <1>2, <2>1 DEF Init, ExactInv, OrderInv, WholeInv, ResultInv, Groups
<1>3. CASE ~grouped
  <2>1. /\ group_name = <<<<>>>> /\ members = <<{}>> /\ rows = <<>> /\ read = 0
        /\ group_to_accumulators = <<Create>> /\ phase = "run"
    BY <1>3 DEF Init
  <2>2. \A k \in 1 .. Len(Ops) : IsAcc(Create[k], rows, k, {})
    BY NewAcc DEF Create
  <2>3. Create \in [1 .. Len(Ops) -> Accumulator]
    <3>1. \A k \in 1 .. Len(Ops) : Create[k] \in Accumulator
      BY <2>2 DEF IsAcc
    <3> QED BY <3>1 DEF Create
  <2>4. AccInv
    BY <2>1, <2>2, <2>3 DEF AccInv, Groups
  <2>5. WholeInv
    BY <2>1 DEF WholeInv
  <2> QED BY <1>1, <1>3, <2>1, <2>4, <2>5 DEF ExactInv, OrderInv, ResultInv
<1> QED BY <1>2, <1>3

\* Pulling a batch adds rows that no accumulator has taken.
LEMMA PullBatchExact == ExactInv /\ PullBatch => ExactInv'
<1> SUFFICES ASSUME ExactInv, PullBatch
             PROVE  ExactInv'
  OBVIOUS
<1> USE DEF groups
<1>1. IInv'
  BY PullBatchInv DEF ExactInv
<1>2. /\ rows \in Batch /\ rows' \in Batch
      /\ Len(rows) <= Len(rows')
      /\ \A m \in 1 .. Len(rows) : rows'[m] = rows[m]
  BY DEF ExactInv, IInv, TypeOK, PullBatch, Batch
<1>3. /\ UNCHANGED <<grouped, read, hash_to_group_id, group_name,
                     group_to_accumulators, members, phase>>
      /\ grouped /\ phase = "run"
  BY DEF PullBatch
<1>4. \A g \in Groups : members[g] \in SUBSET (1 .. Len(rows))
  <2>1. Len(members) = Len(group_name) /\ members \in Seq(SUBSET (1 .. read))
        /\ read \in 0 .. Len(rows)
    BY DEF ExactInv, IInv, TypeOK
  <2>2. 1 .. read \subseteq 1 .. Len(rows)
    BY <2>1
  <2>3. \A g \in Groups : members[g] \in SUBSET (1 .. read)
    BY <2>1 DEF Groups
  <2> QED BY <2>2, <2>3
<1>5. AccInv'
  <2>1. ASSUME NEW g \in Groups, NEW k \in 1 .. Len(Ops)
        PROVE  IsAcc(group_to_accumulators[g][k], rows', k, members[g])
    <3>1. IsAcc(group_to_accumulators[g][k], rows, k, members[g])
      BY DEF ExactInv, AccInv
    <3> QED BY <1>2, <1>4, <3>1, AccKeeps
  <2> QED BY <1>3, <2>1 DEF ExactInv, AccInv, Groups
<1> QED BY <1>1, <1>3, <1>5 DEF ExactInv, OrderInv, WholeInv, ResultInv, Groups

\* A row given to the accumulator of a group, as UpdateAll does.
LEMMA OneRow ==
  ASSUME IInv, More, NEW k \in 1 .. Len(Ops),
         NEW S \in SUBSET (1 .. read), NEW accs, IsAcc(accs[k], rows, k, S)
  PROVE  IsAcc(UpdateAll(accs, <<rows[Current]>>)[k], rows, k, S \cup {Current})
<1> DEFINE s == [n \in 1 .. 1 |-> rows[Current].values[k]]
<1>1. /\ rows \in Batch /\ read \in Nat /\ read + 1 <= Len(rows) /\ Current = read + 1
      /\ Current \in 1 .. Len(rows)
  BY DEF IInv, TypeOK, More, Current, Batch
<1>2. rows[Current].values[k] \in Int
  BY <1>1, ColumnOfInts
<1>3. IsColumn(s, rows, k, read, 1)
  BY <1>1, <1>2 DEF IsColumn
<1>4. UpdateAll(accs, <<rows[Current]>>)[k] = Update(accs[k], s)
  <2>1. [n \in 1 .. Len(<<rows[Current]>>) |-> <<rows[Current]>>[n].values[k]] = s
    OBVIOUS
  <2> QED BY <2>1 DEF UpdateAll
<1> HIDE DEF s
<1>5. IsAcc(Update(accs[k], s), rows, k, Grown(S, read, 1))
  BY <1>1, <1>3, UpdateAcc
<1>6. Grown(S, read, 1) = S \cup {Current}
  BY <1>1 DEF Grown
<1> QED BY <1>4, <1>5, <1>6

\* The same for all the operations of a group.
LEMMA OneRowAll ==
  ASSUME IInv, More, NEW S \in SUBSET (1 .. read), NEW accs,
         \A k \in 1 .. Len(Ops) : IsAcc(accs[k], rows, k, S)
  PROVE  /\ UpdateAll(accs, <<rows[Current]>>) \in [1 .. Len(Ops) -> Accumulator]
         /\ \A k \in 1 .. Len(Ops) :
              IsAcc(UpdateAll(accs, <<rows[Current]>>)[k], rows, k, S \cup {Current})
<1>1. \A k \in 1 .. Len(Ops) :
        IsAcc(UpdateAll(accs, <<rows[Current]>>)[k], rows, k, S \cup {Current})
  BY OneRow
<1>2. \A k \in 1 .. Len(Ops) : UpdateAll(accs, <<rows[Current]>>)[k] \in Accumulator
  BY <1>1 DEF IsAcc
<1>3. UpdateAll(accs, <<rows[Current]>>)
        = [k \in 1 .. Len(Ops) |-> UpdateAll(accs, <<rows[Current]>>)[k]]
  BY DEF UpdateAll
<1> QED BY <1>1, <1>2, <1>3

\* A row with a new hash opens a group with accumulators of that row.
LEMMA NewGroupExact == ExactInv /\ NewGroup => ExactInv'
<1> SUFFICES ASSUME ExactInv, NewGroup
             PROVE  ExactInv'
  OBVIOUS
<1> DEFINE n == Len(group_name)
<1>1. IInv /\ IInv' /\ More
  BY NewGroupInv DEF ExactInv, NewGroup
<1>2. /\ grouped /\ grouped' = grouped /\ rows' = rows /\ phase' = phase /\ phase = "run"
      /\ group_name' = Append(group_name, rows[Current].key)
      /\ group_to_accumulators' =
           Append(group_to_accumulators, UpdateAll(Create, <<rows[Current]>>))
      /\ members' = Append(members, {Current})
  BY DEF NewGroup, More
<1>3. /\ UpdateAll(Create, <<rows[Current]>>) \in [1 .. Len(Ops) -> Accumulator]
      /\ \A k \in 1 .. Len(Ops) :
           IsAcc(UpdateAll(Create, <<rows[Current]>>)[k], rows, k, {Current})
  <2>1. \A k \in 1 .. Len(Ops) : IsAcc(Create[k], rows, k, {})
    BY NewAcc DEF Create
  <2>2. {} \cup {Current} = {Current}
    OBVIOUS
  <2> QED BY <1>1, <2>1, <2>2, OneRowAll
<1>4. /\ n \in Nat /\ members \in Seq(SUBSET (1 .. read)) /\ Len(members) = n
      /\ group_name \in Seq(Seq(Cell)) /\ read \in Nat /\ Current = read + 1
      /\ rows \in Batch
  BY <1>1 DEF IInv, TypeOK, Current
<1>5. /\ group_to_accumulators \in Seq([1 .. Len(Ops) -> Accumulator])
      /\ Len(group_to_accumulators) = n
      /\ \A g \in 1 .. n : \A k \in 1 .. Len(Ops) :
           IsAcc(group_to_accumulators[g][k], rows, k, members[g])
  BY DEF ExactInv, AccInv, Groups
<1>6. /\ Len(group_name') = n + 1 /\ Groups' = 1 .. n + 1
      /\ Len(members') = n + 1
      /\ \A g \in 1 .. n : members'[g] = members[g]
      /\ members'[n + 1] = {Current}
  BY <1>2, <1>4 DEF Groups
<1>7. /\ group_to_accumulators' \in Seq([1 .. Len(Ops) -> Accumulator])
      /\ Len(group_to_accumulators') = n + 1
      /\ \A g \in 1 .. n : group_to_accumulators'[g] = group_to_accumulators[g]
      /\ group_to_accumulators'[n + 1] = UpdateAll(Create, <<rows[Current]>>)
  <2> DEFINE new == UpdateAll(Create, <<rows[Current]>>)
  <2>1. group_to_accumulators' = Append(group_to_accumulators, new)
        /\ new \in [1 .. Len(Ops) -> Accumulator]
    BY <1>2, <1>3
  <2> HIDE DEF new, n
  <2>2. /\ group_to_accumulators' \in Seq([1 .. Len(Ops) -> Accumulator])
        /\ Len(group_to_accumulators') = n + 1
        /\ \A g \in 1 .. n : group_to_accumulators'[g] = group_to_accumulators[g]
        /\ group_to_accumulators'[n + 1] = new
    BY <1>5, <2>1
  <2> QED BY <2>2 DEF new
<1> HIDE DEF n
<1>8. AccInv'
  <2>1. \A g \in 1 .. n + 1 : g \in 1 .. n \/ g = n + 1
    BY <1>4
  <2>2. ASSUME NEW g \in 1 .. n + 1, NEW k \in 1 .. Len(Ops)
        PROVE  IsAcc(group_to_accumulators'[g][k], rows, k, members'[g])
    BY <1>3, <1>5, <1>6, <1>7, <2>1
  <2> QED BY <1>2, <1>6, <1>7, <2>2 DEF AccInv, n
<1>9. OrderInv'
  <2>1. ASSUME NEW g \in 1 .. n + 1, NEW h \in 1 .. n + 1, g < h, NEW x \in members'[h]
        PROVE  \E m \in members'[g] : m < x
    <3>1. CASE h \in 1 .. n
      <4>1. g \in 1 .. n
        BY <1>4, <2>1, <3>1
      <4> QED BY <1>2, <1>6, <2>1, <3>1, <4>1 DEF ExactInv, OrderInv, Groups, n
    <3>2. CASE h = n + 1
      <4>1. g \in 1 .. n /\ x = Current
        BY <1>4, <1>6, <2>1, <3>2
      <4>2. PICK m \in 1 .. read : group_name[g] = rows[m].key
        BY <1>1, <1>2, <4>1 DEF IInv, GroupInv, NamesInv, Groups, n
      <4>3. m \in members[g]
        BY <1>1, <1>2, <4>1, <4>2 DEF IInv, GroupInv, MembersInv, Groups, n
      <4> QED BY <1>4, <1>6, <4>1, <4>2, <4>3
    <3> QED BY <1>4, <3>1, <3>2
  <2> QED BY <1>6, <2>1 DEF OrderInv
<1>10. WholeInv' /\ ResultInv'
  BY <1>2 DEF WholeInv, ResultInv
<1> QED BY <1>1, <1>8, <1>9, <1>10 DEF ExactInv

\* A row with a known hash is taken by the accumulators of its group only.
LEMMA KnownGroupExact == ExactInv /\ KnownGroup => ExactInv'
<1> SUFFICES ASSUME ExactInv, KnownGroup
             PROVE  ExactInv'
  OBVIOUS
<1>1. IInv /\ IInv' /\ More
  BY KnownGroupInv DEF ExactInv, KnownGroup
<1>2. PICK e \in hash_to_group_id : Take(e.id)
  BY DEF KnownGroup
<1> DEFINE i == e.id
<1>3. /\ grouped /\ grouped' = grouped /\ rows' = rows /\ phase' = phase /\ phase = "run"
      /\ group_name' = group_name
      /\ group_to_accumulators' = [group_to_accumulators EXCEPT
                                     ![i] = UpdateAll(@, <<rows[Current]>>)]
      /\ members' = [members EXCEPT ![i] = @ \cup {Current}]
  BY <1>1, <1>2 DEF Take, More
<1>4. /\ i \in Groups /\ Len(group_name) \in Nat /\ Groups' = Groups
      /\ members \in Seq(SUBSET (1 .. read)) /\ DOMAIN members = Groups
      /\ read \in Nat /\ Current = read + 1 /\ rows \in Batch
  BY <1>1, <1>3 DEF IInv, TypeOK, Current, Groups
<1>5. /\ group_to_accumulators \in Seq([1 .. Len(Ops) -> Accumulator])
      /\ DOMAIN group_to_accumulators = Groups
      /\ Len(group_to_accumulators) = Len(group_name)
      /\ \A g \in Groups : \A k \in 1 .. Len(Ops) :
           IsAcc(group_to_accumulators[g][k], rows, k, members[g])
  BY <1>4 DEF ExactInv, AccInv, Groups
<1> HIDE DEF i
<1> DEFINE new == UpdateAll(group_to_accumulators[i], <<rows[Current]>>)
<1>6. /\ new \in [1 .. Len(Ops) -> Accumulator]
      /\ \A k \in 1 .. Len(Ops) : IsAcc(new[k], rows, k, members[i] \cup {Current})
  <2>1. members[i] \in SUBSET (1 .. read)
    BY <1>4
  <2> QED BY <1>1, <1>4, <1>5, <2>1, OneRowAll
<1>7. group_to_accumulators' = [group_to_accumulators EXCEPT ![i] = new]
  BY <1>3
<1> HIDE DEF new
<1>8. AccInv'
  <2>1. /\ group_to_accumulators' \in Seq([1 .. Len(Ops) -> Accumulator])
        /\ Len(group_to_accumulators') = Len(group_name)
    BY <1>4, <1>5, <1>6, <1>7, ElementOfSeq, ExceptSeq DEF Groups
  <2>2. ASSUME NEW g \in Groups, NEW k \in 1 .. Len(Ops)
        PROVE  IsAcc(group_to_accumulators'[g][k], rows, k, members'[g])
    <3>1. CASE g = i
      BY <1>3, <1>4, <1>5, <1>6, <1>7, <3>1
    <3>2. CASE g # i
      BY <1>3, <1>4, <1>5, <1>7, <3>2
    <3> QED BY <3>1, <3>2
  <2> QED BY <1>3, <1>4, <2>1, <2>2 DEF AccInv
<1>9. OrderInv'
  <2>1. ASSUME NEW g \in Groups, NEW h \in Groups, g < h, NEW x \in members'[h]
        PROVE  \E m \in members'[g] : m < x
    <3>1. members[g] \subseteq members'[g]
      BY <1>3, <1>4
    <3>2. CASE x \in members[h]
      <4>1. \E m \in members[g] : m < x
        BY <1>3, <2>1, <3>2 DEF ExactInv, OrderInv
      <4> QED BY <3>1, <4>1
    <3>3. CASE x = Current
      <4>1. PICK m \in 1 .. read : group_name[g] = rows[m].key
        BY <1>1, <1>3 DEF IInv, GroupInv, NamesInv
      <4>2. m \in members[g]
        BY <1>1, <1>3, <4>1 DEF IInv, GroupInv, MembersInv
      <4> QED BY <1>4, <3>1, <3>3, <4>1, <4>2
    <3>4. x \in members[h] \/ x = Current
      BY <1>3, <1>4, <2>1
    <3> QED BY <3>2, <3>3, <3>4
  <2> QED BY <1>4, <2>1 DEF OrderInv
<1>10. WholeInv' /\ ResultInv'
  BY <1>3 DEF WholeInv, ResultInv
<1> QED BY <1>1, <1>8, <1>9, <1>10 DEF ExactInv

\* A batch without GROUP BY is taken by the only accumulators as a whole.
LEMMA UpdateColumnsExact == ExactInv /\ UpdateColumns => ExactInv'
<1> SUFFICES ASSUME ExactInv, UpdateColumns
             PROVE  ExactInv'
  OBVIOUS
<1> DEFINE n == Len(rows)  batch == Head(input)  m == Len(batch)
           accs == group_to_accumulators[1]
           new == UpdateAll(accs, batch)
<1>1. IInv /\ IInv'
  BY UpdateColumnsInv DEF ExactInv
<1>2. /\ ~grouped /\ grouped' = grouped /\ phase = "run" /\ phase' = phase
      /\ rows' = rows \o batch /\ read' = Len(rows') /\ members' = <<1 .. read'>>
      /\ group_to_accumulators' = <<new>> /\ group_name' = group_name
      /\ Extreme => batch # <<>>
  BY DEF UpdateColumns
<1>3. /\ rows \in Batch /\ batch \in Batch /\ Len(group_name) = 1
      /\ read = n /\ members[1] = 1 .. n
  <2>1. batch \in Batch
    BY <1>1 DEF UpdateColumns, IInv, TypeOK
  <2> QED BY <1>1, <1>2, <2>1 DEF ExactInv, IInv, TypeOK, GroupInv, WholeInv
<1>4. /\ n \in Nat /\ m \in Nat /\ rows' \in Batch /\ Len(rows') = n + m
      /\ \A x \in 1 .. n : rows'[x] = rows[x]
      /\ \A x \in 1 .. m : rows'[n + x] = batch[x]
  BY <1>2, <1>3 DEF Batch
<1>5. ASSUME NEW k \in 1 .. Len(Ops)
      PROVE  IsAcc(new[k], rows', k, 1 .. n + m)
  <2> DEFINE s == [x \in 1 .. m |-> batch[x].values[k]]
  <2>1. IsAcc(accs[k], rows, k, 1 .. n)
    BY <1>3 DEF ExactInv, AccInv, Groups
  <2>2. IsAcc(accs[k], rows', k, 1 .. n)
    <3> HIDE DEF accs
    <3> QED BY <1>3, <1>4, <2>1, AccKeeps
  <2>3. IsColumn(s, rows', k, n, m)
    <3>1. ASSUME NEW x \in 1 .. m PROVE s[x] \in Int /\ s[x] = rows'[n + x].values[k]
      <4>1. x \in 1 .. Len(batch)
        OBVIOUS
      <4>2. batch[x].values[k] \in Int
        BY <1>3, <4>1, ColumnOfInts
      <4> QED BY <1>4, <4>2
    <3> QED BY <3>1 DEF IsColumn
  <2>4. Ops[k] \in {"MIN", "MAX"} => m > 0
    BY <1>2, <1>3 DEF Extreme, Batch
  <2>5. new[k] = Update(accs[k], s)
    BY DEF UpdateAll
  <2>6. Grown(1 .. n, n, m) = 1 .. n + m
    BY <1>4 DEF Grown
  <2> HIDE DEF s, accs, new, n, m, batch
  <2>7. IsAcc(Update(accs[k], s), rows', k, Grown(1 .. n, n, m))
    <3> DEFINE S == 1 .. n
    <3>1. n + m <= Len(rows') /\ S \in SUBSET (1 .. n) /\ IsAcc(accs[k], rows', k, S)
      BY <1>4, <2>2
    <3> HIDE DEF S
    <3>2. IsAcc(Update(accs[k], s), rows', k, Grown(S, n, m))
      BY <1>4, <2>3, <2>4, <3>1, UpdateAcc
    <3> QED BY <3>2 DEF S
  <2> QED BY <2>5, <2>6, <2>7
<1>6. AccInv'
  <2>1. new \in [1 .. Len(Ops) -> Accumulator]
    <3>1. \A k \in 1 .. Len(Ops) : new[k] \in Accumulator
      BY <1>5 DEF IsAcc
    <3> QED BY <3>1 DEF UpdateAll
  <2>2. members'[1] = 1 .. n + m
    BY <1>2, <1>4
  <2> HIDE DEF new, n, m, accs
  <2> QED BY <1>2, <1>3, <1>5, <2>1, <2>2 DEF AccInv, Groups
<1>7. WholeInv' /\ OrderInv' /\ ResultInv'
  BY <1>2 DEF WholeInv, OrderInv, ResultInv
<1> QED BY <1>1, <1>6, <1>7 DEF ExactInv

\* Every step preserves the exactness of the accumulators.
LEMMA StepExact == ExactInv /\ [Next]_vars => ExactInv'
<1> SUFFICES ASSUME ExactInv, [Next]_vars
             PROVE  ExactInv'
  OBVIOUS
<1>0. IInv'
  BY StepInv DEF ExactInv
<1>1. CASE PullBatch
  BY <1>1, PullBatchExact
<1>2. CASE NewGroup
  BY <1>2, NewGroupExact
<1>3. CASE KnownGroup
  BY <1>3, KnownGroupExact
<1>4. CASE UpdateColumns
  BY <1>4, UpdateColumnsExact
<1>5. ASSUME UNCHANGED <<grouped, taken, groups>>, ResultInv'
      PROVE  ExactInv'
  BY <1>0, <1>5 DEF taken, groups, ExactInv, AccInv, OrderInv, WholeInv, Groups
<1>6. CASE ExtremeOfNothing \/ AverageThrows \/ ReturnNothing
  BY <1>5, <1>6 DEF ExtremeOfNothing, AverageThrows, ReturnNothing, ResultInv
<1>7. CASE ReturnRows
  BY <1>5, <1>7 DEF ReturnRows, AtEnd, ResultInv, taken, groups
<1>8. CASE UNCHANGED vars
  BY <1>5, <1>8 DEF vars, taken, groups, ExactInv, ResultInv
<1> QED
  BY <1>1, <1>2, <1>3, <1>4, <1>6, <1>7, <1>8 DEF Next

\* The invariant of the proof of the answers.
LEMMA InvarianceExact == Spec => []ExactInv
<1> QED BY InitExact, StepExact, PTL DEF Spec

-----------------------------------------------------------------------------
\* A SUM is cast to 64 bits once, in the end: the number it gives is the only
\* one of that width congruent to the sum.
LEMMA CastIsTheSum ==
  ASSUME NEW s \in Int
  PROVE  Cast(s) = CHOOSE v \in -HalfRange .. HalfRange - 1 :
                     (v - s) % (2 * HalfRange) = 0
<1>0. HalfRange \in Nat \ {0}
  BY AggregationAssumption
<1>1. Cast(s) \in -HalfRange .. HalfRange - 1 /\ (Cast(s) - s) % (2 * HalfRange) = 0
  BY <1>0, Rules!CastRule DEF Cast
<1> DEFINE v == CHOOSE v \in -HalfRange .. HalfRange - 1 :
                  (v - s) % (2 * HalfRange) = 0
<1>2. v \in -HalfRange .. HalfRange - 1 /\ (v - s) % (2 * HalfRange) = 0
  BY <1>1
<1> HIDE DEF v
<1> DEFINE m == 2 * HalfRange
<1>3. m \in Nat \ {0} /\ Cast(s) \in Int /\ v \in Int
  BY <1>0, <1>1, <1>2
<1>4. Cast(s) - v < m /\ -m < Cast(s) - v
  BY <1>0, <1>1, <1>2
<1> HIDE DEF m
<1>5. (Cast(s) - s) % m = 0 /\ (v - s) % m = 0
  BY <1>1, <1>2 DEF m
<1>6. (Cast(s) - v) % m = 0
  BY <1>3, <1>5, Rules!SameRest
<1>7. Cast(s) = v
  BY <1>3, <1>4, <1>6, Rules!Congruent
<1> QED BY <1>7 DEF v

\* There is one best value only.
LEMMA BestIsUnique ==
  ASSUME NEW V \in SUBSET Int, NEW v
  PROVE  /\ IsBest("MIN", v, V) => v = CHOOSE x \in V : \A w \in V : x <= w
         /\ IsBest("MAX", v, V) => v = CHOOSE x \in V : \A w \in V : x >= w
<1>1. ASSUME IsBest("MIN", v, V)
      PROVE  v = CHOOSE x \in V : \A w \in V : x <= w
  <2> DEFINE u == CHOOSE x \in V : \A w \in V : x <= w
  <2>1. v \in V /\ \A w \in V : v <= w
    BY <1>1 DEF IsBest
  <2>2. u \in V /\ \A w \in V : u <= w
    BY <2>1
  <2> HIDE DEF u
  <2>3. u = v
    BY <2>1, <2>2
  <2> QED BY <2>3 DEF u
<1>2. ASSUME IsBest("MAX", v, V)
      PROVE  v = CHOOSE x \in V : \A w \in V : x >= w
  <2> DEFINE u == CHOOSE x \in V : \A w \in V : x >= w
  <2>1. v \in V /\ \A w \in V : v >= w
    BY <1>2 DEF IsBest
  <2>2. u \in V /\ \A w \in V : u >= w
    BY <2>1
  <2> HIDE DEF u
  <2>3. u = v
    BY <2>1, <2>2
  <2> QED BY <2>3 DEF u
<1> QED BY <1>1, <1>2

\* What an accumulator returns is the reference value of its rows.
LEMMA ReferenceOfAcc ==
  ASSUME rows \in Batch, NEW k \in 1 .. Len(Ops), NEW S \in SUBSET (1 .. Len(rows)),
         Ops[k] \in {"MIN", "MAX"} => S # {}, NEW acc, IsAcc(acc, rows, k, S)
  PROVE  GetResult(acc) = Reference(Ops[k], k, S)
<1> DEFINE sum == ColumnSum(rows, k, S)  V == Cells(rows, k, S)
<1>1. /\ acc \in Accumulator /\ acc.op = Ops[k]
      /\ acc.op \in {"SUM", "AVG", "MIN", "MAX", "COUNT", "CountDistinct"}
  BY DEF IsAcc, Accumulator
<1>2. sum \in Int /\ V \in SUBSET Int
  BY ColumnOfInts DEF Cells
<1>3. CASE acc.op = "SUM"
  <2>1. Reference("SUM", k, S) = CHOOSE v \in -HalfRange .. HalfRange - 1 :
                                   (v - sum) % (2 * HalfRange) = 0
    BY DEF Reference, ColumnSum, Rules!SumOver, MapThenSumSet, MapThenFoldSet, Rules!MapThenFoldSet
  <2>2. GetResult(acc) = Cast(sum)
    BY <1>3 DEF GetResult, IsAcc
  <2> HIDE DEF sum
  <2> QED BY <1>1, <1>2, <1>3, <2>1, <2>2, CastIsTheSum
<1>4. CASE acc.op = "AVG"
  <2>1. Reference("AVG", k, S) = <<sum, Cardinality(S)>>
    BY DEF Reference, ColumnSum, Rules!SumOver, MapThenSumSet, MapThenFoldSet, Rules!MapThenFoldSet
  <2>2. GetResult(acc) = <<sum, Cardinality(S)>>
    BY <1>4 DEF GetResult, IsAcc
  <2> QED BY <1>1, <1>4, <2>1, <2>2
<1>5. CASE acc.op = "COUNT"
  BY <1>1, <1>5 DEF GetResult, IsAcc, Reference
<1>6. CASE acc.op = "CountDistinct"
  BY <1>1, <1>6 DEF GetResult, IsAcc, Reference, Cells
<1>7. CASE acc.op = "MIN"
  <2>1. IsBest("MIN", acc.best, V) /\ GetResult(acc) = acc.best
    BY <1>1, <1>7 DEF GetResult, IsAcc
  <2>2. Reference("MIN", k, S) = CHOOSE x \in V : \A w \in V : x <= w
    BY DEF Reference, Cells
  <2> HIDE DEF V
  <2> QED BY <1>1, <1>2, <1>7, <2>1, <2>2, BestIsUnique
<1>8. CASE acc.op = "MAX"
  <2>1. IsBest("MAX", acc.best, V) /\ GetResult(acc) = acc.best
    BY <1>1, <1>8 DEF GetResult, IsAcc
  <2>2. Reference("MAX", k, S) = CHOOSE x \in V : \A w \in V : x >= w
    BY DEF Reference, Cells
  <2> HIDE DEF V
  <2> QED BY <1>1, <1>2, <1>8, <2>1, <2>2, BestIsUnique
<1> QED BY <1>1, <1>3, <1>4, <1>5, <1>6, <1>7, <1>8

\* The invariant gives exact totals.
LEMMA TotalsOfAcc == ExactInv => TotalsAreExact
<1> SUFFICES ASSUME ExactInv, ~grouped, phase = "done", Extreme => rows # <<>>
             PROVE  Len(result) = 1 /\ Aggregates(result[1], 1 .. Len(rows))
  BY DEF TotalsAreExact
<1>1. /\ Len(group_name) = 1 /\ rows \in Batch
      /\ members[1] = 1 .. Len(rows)
  BY DEF ExactInv, IInv, TypeOK, GroupInv, WholeInv
<1>2. \A k \in 1 .. Len(Ops) :
        IsAcc(group_to_accumulators[1][k], rows, k, 1 .. Len(rows))
  BY <1>1 DEF ExactInv, AccInv, Groups
<1>3. /\ Len(result) = 1
      /\ result[1].values = [k \in 1 .. Len(Ops) |-> GetResult(group_to_accumulators[1][k])]
  BY <1>1 DEF ExactInv, ResultInv
<1>4. ASSUME NEW k \in 1 .. Len(Ops)
      PROVE  GetResult(group_to_accumulators[1][k]) = Reference(Ops[k], k, 1 .. Len(rows))
  <2>1. Ops[k] \in {"MIN", "MAX"} => 1 .. Len(rows) # {}
    BY <1>1 DEF Extreme, Batch
  <2> QED BY <1>1, <1>2, <2>1, ReferenceOfAcc
<1> QED BY <1>3, <1>4 DEF Aggregates

\* The invariant gives exact groups, where no two keys have the same hash.
LEMMA GroupsOfAcc == ExactInv => GroupsAreExact
<1> SUFFICES ASSUME ExactInv, CollisionFree, grouped, phase = "done"
             PROVE  /\ {result[g].name : g \in 1 .. Len(result)}
                         = {rows[n].key : n \in 1 .. Len(rows)}
                    /\ \A g, h \in 1 .. Len(result) :
                         g < h => First(result[g].name) < First(result[h].name)
                    /\ \A g \in 1 .. Len(result) :
                         Aggregates(result[g],
                           {n \in 1 .. Len(rows) : rows[n].key = result[g].name})
  BY DEF GroupsAreExact, GroupedExactly
<1> DEFINE Rows == 1 .. Len(rows)
           Of(key) == {n \in Rows : rows[n].key = key}
<1>1. /\ read = Len(rows) /\ rows \in Batch /\ Len(rows) \in Nat /\ Len(group_name) \in Nat
      /\ Len(result) = Len(group_name)
      /\ \A g \in Groups :
           /\ result[g].name = group_name[g]
           /\ result[g].values =
                [k \in 1 .. Len(Ops) |-> GetResult(group_to_accumulators[g][k])]
  <2>1. read = Len(rows) /\ rows \in Batch /\ group_name \in Seq(Seq(Cell))
    BY DEF ExactInv, IInv, TypeOK, ResultInv
  <2>2. Len(rows) \in Nat /\ Len(group_name) \in Nat
    BY <2>1 DEF Batch
  <2>3. result = [g \in Groups |->
          [name |-> group_name[g],
           values |-> [k \in 1 .. Len(Ops) |-> GetResult(group_to_accumulators[g][k])]]]
    BY DEF ExactInv, ResultInv, Groups
  <2>4. Len(result) = Len(group_name)
    BY <2>2, <2>3 DEF Groups
  <2>5. \A g \in Groups :
           /\ result[g].name = group_name[g]
           /\ result[g].values =
                [k \in 1 .. Len(Ops) |-> GetResult(group_to_accumulators[g][k])]
    BY <2>3
  <2> QED BY <2>1, <2>2, <2>4, <2>5
<1>2. /\ \A m \in Rows : \E g \in Groups : m \in members[g]
      /\ \A m \in Rows : \A g \in Groups : m \in members[g] <=> group_name[g] = rows[m].key
      /\ \A g \in Groups : \E m \in Rows : group_name[g] = rows[m].key
  BY <1>1, GroupsOfHashes DEF ExactInv, RowsReachTheirGroup, IInv, GroupInv, NamesInv, Groups
<1>3. ASSUME NEW g \in Groups PROVE members[g] = Of(group_name[g]) /\ members[g] # {}
  <2>1. members[g] \in SUBSET Rows
    BY <1>1 DEF ExactInv, IInv, TypeOK, Groups
  <2> QED BY <1>2, <2>1
<1>4. {result[g].name : g \in Groups} = {rows[n].key : n \in Rows}
  <2>0. \A g \in Groups : result[g].name = group_name[g]
    BY <1>1
  <2>1. \A g \in Groups : \E m \in Rows : result[g].name = rows[m].key
    BY <1>2, <2>0
  <2>2. ASSUME NEW m \in Rows PROVE \E g \in Groups : result[g].name = rows[m].key
    <3>1. PICK g \in Groups : m \in members[g]
      BY <1>2
    <3> QED BY <1>2, <2>0, <3>1
  <2> HIDE DEF Rows
  <2> QED BY <2>1, <2>2
<1>5. ASSUME NEW g \in Groups
      PROVE  /\ First(group_name[g]) \in members[g]
             /\ \A m \in members[g] : First(group_name[g]) <= m
  <2> DEFINE key == group_name[g]
  <2>1. members[g] \subseteq Nat /\ members[g] # {}
    BY <1>3
  <2>2. PICK x \in members[g] : \A y \in members[g] : x <= y
    BY <2>1, Induct, Rules!LeastOf
  <2>3. /\ x \in Rows /\ rows[x].key = key
        /\ \A m \in 1 .. x - 1 : rows[m].key # key
    <3>1. x \in Rows /\ rows[x].key = key
      BY <1>3
    <3>2. ASSUME NEW m \in 1 .. x - 1, rows[m].key = key PROVE FALSE
      <4>1. m \in Rows
        BY <1>1, <3>1
      <4>2. m \in members[g]
        BY <1>3, <3>2, <4>1
      <4> QED BY <2>2, <3>1, <4>2
    <3> QED BY <3>1, <3>2
  <2> DEFINE f == First(key)
  <2>4. f \in Rows /\ rows[f].key = key /\ \A m \in 1 .. f - 1 : rows[m].key # key
    BY <2>3 DEF First
  <2> HIDE DEF f
  <2>5. f \in members[g]
    BY <1>3, <2>4
  <2>6. \A m \in members[g] : m \in Rows /\ rows[m].key = key
    BY <1>3
  <2>7. \A m \in members[g] : f <= m
    BY <1>1, <2>4, <2>6
  <2> QED BY <2>5, <2>7 DEF f
<1>6. ASSUME NEW g \in Groups, NEW h \in Groups, g < h
      PROVE  First(group_name[g]) < First(group_name[h])
  <2>1. First(group_name[h]) \in members[h]
    BY <1>5
  <2>2. PICK m \in members[g] : m < First(group_name[h])
    BY <1>6, <2>1 DEF ExactInv, OrderInv
  <2>3. First(group_name[g]) <= m /\ First(group_name[g]) \in members[g]
    BY <1>5
  <2>4. m \in Nat /\ First(group_name[g]) \in Nat /\ First(group_name[h]) \in Nat
    BY <1>1, <1>3, <2>1, <2>3
  <2> QED BY <2>2, <2>3, <2>4
<1>7. ASSUME NEW g \in Groups
      PROVE  Aggregates(result[g], Of(group_name[g]))
  <2>1. members[g] \in SUBSET (1 .. Len(rows)) /\ members[g] # {}
    BY <1>3
  <2>2. \A k \in 1 .. Len(Ops) : IsAcc(group_to_accumulators[g][k], rows, k, members[g])
    BY DEF ExactInv, AccInv
  <2>3. \A k \in 1 .. Len(Ops) :
          GetResult(group_to_accumulators[g][k]) = Reference(Ops[k], k, members[g])
    BY <1>1, <2>1, <2>2, ReferenceOfAcc
  <2>4. Aggregates(result[g], members[g])
    BY <1>1, <2>3 DEF Aggregates
  <2> QED BY <1>3, <2>4
<1>8. 1 .. Len(result) = Groups
  BY <1>1 DEF Groups
<1>9. \A g, h \in Groups :
        g < h => First(result[g].name) < First(result[h].name)
  BY <1>1, <1>6
<1>10. \A g \in Groups :
         Aggregates(result[g], {n \in 1 .. Len(rows) : rows[n].key = result[g].name})
  <2> TAKE g \in Groups
  <2>1. result[g].name = group_name[g]
    BY <1>1
  <2> QED BY <1>7, <2>1
<1> QED BY <1>4, <1>8, <1>9, <1>10, Zenon

\* GROUP BY returns, where hashes do not collide, one row for each key of the
\* input, in the order of their first rows, and each of its values is what the
\* operation makes of the rows of that key, however the rows were cut into
\* batches (GroupByAggregation::GetNextBatch).
THEOREM GroupsExact == Spec => []GroupsAreExact
<1> QED BY InvarianceExact, GroupsOfAcc, PTL

\* Without GROUP BY the one row returned has, for each operation, what it makes
\* of all the rows of all the batches (Aggregation::GetNextBatch); for MIN and
\* MAX, where there is a row at all.
THEOREM TotalsExact == Spec => []TotalsAreExact
<1> QED BY InvarianceExact, TotalsOfAcc, PTL

=============================================================================

---------------------------- MODULE Aggregation ----------------------------
(***************************************************************************)
(* GroupByAggregationOperator, GlobalAggregationOperator and their         *)
(* accumulators: one call of Next pulls all batches of the child, updates  *)
(* the accumulators and returns one row for each group, or one row for     *)
(* the whole table.  GROUP BY finds the group of a row by the hash of its  *)
(* key alone.                                                              *)
(***************************************************************************)
EXTENDS Integers, Sequences, FiniteSetsExt, SequencesExt

CONSTANTS
  Inputs,      \* what the child returns: sequences of batches of rows
  Ops,         \* op_: one operation for each aggregated column
  Bytes,       \* the bytes of the strings
  HalfRange    \* the integers of a SUM column: -HalfRange .. HalfRange - 1

\* A row: the cells of the GROUP BY fields behind their transforms, an integer
\* or a string each (no plan groups by a double), and the cells of the
\* aggregated columns.
Cell == [int : Int] \cup [string : Seq(Bytes)]
Row == [key : Seq(Cell), values : [1 .. Len(Ops) -> Int]]
Batch == Seq(Row)

ASSUME AggregationAssumption ==
  /\ Inputs \subseteq Seq(Batch)
  /\ Ops \in Seq({"SUM", "AVG", "MIN", "MAX", "COUNT", "CountDistinct"})
  /\ Bytes \subseteq 0 .. 255
  /\ HalfRange \in Nat \ {0}

VARIABLES
  grouped,                \* whether the operator is GROUP BY
  input,                  \* the batches that the child has still to return
  rows,                   \* the rows of the batches pulled so far
  read,                   \* how many of them the operator has taken
  hash_to_group_id,       \* one record for each hash met
  group_name,             \* the keys of the groups, in the order of their ids
  group_to_accumulators,  \* the accumulators of each group
  members,                \* history: the rows each group has taken
  result,                 \* the rows returned
  phase

taken == <<rows, read>>
groups == <<hash_to_group_id, group_name, group_to_accumulators, members>>
vars == <<grouped, input, taken, groups, result, phase>>

-----------------------------------------------------------------------------
\* The polynomial of the bytes of a string.  The strings of the model are too
\* short for it to pass 64 bits, and the mixing that follows is one-to-one.
HashString(s) == FoldLeft(LAMBDA h, c : h * 131 + c, 256, s)

HashCell(c) == IF "string" \in DOMAIN c THEN HashString(c.string) ELSE c.int

\* HashCombine of the fields, taken to keep different lists of hashes apart.
Hash(key) == [f \in 1 .. Len(key) |-> HashCell(key[f])]

CollisionFree ==
  \A m, n \in 1 .. Len(rows) :
    Hash(rows[m].key) = Hash(rows[n].key) => rows[m].key = rows[n].key

-----------------------------------------------------------------------------
NewAccumulator(op) ==
  [op |-> op, sum |-> 0, count |-> 0, has_data |-> FALSE, best |-> 0, set |-> {}]
Create == [k \in 1 .. Len(Ops) |-> NewAccumulator(Ops[k])]

Total(s) == FoldLeft(+, 0, s)

\* WRONG: an average counts the calls of Update.
CountCalls(acc, s) == acc.count + 1
CountRows(acc, s) == acc.count + Len(s)

\* GetMin and GetMax of the cells.
Better(op, a, b) == IF (op = "MIN") = (a < b) THEN a ELSE b
BestOf(op, s) == FoldLeft(LAMBDA a, b : Better(op, a, b), s[1], s)

\* WRONG: has_data_ is not looked at, so that the first best is zero.
BetterOfZero(acc, s) == Better(acc.op, BestOf(acc.op, s), acc.best)
NewBest(acc, s) ==
  IF acc.has_data THEN Better(acc.op, BestOf(acc.op, s), acc.best)
                  ELSE BestOf(acc.op, s)

\* Update of an accumulator with the cells of a column, or those of its mask.
Update(acc, s) ==
  CASE acc.op = "SUM" -> [acc EXCEPT !.sum = @ + Total(s)]
    [] acc.op = "AVG" -> [acc EXCEPT !.sum = @ + Total(s), !.count = CountRows(acc, s)]
    [] acc.op = "COUNT" -> [acc EXCEPT !.count = @ + Len(s)]
    [] acc.op \in {"MIN", "MAX"} ->
         [acc EXCEPT !.best = NewBest(acc, s), !.has_data = TRUE]
    [] acc.op = "CountDistinct" -> [acc EXCEPT !.set = @ \cup ToSet(s)]

UpdateAll(accs, batch) ==
  [k \in 1 .. Len(Ops) |->
     Update(accs[k], [n \in 1 .. Len(batch) |-> batch[n].values[k]])]

\* The SUM of a column is stored in a column of the same type: AddCell casts.
Cast(v) == ((v + HalfRange) % (2 * HalfRange)) - HalfRange

\* An average is the exact quotient <<sum, count>>.
GetResult(acc) ==
  CASE acc.op = "SUM" -> Cast(acc.sum)
    [] acc.op = "AVG" -> <<acc.sum, acc.count>>
    [] acc.op = "COUNT" -> acc.count
    [] acc.op \in {"MIN", "MAX"} -> acc.best
    [] acc.op = "CountDistinct" -> Cardinality(acc.set)

-----------------------------------------------------------------------------
\* The global operator has one group, without a key, from the beginning.
Init ==
  /\ grouped \in BOOLEAN
  /\ input \in Inputs
  /\ rows = <<>> /\ read = 0
  /\ hash_to_group_id = {}
  /\ group_name = IF grouped THEN <<>> ELSE <<<<>>>>
  /\ group_to_accumulators = IF grouped THEN <<>> ELSE <<Create>>
  /\ members = IF grouped THEN <<>> ELSE <<{}>>
  /\ result = <<>>
  /\ phase = "run"

\* GROUP BY takes the rows of a batch one by one, and passes over an empty one.
PullBatch ==
  /\ grouped /\ phase = "run" /\ read = Len(rows)
  /\ input # <<>>
  /\ rows' = rows \o Head(input)
  /\ input' = Tail(input)
  /\ UNCHANGED <<grouped, read, groups, result, phase>>

More == grouped /\ phase = "run" /\ read < Len(rows)
Current == read + 1
CurrentHash == Hash(rows[Current].key)

\* WRONG: group_id is raised only behind emplace.
IdOfLastGroup == Len(group_name)
NextGroupId == Len(group_name) + 1

NewGroup ==
  /\ More
  /\ \A e \in hash_to_group_id : e.hash # CurrentHash
  /\ hash_to_group_id' =
       hash_to_group_id \cup {[hash |-> CurrentHash, id |-> NextGroupId]}
  /\ group_name' = Append(group_name, rows[Current].key)
  /\ group_to_accumulators' =
       Append(group_to_accumulators, UpdateAll(Create, <<rows[Current]>>))
  /\ members' = Append(members, {Current})
  /\ read' = Current
  /\ UNCHANGED <<grouped, input, rows, result, phase>>

Take(g) ==
  /\ group_to_accumulators' =
       [group_to_accumulators EXCEPT ![g] = UpdateAll(@, <<rows[Current]>>)]
  /\ members' = [members EXCEPT ![g] = @ \cup {Current}]
  /\ read' = Current
  /\ UNCHANGED <<grouped, input, rows, hash_to_group_id, group_name, result, phase>>

\* WRONG: the row is given to the group of the row before.
LastGroupTakes ==
  /\ More
  /\ \E e \in hash_to_group_id : e.hash = CurrentHash
  /\ Take(Len(group_name))

KnownGroup ==
  /\ More
  /\ \E e \in hash_to_group_id : e.hash = CurrentHash /\ Take(e.id)

\* The global operator takes a whole column at once.  The least and the
\* greatest cell of an empty one are undefined.
Extreme == \E k \in 1 .. Len(Ops) : Ops[k] \in {"MIN", "MAX"}

UpdateColumns ==
  /\ ~grouped /\ phase = "run"
  /\ input # <<>>
  /\ Extreme => Head(input) # <<>>
  /\ rows' = rows \o Head(input)
  /\ read' = Len(rows')
  /\ input' = Tail(input)
  /\ group_to_accumulators' = <<UpdateAll(group_to_accumulators[1], Head(input))>>
  /\ members' = <<1 .. read'>>
  /\ UNCHANGED <<grouped, hash_to_group_id, group_name, result, phase>>

ExtremeOfNothing ==
  /\ ~grouped /\ phase = "run"
  /\ input # <<>> /\ Extreme /\ Head(input) = <<>>
  /\ phase' = "undefined"
  /\ UNCHANGED <<grouped, input, taken, groups, result>>

AtEnd == phase = "run" /\ input = <<>> /\ read = Len(rows)

\* AvgAccumulator answers an integer for no rows, which the result column of
\* doubles does not take.
Bad(accs) == \E k \in 1 .. Len(Ops) : Ops[k] = "AVG" /\ accs[k].count = 0

ReturnRows ==
  /\ AtEnd
  /\ \A g \in 1 .. Len(group_name) : ~Bad(group_to_accumulators[g])
  /\ result' = [g \in 1 .. Len(group_name) |->
       [name |-> group_name[g],
        values |-> [k \in 1 .. Len(Ops) |-> GetResult(group_to_accumulators[g][k])]]]
  /\ phase' = "done"
  /\ UNCHANGED <<grouped, input, taken, groups>>

AverageThrows ==
  /\ AtEnd
  /\ \E g \in 1 .. Len(group_name) : Bad(group_to_accumulators[g])
  /\ phase' = "throw"
  /\ UNCHANGED <<grouped, input, taken, groups, result>>

\* is_consumed_: the second call of Next.
ReturnNothing ==
  /\ grouped /\ phase = "done"
  /\ phase' = "none"
  /\ UNCHANGED <<grouped, input, taken, groups, result>>

Next ==
  \/ PullBatch
  \/ NewGroup
  \/ KnownGroup
  \/ UpdateColumns
  \/ ExtremeOfNothing
  \/ ReturnRows
  \/ AverageThrows
  \/ ReturnNothing

Spec == Init /\ [][Next]_vars

-----------------------------------------------------------------------------
\* Every variable has its type, and the map knows only groups that exist.
TypeOK ==
  /\ grouped \in BOOLEAN
  /\ input \in Seq(Batch) /\ rows \in Batch
  /\ read \in 0 .. Len(rows)
  /\ \A e \in hash_to_group_id : e.id \in 1 .. Len(group_name)
  /\ group_name \in Seq(Seq(Cell))
  /\ members \in Seq(SUBSET (1 .. read))
  /\ Len(members) = Len(group_name)
  /\ phase \in {"run", "done", "none", "throw", "undefined"}

\* At every moment of a GROUP BY each row taken is with the group of its key,
\* and with no other, and no two groups have the same key: as long as no two
\* keys of the rows have the same hash.
RowsReachTheirGroup ==
  grouped /\ CollisionFree =>
    /\ \A m \in 1 .. read : \E g \in 1 .. Len(group_name) : m \in members[g]
    /\ \A m \in 1 .. read : \A g \in 1 .. Len(group_name) :
         m \in members[g] <=> group_name[g] = rows[m].key
    /\ \A g, h \in 1 .. Len(group_name) : group_name[g] = group_name[h] => g = h

\* What an operation should make of the values of some rows.  A SUM is the one
\* of its column's type.
Reference(op, k, S) ==
  LET values == {rows[n].values[k] : n \in S}
      sum == MapThenSumSet(LAMBDA n : rows[n].values[k], S)
  IN CASE op = "SUM" -> CHOOSE v \in -HalfRange .. HalfRange - 1 :
                           (v - sum) % (2 * HalfRange) = 0
       [] op = "AVG" -> <<sum, Cardinality(S)>>
       [] op = "MIN" -> CHOOSE v \in values : \A w \in values : v <= w
       [] op = "MAX" -> CHOOSE v \in values : \A w \in values : v >= w
       [] op = "COUNT" -> Cardinality(S)
       [] op = "CountDistinct" -> Cardinality(values)

Aggregates(r, S) ==
  \A k \in 1 .. Len(Ops) : r.values[k] = Reference(Ops[k], k, S)

First(key) == CHOOSE n \in 1 .. Len(rows) :
  rows[n].key = key /\ \A m \in 1 .. n - 1 : rows[m].key # key

\* GROUP BY returns one row for each key of the input, in the order in which
\* the keys come first, with the aggregates of all rows that have this key.
GroupedExactly ==
  grouped /\ phase = "done" =>
    /\ {result[g].name : g \in 1 .. Len(result)} = {rows[n].key : n \in 1 .. Len(rows)}
    /\ \A g, h \in 1 .. Len(result) :
         g < h => First(result[g].name) < First(result[h].name)
    /\ \A g \in 1 .. Len(result) :
         Aggregates(result[g], {n \in 1 .. Len(rows) : rows[n].key = result[g].name})

\* The same as long as no two keys of the input have the same hash.
GroupsAreExact == CollisionFree => GroupedExactly

\* Without GROUP BY there is one row with the aggregates of all rows, however
\* these are cut into batches (MIN and MAX of no rows are left open).
TotalsAreExact ==
  ~grouped /\ phase = "done" /\ (Extreme => rows # <<>>) =>
    /\ Len(result) = 1
    /\ Aggregates(result[1], 1 .. Len(rows))

=============================================================================

------------------------------ MODULE Filters ------------------------------
(***************************************************************************)
(* Filter conditions (operators.h) and the decision whether a whole row    *)
(* group may be skipped because of the smallest and largest value of its   *)
(* columns.                                                                *)
(*                                                                         *)
(* A cell is an integer: its value, or its rank in the order of its        *)
(* column (strings, doubles, dates).  A filter is the pair of its two      *)
(* methods, eval = Evaluate for every row and skip = CanSkipBatch for      *)
(* every possible pair of statistics, so that And, Or and Not combine      *)
(* filters without recursion, as their classes combine pointers.           *)
(***************************************************************************)
EXTENDS Integers

CONSTANTS
  Columns,      \* the columns of the table
  Narrow,       \* those whose Compare casts the literal to their type
  Lowest,       \* the smallest and
  Highest       \*   the largest value of a cell

ASSUME FiltersAssumption ==
  /\ Narrow \subseteq Columns
  /\ Lowest \in Int /\ Highest \in Int /\ Lowest <= Highest

Value == Lowest .. Highest
Row == [Columns -> Value]
BlockStats == [Columns -> [min : Value, max : Value]]
Filter == [eval : [Row -> BOOLEAN], skip : [BlockStats -> BOOLEAN]]

Op == {"EQ", "NE", "LT", "LE", "GT", "GE"}

\* static_cast<int16_t> (or int32_t) of a 64-bit literal.
Cast(c, v) ==
  IF c \in Narrow THEN Lowest + ((v - Lowest) % (Highest - Lowest + 1)) ELSE v

\* Column::Compare of one cell.
Compare(x, op, v) ==
  CASE op = "EQ" -> x = v
    [] op = "NE" -> x # v
    [] op = "LT" -> x < v
    [] op = "LE" -> x <= v
    [] op = "GT" -> x > v
    [] op = "GE" -> x >= v

\* WRONG: the bound itself is taken for a miss by >=.
CanSkipAtBound(s, op, v) ==
  CASE op = "EQ" -> s.min > v \/ s.max < v
    [] op = "NE" -> s.min = v /\ s.max = v
    [] op = "LT" -> s.min >= v
    [] op = "LE" -> s.min > v
    [] op = "GT" -> s.max <= v
    [] op = "GE" -> s.max <= v

\* CompareFilter::CanSkipBatch for the statistics of its column.
CanSkip(s, op, v) ==
  CASE op = "EQ" -> s.min > v \/ s.max < v
    [] op = "NE" -> s.min = v /\ s.max = v
    [] op = "LT" -> s.min >= v
    [] op = "LE" -> s.min > v
    [] op = "GT" -> s.max <= v
    [] op = "GE" -> s.max < v

CompareFilter(c, op, v) ==
  [eval |-> [r \in Row |-> Compare(r[c], op, Cast(c, v))],
   skip |-> [s \in BlockStats |-> CanSkip(s[c], op, v)]]

\* LikeFilter and CompareFilterByIndex decide row by row only.
RowFilter(Accepted) ==
  [eval |-> [r \in Row |-> r \in Accepted],
   skip |-> [s \in BlockStats |-> FALSE]]

NotFilter(f) ==
  [eval |-> [r \in Row |-> ~f.eval[r]],
   skip |-> [s \in BlockStats |-> FALSE]]

AndFilter(f, g) ==
  [eval |-> [r \in Row |-> f.eval[r] /\ g.eval[r]],
   skip |-> [s \in BlockStats |-> f.skip[s] \/ g.skip[s]]]

OrFilter(f, g) ==
  [eval |-> [r \in Row |-> f.eval[r] \/ g.eval[r]],
   skip |-> [s \in BlockStats |-> f.skip[s] /\ g.skip[s]]]

-----------------------------------------------------------------------------
\* Row r lies within the statistics s.
Within(r, s) == \A c \in Columns : s[c].min <= r[c] /\ r[c] <= s[c].max

\* A filter is sound if no row that it accepts can be in a group it skips.
Sound(f) ==
  \A s \in BlockStats : \A r \in Row :
    f.skip[s] /\ Within(r, s) => ~f.eval[r]

=============================================================================

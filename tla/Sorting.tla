------------------------------ MODULE Sorting ------------------------------
(***************************************************************************)
(* OrderByOperator and OrderByLimitKOperator: one call of Next pulls all   *)
(* batches of the child, keeps the rows, the second operator no more than  *)
(* k of them in a priority queue, and returns the kept rows in order.      *)
(***************************************************************************)
EXTENDS Integers, Sequences, FiniteSets

CONSTANTS
  Cells,        \* the numbers of the columns of a row
  Inputs,       \* what the child returns: sequences of batches of rows
  OrderByIds,   \* the columns to sort by, the most important one first
  IsDesc,
  K             \* the limit

Row == [Cells -> Int]
Batch == Seq(Row)

ASSUME SortingAssumption ==
  /\ Inputs \subseteq Seq(Batch)
  /\ OrderByIds \in Seq(Cells)
  /\ IsDesc \in BOOLEAN
  /\ K \in Nat \ {0}

VARIABLES
  limited,      \* whether the operator is OrderByLimitK
  input,        \* the batches that the child has still to return
  has_result,   \* result_batch_.has_value(): a batch was seen
  rows,         \* the rows of the batches pulled so far
  read,         \* how many of them the operator has looked at
  kept,         \* top_k, final_rows: the numbers of the rows kept
  result,       \* the numbers of the rows returned
  phase         \* "run", "done", or "none" for the answer nullopt

vars == <<limited, input, has_result, rows, read, kept, result, phase>>

Smaller(c, d) == IF IsDesc THEN c > d ELSE c < d

\* comp: the first sort column in which the rows differ decides.
Before(a, b) ==
  \E n \in 1 .. Len(OrderByIds) :
    /\ \A m \in 1 .. n - 1 : a[OrderByIds[m]] = b[OrderByIds[m]]
    /\ Smaller(a[OrderByIds[n]], b[OrderByIds[n]])

-----------------------------------------------------------------------------
Init ==
  /\ limited \in BOOLEAN
  /\ input \in Inputs
  /\ has_result = FALSE
  /\ rows = <<>>
  /\ read = 0
  /\ kept = {}
  /\ result = <<>>
  /\ phase = "run"

\* The first batch, be it empty, fixes the types of the result.
PullBatch ==
  /\ phase = "run" /\ read = Len(rows)
  /\ input # <<>>
  /\ rows' = rows \o Head(input)
  /\ input' = Tail(input)
  /\ has_result' = TRUE
  /\ UNCHANGED <<limited, read, kept, result, phase>>

More == phase = "run" /\ read < Len(rows)
Current == read + 1

\* WRONG: the row is counted from one instead of zero.
KeepRowBehind ==
  /\ More
  /\ limited => Cardinality(kept) < K
  /\ kept' = kept \cup {Current + 1}
  /\ read' = Current
  /\ UNCHANGED <<limited, input, has_result, rows, result, phase>>

KeepRow ==
  /\ More
  /\ limited => Cardinality(kept) < K
  /\ kept' = kept \cup {Current}
  /\ read' = Current
  /\ UNCHANGED <<limited, input, has_result, rows, result, phase>>

Full == limited /\ Cardinality(kept) >= K

\* The top of the queue: no kept row comes behind it.
IsTop(t) == t \in kept /\ \A x \in kept : ~Before(rows[t], rows[x])

\* WRONG: the first row of the queue is replaced, not its top.
ReplaceFirst ==
  /\ More /\ Full
  /\ LET t == CHOOSE x \in kept : \A y \in kept : x <= y
     IN /\ Before(rows[Current], rows[t])
        /\ kept' = (kept \ {t}) \cup {Current}
  /\ read' = Current
  /\ UNCHANGED <<limited, input, has_result, rows, result, phase>>

ReplaceTop ==
  /\ More /\ Full
  /\ \E t \in kept :
       /\ IsTop(t) /\ Before(rows[Current], rows[t])
       /\ kept' = (kept \ {t}) \cup {Current}
  /\ read' = Current
  /\ UNCHANGED <<limited, input, has_result, rows, result, phase>>

DropRow ==
  /\ More /\ Full
  /\ \E t \in kept : IsTop(t) /\ ~Before(rows[Current], rows[t])
  /\ read' = Current
  /\ UNCHANGED <<limited, input, has_result, rows, kept, result, phase>>

AtEnd == phase = "run" /\ read = Len(rows) /\ input = <<>>

\* No batch at all: the operator returns nullopt.
ReturnNothing ==
  /\ AtEnd /\ ~has_result
  /\ phase' = "none"
  /\ UNCHANGED <<limited, input, has_result, rows, read, kept, result>>

\* The kept rows, each once, in the order that comp allows: rows that compare
\* equal come in any order.
Sorted(s) ==
  \A p, q \in DOMAIN s :
    p < q => s[p] # s[q] /\ ~Before(rows[s[q]], rows[s[p]])

ReturnRows ==
  /\ AtEnd /\ has_result
  /\ result' \in [1 .. Cardinality(kept) -> kept]
  /\ Sorted(result')
  /\ phase' = "done"
  /\ UNCHANGED <<limited, input, has_result, rows, read, kept>>

Next ==
  \/ PullBatch
  \/ KeepRow
  \/ ReplaceTop
  \/ DropRow
  \/ ReturnNothing
  \/ ReturnRows

Spec == Init /\ [][Next]_vars

-----------------------------------------------------------------------------
\* Every variable has its type, and the kept rows are rows that were read.
TypeOK ==
  /\ limited \in BOOLEAN /\ has_result \in BOOLEAN
  /\ input \in Seq(Batch) /\ rows \in Batch
  /\ read \in 0 .. Len(rows)
  /\ kept \in SUBSET (1 .. read)
  /\ result \in Seq(Nat)
  /\ phase \in {"run", "done", "none"}

Count(n) == IF limited /\ n > K THEN K ELSE n

\* The answer has the first rows of the whole input in sort order: as many as
\* the limit allows, each at most once, in order, and none that was left out
\* belongs before one that was returned.
ResultIsBest ==
  phase = "done" =>
    /\ Len(result) = Count(Len(rows))
    /\ \A p, q \in 1 .. Len(result) :
         p < q => result[p] # result[q] /\ ~Before(rows[result[q]], rows[result[p]])
    /\ \A x \in 1 .. Len(rows) :
         (\A p \in 1 .. Len(result) : result[p] # x)
           => \A p \in 1 .. Len(result) : ~Before(rows[x], rows[result[p]])

=============================================================================

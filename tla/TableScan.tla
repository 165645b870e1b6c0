----------------------------- MODULE TableScan -----------------------------
(***************************************************************************)
(* A scan of a table through a chain of filters (ScanOperator,             *)
(* FilterOperator): the last filter built is pushed down to the scan,      *)
(* which skips the row groups that its statistics rule out; the others are *)
(* read, and every filter of the chain drops rows of them.                 *)
(*                                                                         *)
(* The row groups and their statistics are those that a reader has read    *)
(* from the footer of the file (module EggFile).                           *)
(***************************************************************************)
EXTENDS Filters, Naturals, Sequences

CONSTANTS
  Tables,       \* the tables: [groups : Seq(Seq(Row)), stats : Seq(BlockStats)]
  Conditions,   \* names of the filter conditions of the queries
  Condition,    \* the condition of each name
  None,         \* nullptr
  MaxFilters    \* bound on the filters of one chain

\* What EggFile provides: the statistics of a group bound its rows.
ASSUME TableScanAssumption ==
  /\ None \notin Conditions
  /\ Condition \in [Conditions -> Filter]
  /\ MaxFilters \in Nat
  /\ \A t \in Tables :
       /\ t.groups \in Seq(Seq(Row))
       /\ t.stats \in Seq(BlockStats)
       /\ Len(t.stats) = Len(t.groups)
       /\ \A g \in 1 .. Len(t.groups) : \A r \in 1 .. Len(t.groups[g]) :
            Within(t.groups[g][r], t.stats[g])

VARIABLES
  table,        \* the file that is scanned
  filters,      \* the conditions of the chain, the one nearest the scan first
  batch_filter, \* the condition that the scan holds, or None
  phase,        \* "build", "scan", "filter" or "end"
  curr_batch,   \* the next row group, counted from 1
  batch,        \* the batch on its way up: its group and the rows left of it
  level,        \* the filter that sees it next
  delivered     \* the batches that the top of the chain has returned

vars == <<table, filters, batch_filter, phase, curr_batch, batch, level,
          delivered>>

Groups == table.groups
Nothing == [group |-> 0, rows |-> {}]

-----------------------------------------------------------------------------
Init ==
  /\ table \in Tables
  /\ filters = <<>>
  /\ batch_filter = None
  /\ phase = "build"
  /\ curr_batch = 1
  /\ batch = Nothing
  /\ level = 1
  /\ delivered = <<>>

\* The constructor of a FilterOperator hands its condition to its child, and
\* filters pass it on to the scan: the last one replaces those before.
AddFilter ==
  /\ phase = "build"
  /\ Len(filters) < MaxFilters
  /\ \E f \in Conditions : /\ filters' = Append(filters, f)
                           /\ batch_filter' = f
  /\ UNCHANGED <<table, phase, curr_batch, batch, level, delivered>>

\* The first call of Next.
Start ==
  /\ phase = "build"
  /\ phase' = "scan"
  /\ UNCHANGED <<table, filters, batch_filter, curr_batch, batch, level,
                 delivered>>

MaySkip ==
  batch_filter # None /\ Condition[batch_filter].skip[table.stats[curr_batch]]

\* WRONG: the group is not passed over, and the loop looks at it again.
SkipNowhere ==
  /\ phase = "scan" /\ curr_batch <= Len(Groups)
  /\ MaySkip
  /\ UNCHANGED vars

\* WRONG: the position moves on twice.
SkipTwo ==
  /\ phase = "scan" /\ curr_batch <= Len(Groups)
  /\ MaySkip
  /\ curr_batch' = curr_batch + 2
  /\ UNCHANGED <<table, filters, batch_filter, phase, batch, level, delivered>>

SkipNextBatch ==
  /\ phase = "scan" /\ curr_batch <= Len(Groups)
  /\ MaySkip
  /\ curr_batch' = curr_batch + 1
  /\ UNCHANGED <<table, filters, batch_filter, phase, batch, level, delivered>>

ReadNextBatch ==
  /\ phase = "scan" /\ curr_batch <= Len(Groups)
  /\ ~MaySkip
  /\ batch' = [group |-> curr_batch, rows |-> 1 .. Len(Groups[curr_batch])]
  /\ curr_batch' = curr_batch + 1
  /\ level' = 1
  /\ phase' = "filter"
  /\ UNCHANGED <<table, filters, batch_filter, delivered>>

\* FilterOperator::Next keeps the rows that its condition accepts, in order.
FilterRows ==
  /\ phase = "filter" /\ level <= Len(filters)
  /\ batch' = [batch EXCEPT !.rows =
                {r \in batch.rows :
                   Condition[filters[level]].eval[Groups[batch.group][r]]}]
  /\ level' = level + 1
  /\ UNCHANGED <<table, filters, batch_filter, phase, curr_batch, delivered>>

\* The batch leaves the chain, even with no row left.
Deliver ==
  /\ phase = "filter" /\ level > Len(filters)
  /\ delivered' = Append(delivered, batch)
  /\ batch' = Nothing
  /\ phase' = "scan"
  /\ UNCHANGED <<table, filters, batch_filter, curr_batch, level>>

\* Next returns nothing: the file is exhausted.
Exhausted ==
  /\ phase = "scan" /\ curr_batch > Len(Groups)
  /\ phase' = "end"
  /\ UNCHANGED <<table, filters, batch_filter, curr_batch, batch, level,
                 delivered>>

Next ==
  \/ AddFilter
  \/ Start
  \/ SkipNextBatch
  \/ ReadNextBatch
  \/ FilterRows
  \/ Deliver
  \/ Exhausted

Spec == Init /\ [][Next]_vars

\* The consumer at the top of the chain calls Next until it returns nothing.
FairSpec == Spec /\ WF_vars(Start) /\ WF_vars(SkipNextBatch)
                 /\ WF_vars(ReadNextBatch) /\ WF_vars(FilterRows)
                 /\ WF_vars(Deliver) /\ WF_vars(Exhausted)

-----------------------------------------------------------------------------
\* Every variable has its type; no position lies beyond the end of the file.
TypeOK ==
  /\ table \in Tables
  /\ filters \in Seq(Conditions)
  /\ batch_filter \in Conditions \cup {None}
  /\ phase \in {"build", "scan", "filter", "end"}
  /\ curr_batch \in 1 .. Len(Groups) + 1
  /\ batch.group \in Nat /\ \A r \in batch.rows : r \in Nat
  /\ level \in Nat
  /\ \A k \in 1 .. Len(delivered) : delivered[k].group \in 1 .. Len(Groups)

\* The rows of a group that all the conditions of the chain accept.
Matching(g) ==
  {r \in 1 .. Len(Groups[g]) :
     \A l \in 1 .. Len(filters) : Condition[filters[l]].eval[Groups[g][r]]}

\* The whole chain answers as if every row of the file had been tested: each
\* batch holds exactly the rows of its group that match, the batches come in
\* the order of the file, and a group passed over has no row that matches,
\* whichever filters were pushed down (BlockSkippingTest looks at single
\* calls of CanSkipBatch only).
ScanIsExact ==
  /\ \A k \in 1 .. Len(delivered) :
       delivered[k].rows = Matching(delivered[k].group)
  /\ \A j, k \in 1 .. Len(delivered) :
       j < k => delivered[j].group < delivered[k].group
  /\ \A g \in 1 .. Len(Groups) :
       g < curr_batch /\ g # batch.group /\ Matching(g) # {} =>
         \E k \in 1 .. Len(delivered) : delivered[k].group = g

\* A chain whose consumer keeps asking comes to the end of the file, however
\* many groups are skipped in one call.
ScanEnds == phase = "scan" ~> phase = "end"

=============================================================================

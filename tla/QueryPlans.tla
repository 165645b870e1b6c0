----------------------------- MODULE QueryPlans -----------------------------
(***************************************************************************)
(* The query plans: a plan builds a tree of operators out of a scan (module*)
(* TableScan), an aggregation (Aggregation) and a sort (Sorting), calls    *)
(* Next of the topmost one and prints a slice of what it returns.  Each    *)
(* operator pulls batches from the one below only while it waits for one.  *)
(*                                                                         *)
(* Columns are numbered.  A scanned row has column 1, by which plans group,*)
(* and columns 2 and 3; the answer of an aggregation is the key, the       *)
(* number of rows and the average of column 2.                             *)
(***************************************************************************)
EXTENDS Sorting, ClickBenchQueries, SequencesExt

CONSTANTS
  Narrow, Lowest, Highest, Tables, Conditions, Condition, None,  \* of TableScan
  HalfRange,        \* of Aggregation
  Comparisons, Likes, Mixed,  \* conditions, by the tests that they stand for
  Offset, Limit,    \* what stands for an OFFSET and a LIMIT of a loop
  Everything,       \* no fewer rows than a table or a LIMIT has
  HavingCount,      \* HAVING COUNT(*) > HavingCount
  Common            \* a multiple of every number of rows

\* The shape of a plan: its WHERE, its aggregation over all rows or groups of
\* them, with an average or not, its HAVING, its sort, and the slice it prints.
Plan == [where : Conditions \cup {None}, aggregate : {"no", "all", "groups"},
         average : BOOLEAN, having : BOOLEAN, sort : {"no", "all", "limit"},
         offset : Nat, limit : Nat]

ASSUME QueryPlansAssumption ==
  /\ Cells = 1 .. 3
  /\ Inputs = {<<>>}
  /\ HavingCount \in Nat /\ Common \in Nat \ {0} /\ HalfRange \in Nat \ {0}
  /\ Comparisons \cup Likes \cup Mixed \subseteq Conditions
  /\ {Offset, Limit, Everything} \subseteq Nat
  /\ K <= Everything
  /\ \A t \in Tables : Len(FlattenSeq(t.groups)) <= Everything

\* What the tests of a plan decide: CompareFilter by statistics, LikeFilter by
\* the row, and AndFilter of both.
WhereOf(q) ==
  LET likes == {t \in q.tests : t.op = "LIKE"}
  IN CASE q.tests = {} -> {None}
       [] q.tests # {} /\ likes = {} -> Comparisons
       [] likes # {} /\ likes = q.tests -> Likes
       [] OTHER -> Mixed

PlansOf(q) ==
  [where : WhereOf(q), aggregate : {q.aggregate},
   average : {\E n \in DOMAIN q.ops : q.ops[n].op = "AVG"},
   having : {q.having # <<>>}, sort : {q.sort},
   offset : {IF q.offset = 0 THEN 0 ELSE Offset},
   limit : {IF q.limit = "all" THEN Everything ELSE Limit}]

VARIABLES
  query, plan,           \* the query and its plan
  output, status,        \* the answer, and "running", "answered" or "refused"
  table, filters, batch_filter, scan_phase, curr_batch, batch, level, delivered,
  grouped, agg_input, agg_rows, agg_read, hash_to_group_id, group_name,
  group_to_accumulators, members, agg_result, agg_phase

scan_vars == <<table, filters, batch_filter, scan_phase, curr_batch, batch, level,
               delivered>>
agg_vars == <<grouped, agg_input, agg_rows, agg_read, hash_to_group_id, group_name,
              group_to_accumulators, members, agg_result, agg_phase>>
plan_vars == <<query, plan, output, status>>
all_vars == <<plan_vars, scan_vars, agg_vars, vars>>

Scan == INSTANCE TableScan WITH
  Columns <- Cells, MaxFilters <- 1, phase <- scan_phase

ASSUME ScanAssumption == Scan!FiltersAssumption /\ Scan!TableScanAssumption

\* A plan counts, and takes an average or another count.
Averages == INSTANCE Aggregation WITH
  Ops <- <<"COUNT", "AVG">>, Bytes <- {},
  input <- agg_input, rows <- agg_rows, read <- agg_read, result <- agg_result,
  phase <- agg_phase
Counts == INSTANCE Aggregation WITH
  Ops <- <<"COUNT", "COUNT">>, Bytes <- {},
  input <- agg_input, rows <- agg_rows, read <- agg_read, result <- agg_result,
  phase <- agg_phase

-----------------------------------------------------------------------------
PlansInit ==
  /\ query \in QueryIds /\ plan \in PlansOf(Queries[query])
  /\ output = <<>> /\ status = "running"
  /\ Scan!Init
  /\ IF plan.average THEN Averages!Init ELSE Counts!Init
  /\ grouped = (plan.aggregate = "groups")
  /\ Init /\ limited = (plan.sort = "limit")

\* The operators wait for a batch of the operator below.
AggregationWaits == agg_phase = "run" /\ agg_input = <<>> /\ agg_read = Len(agg_rows)
SortWaits == phase = "run" /\ input = <<>> /\ read = Len(rows)
ScanAsked ==
  CASE plan.aggregate # "no" -> AggregationWaits
    [] plan.aggregate = "no" /\ plan.sort # "no" -> SortWaits
    [] OTHER -> status = "running"

-----------------------------------------------------------------------------
\* FilterOperator is built on the scan.
BuildFilter ==
  /\ plan.where # None /\ filters = <<>>
  /\ Scan!AddFilter /\ filters' = <<plan.where>>
  /\ UNCHANGED <<plan_vars, agg_vars, vars>>

StartScan ==
  /\ plan.where = None \/ filters # <<>>
  /\ Scan!Start
  /\ UNCHANGED <<plan_vars, agg_vars, vars>>

ScanWorks ==
  /\ ScanAsked
  /\ Scan!SkipNextBatch \/ Scan!ReadNextBatch \/ Scan!FilterRows
  /\ UNCHANGED <<plan_vars, agg_vars, vars>>

ScanEnds ==
  /\ ScanAsked /\ Scan!Exhausted
  /\ UNCHANGED <<plan_vars, agg_vars, vars>>

\* The elements of s that are in A, in their order.
Filtered(s, A) ==
  FoldLeft(LAMBDA t, x : IF x \in A THEN Append(t, x) ELSE t, <<>>, s)

\* The rows of the batch that leaves the filters.
BatchRows ==
  LET group == Scan!Groups[batch.group]
      numbers == Filtered([n \in 1 .. Len(group) |-> n], batch.rows)
  IN [n \in 1 .. Len(numbers) |-> group[numbers[n]]]

ToAggregate(r) == [key |-> <<[int |-> r[1]]>>, values |-> <<r[2], r[2]>>]

AggregationPulls ==
  /\ plan.aggregate # "no" /\ ScanAsked /\ Scan!Deliver
  /\ agg_input' = <<[n \in 1 .. Len(BatchRows) |-> ToAggregate(BatchRows[n])]>>
  /\ UNCHANGED <<plan_vars, vars, grouped, agg_rows, agg_read, hash_to_group_id,
                 group_name, group_to_accumulators, members, agg_result, agg_phase>>

SortPulls ==
  /\ plan.aggregate = "no" /\ plan.sort # "no" /\ ScanAsked /\ Scan!Deliver
  /\ input' = <<BatchRows>>
  /\ UNCHANGED <<plan_vars, agg_vars, limited, has_result, rows, read, kept,
                 result, phase>>

\* A plan of neither kind prints the batches in a loop.
PrintBatch ==
  /\ plan.aggregate = "no" /\ plan.sort = "no" /\ ScanAsked /\ Scan!Deliver
  /\ output' = output \o BatchRows
  /\ UNCHANGED <<query, plan, status, agg_vars, vars>>

EndOfLoop ==
  /\ plan.aggregate = "no" /\ plan.sort = "no" /\ status = "running"
  /\ scan_phase = "end"
  /\ status' = "answered"
  /\ UNCHANGED <<query, plan, output, scan_vars, agg_vars, vars>>

-----------------------------------------------------------------------------
AggregationWorks ==
  /\ \/ plan.average /\ \/ Averages!PullBatch
                         \/ Averages!NewGroup
                         \/ Averages!KnownGroup
                         \/ Averages!UpdateColumns
     \/ ~plan.average /\ \/ Counts!PullBatch
                          \/ Counts!NewGroup
                          \/ Counts!KnownGroup
                          \/ Counts!UpdateColumns
  /\ UNCHANGED <<plan_vars, scan_vars, vars>>

\* An average is a number that is ordered like the quotient.
Average(sum, count) == (sum * Common) \div count
Value(v) == IF plan.average THEN Average(v[1], v[2]) ELSE v

\* A row that the aggregation returns; the total of all rows has no key.
ToRow(r) == <<IF grouped THEN r.name[1].int ELSE 0, r.values[1], Value(r.values[2])>>

\* CompareFilterByIndex on the number of rows.
Having(s) == Filtered(s, {r \in ToSet(s) : plan.having => r[2] > HavingCount})

\* WRONG: the end is counted from the first row instead of the offset.
SliceFromStart(s, p) ==
  LET begin == IF p.offset < Len(s) THEN p.offset ELSE Len(s)
      end == IF p.limit < Len(s) THEN p.limit ELSE Len(s)
  IN SubSeq(s, begin + 1, end)

\* The rows that are printed: LIMIT rows from OFFSET on, as far as there are.
Slice(s, p) ==
  LET begin == IF p.offset < Len(s) THEN p.offset ELSE Len(s)
      end == IF begin + p.limit < Len(s) THEN begin + p.limit ELSE Len(s)
  IN SubSeq(s, begin + 1, end)

\* The rows that the aggregation returns in this step.
AnswerReady == IF plan.average THEN Averages!ReturnRows ELSE Counts!ReturnRows
Returned == [n \in DOMAIN agg_result' |-> ToRow(agg_result'[n])]

\* HAVING filters the batch on its way to the sort.
SortPullsAnswer ==
  /\ plan.aggregate # "no" /\ plan.sort # "no" /\ SortWaits
  /\ scan_phase = "end" /\ AnswerReady
  /\ input' = <<Having(Returned)>>
  /\ UNCHANGED <<plan_vars, scan_vars, limited, has_result, rows, read, kept,
                 result, phase>>

PrintAggregates ==
  /\ plan.aggregate # "no" /\ plan.sort = "no"
  /\ scan_phase = "end" /\ AnswerReady
  /\ output' = Slice(Returned, plan)
  /\ status' = "answered"
  /\ UNCHANGED <<query, plan, scan_vars, vars>>

\* The second call of Next.
AggregationEnds ==
  /\ plan.sort # "no" /\ SortWaits /\ Counts!ReturnNothing
  /\ UNCHANGED <<plan_vars, scan_vars, vars>>

\* The average of no rows at all.
AverageFails ==
  /\ plan.aggregate # "no" /\ plan.average
  /\ scan_phase = "end" /\ Averages!AverageThrows
  /\ status' = "refused"
  /\ UNCHANGED <<query, plan, output, scan_vars, vars>>

-----------------------------------------------------------------------------
SortWorks ==
  /\ \/ PullBatch
     \/ KeepRow
     \/ ReplaceTop
     \/ DropRow
  /\ UNCHANGED <<plan_vars, scan_vars, agg_vars>>

ChildEnded == IF plan.aggregate = "no" THEN scan_phase = "end" ELSE agg_phase = "none"

PrintSorted ==
  /\ plan.sort # "no" /\ ChildEnded /\ ReturnRows
  /\ output' = Slice([n \in DOMAIN result' |-> rows[result'[n]]], plan)
  /\ status' = "answered"
  /\ UNCHANGED <<query, plan, scan_vars, agg_vars>>

\* CHECK_TRUE(batch.has_value()) throws.
RefuseNothing ==
  /\ plan.sort # "no" /\ ChildEnded /\ ReturnNothing
  /\ status' = "refused"
  /\ UNCHANGED <<query, plan, output, scan_vars, agg_vars>>

PlansNext ==
  \/ BuildFilter
  \/ StartScan
  \/ ScanWorks
  \/ ScanEnds
  \/ AggregationPulls
  \/ SortPulls
  \/ PrintBatch
  \/ EndOfLoop
  \/ AggregationWorks
  \/ SortPullsAnswer
  \/ PrintAggregates
  \/ AggregationEnds
  \/ AverageFails
  \/ SortWorks
  \/ PrintSorted
  \/ RefuseNothing

\* One thread runs the plan to its end.
PlansSpec == PlansInit /\ [][PlansNext]_all_vars /\ WF_all_vars(PlansNext)

-----------------------------------------------------------------------------
\* What the query asks for, over the whole table: the rows that WHERE accepts,
\* or one row for each of their keys, or for all of them.
Selected ==
  Filtered(FlattenSeq(table.groups),
           {r \in Scan!Row : plan.where # None => Condition[plan.where].eval[r]})

\* The answer for the selected rows with these numbers.
Summary(key, numbers) ==
  <<key, Cardinality(numbers),
    IF plan.average
      THEN Average(MapThenSumSet(LAMBDA n : Selected[n][2], numbers), Cardinality(numbers))
      ELSE Cardinality(numbers)>>

OfKey(key) == {n \in DOMAIN Selected : Selected[n][1] = key}
Keys == {Selected[n][1] : n \in DOMAIN Selected}

\* The rows that the query asks for; those of groups are known by their key.
Wanted ==
  CASE plan.aggregate = "no" -> Selected
    [] plan.aggregate = "all" -> <<Summary(0, DOMAIN Selected)>>
    [] plan.aggregate = "groups" ->
         [key \in {k \in Keys : plan.having => Cardinality(OfKey(k)) > HavingCount} |->
            Summary(key, OfKey(key))]

\* How often r is one of the values of f, and where else the sort wants them.
Times(f, r) == Cardinality({n \in DOMAIN f : f[n] = r})
Ahead(f, r) == Cardinality({n \in DOMAIN f : Before(f[n], r)})
Behind(f, r) == Cardinality({n \in DOMAIN f : Before(r, f[n])})

\* The whole plan, from the statistics of the file to the printed slice,
\* answers what the query asks of the table, however the rows are cut into row
\* groups and whichever of these are skipped: LIMIT rows from OFFSET on, each
\* of them wanted, none more often than it is wanted, and each at a place that
\* ORDER BY allows it, behind all rows that come before it and with room for
\* all that it comes before.
AnswerIsExact ==
  status = "answered" =>
    LET wanted == Wanted
        amount == Cardinality(DOMAIN wanted)
        limit == IF plan.sort = "limit" THEN K ELSE plan.limit
        slice == {n \in 1 .. amount : plan.offset < n /\ n <= plan.offset + limit}
    IN /\ Len(output) = Cardinality(slice)
       /\ \A n \in 1 .. Len(output) :
            /\ Times(output, output[n]) <= Times(wanted, output[n])
            /\ plan.sort # "no" =>
                 /\ Ahead(wanted, output[n]) < plan.offset + n
                 /\ plan.offset + n <= amount - Behind(wanted, output[n])

\* A query fails only if no row of the table matches: an average, or a sorted
\* plan without GROUP BY to which the scan has returned no batch.
RefusedWithoutRowsOnly ==
  status = "refused" =>
    /\ Selected = <<>>
    /\ \/ plan.aggregate = "all" /\ plan.average
       \/ plan.aggregate = "no" /\ plan.sort # "no" /\ delivered = <<>>

\* The plan of every query asks for columns that it scans, for indexes that its
\* operators return, for literals within the types of their columns, and for
\* aggregations that these have: what the modules of the operators assume.
PlansFitTheScheme == PlanFits(Queries[query])

\* Every query is answered or refused in the end: no operator waits for a
\* batch that the one below does not return, and no loop runs for ever.
QueryEnds == status = "running" ~> status # "running"

=============================================================================

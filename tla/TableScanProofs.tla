-------------------------- MODULE TableScanProofs --------------------------
(***************************************************************************)
(* Proofs about filters and scans.  First, for all integers: every filter  *)
(* that the classes of operators.h build is sound, that is, never skips a  *)
(* row group with a row that it accepts.  Then, for every table and every  *)
(* chain of sound filters: the scan delivers exactly the matching rows.    *)
(***************************************************************************)
EXTENDS TableScan, SequenceTheorems, TLAPS

USE FiltersAssumption

\* A literal within the range of the column is not changed by the cast.
LEMMA CastIsHarmless ==
  ASSUME NEW c, NEW v \in Int, c \in Narrow => v \in Value
  PROVE  Cast(c, v) = v
<1>1. CASE c \in Narrow
  <2>1. v - Lowest \in 0 .. (Highest - Lowest + 1) - 1
    BY <1>1 DEF Value
  <2>2. (v - Lowest) % (Highest - Lowest + 1) = v - Lowest
    BY <2>1
  <2> QED BY <1>1, <2>2 DEF Cast
<1>2. CASE c \notin Narrow
  BY <1>2 DEF Cast
<1> QED BY <1>1, <1>2

\* A comparison with a literal that fits the type of its column skips no
\* group with a row that Compare accepts, for each of the six operators.
THEOREM CompareIsSound ==
  ASSUME NEW c \in Columns, NEW op \in Op, NEW v \in Int,
         c \in Narrow => v \in Value
  PROVE  Sound(CompareFilter(c, op, v))
<1> DEFINE f == CompareFilter(c, op, v)
<1> SUFFICES ASSUME NEW s \in BlockStats, NEW r \in Row,
                    f.skip[s], Within(r, s)
             PROVE  ~f.eval[r]
  BY DEF Sound
<1>1. /\ r[c] \in Int /\ s[c].min \in Int /\ s[c].max \in Int
      /\ s[c].min <= r[c] /\ r[c] <= s[c].max
  BY DEF Row, BlockStats, Value, Within
<1>2. CanSkip(s[c], op, v)
  BY DEF CompareFilter
<1>3. ~Compare(r[c], op, v)
  <2>1. CASE op = "EQ"
    BY <1>1, <1>2, <2>1 DEF CanSkip, Compare
  <2>2. CASE op = "NE"
    BY <1>1, <1>2, <2>2 DEF CanSkip, Compare
  <2>3. CASE op = "LT"
    BY <1>1, <1>2, <2>3 DEF CanSkip, Compare
  <2>4. CASE op = "LE"
    BY <1>1, <1>2, <2>4 DEF CanSkip, Compare
  <2>5. CASE op = "GT"
    BY <1>1, <1>2, <2>5 DEF CanSkip, Compare
  <2>6. CASE op = "GE"
    BY <1>1, <1>2, <2>6 DEF CanSkip, Compare
  <2> QED BY <2>1, <2>2, <2>3, <2>4, <2>5, <2>6 DEF Op
<1>4. Cast(c, v) = v
  BY CastIsHarmless
<1> QED BY <1>3, <1>4 DEF CompareFilter

\* Conjunction, disjunction and negation of sound filters are sound, and so is
\* every filter that skips nothing.
THEOREM CombinationsAreSound ==
  ASSUME NEW f, Sound(f), NEW g, Sound(g), NEW Accepted
  PROVE  /\ Sound(AndFilter(f, g))
         /\ Sound(OrFilter(f, g))
         /\ Sound(NotFilter(f))
         /\ Sound(RowFilter(Accepted))
<1>1. Sound(AndFilter(f, g))
  BY DEF Sound, AndFilter
<1>2. Sound(OrFilter(f, g))
  BY DEF Sound, OrFilter
<1>3. Sound(NotFilter(f))
  BY DEF Sound, NotFilter
<1>4. Sound(RowFilter(Accepted))
  BY DEF Sound, RowFilter
<1> QED BY <1>1, <1>2, <1>3, <1>4

-----------------------------------------------------------------------------
USE TableScanAssumption

TypeInv ==
  /\ table \in Tables
  /\ filters \in Seq(Conditions)
  /\ phase \in {"build", "scan", "filter", "end"}
  /\ curr_batch \in 1 .. Len(Groups) + 1
  /\ level \in Nat
  /\ delivered \in Seq([group : Nat, rows : SUBSET Nat])

\* What the scan may skip by is one of the conditions of the chain.
PushdownInv ==
  /\ batch_filter \in Conditions \cup {None}
  /\ batch_filter # None =>
       \E l \in 1 .. Len(filters) : filters[l] = batch_filter

\* Nothing is read before the chain is complete.
BuildInv == phase = "build" => curr_batch = 1 /\ delivered = <<>>

\* The batch under way is the last one read, with the rows that the filters
\* below the current level accept.
BatchInv ==
  IF phase = "filter"
    THEN /\ batch.group = curr_batch - 1
         /\ batch.group \in 1 .. Len(Groups)
         /\ level \in 1 .. Len(filters) + 1
         /\ batch = [group |-> batch.group,
                     rows |-> {r \in 1 .. Len(Groups[batch.group]) :
                        \A l \in 1 .. Len(filters) :
                          l < level => Condition[filters[l]].eval
                                         [Groups[batch.group][r]]}]
    ELSE batch = Nothing

\* What has been delivered lies before it.
BehindInv ==
  \A k \in 1 .. Len(delivered) :
    /\ delivered[k].group \in 1 .. Len(Groups)
    /\ delivered[k].group < curr_batch
    /\ phase = "filter" => delivered[k].group < batch.group

IInv == /\ TypeInv /\ PushdownInv /\ BuildInv /\ BatchInv /\ BehindInv
        /\ ScanIsExact

AllSound == \A f \in Conditions : Sound(Condition[f])

LEMMA TableFacts ==
  ASSUME TypeInv
  PROVE  /\ Groups \in Seq(Seq(Row)) /\ Len(Groups) \in Nat
         /\ \A g \in 1 .. Len(Groups) :
              /\ Groups[g] \in Seq(Row)
              /\ Len(Groups[g]) \in Nat
              /\ table.stats[g] \in BlockStats
              /\ \A r \in 1 .. Len(Groups[g]) :
                   Groups[g][r] \in Row /\ Within(Groups[g][r], table.stats[g])
         /\ Len(filters) \in Nat
         /\ \A l \in 1 .. Len(filters) : filters[l] \in Conditions
<1>1. /\ Groups \in Seq(Seq(Row)) /\ table.stats \in Seq(BlockStats)
      /\ Len(table.stats) = Len(Groups)
      /\ \A g \in 1 .. Len(Groups) : \A r \in 1 .. Len(Groups[g]) :
           Within(Groups[g][r], table.stats[g])
  BY DEF TypeInv, Groups
<1>2. Len(Groups) \in Nat
  BY <1>1
<1>3. \A g \in 1 .. Len(Groups) : Groups[g] \in Seq(Row)
                                  /\ table.stats[g] \in BlockStats
  BY <1>1, ElementOfSeq
<1>4. \A g \in 1 .. Len(Groups) :
        /\ Len(Groups[g]) \in Nat
        /\ \A r \in 1 .. Len(Groups[g]) : Groups[g][r] \in Row
  BY <1>3, ElementOfSeq
<1>5. Len(filters) \in Nat /\ \A l \in 1 .. Len(filters) : filters[l] \in Conditions
  BY ElementOfSeq DEF TypeInv
<1> QED BY <1>1, <1>2, <1>3, <1>4, <1>5

LEMMA InitStep ==
  ASSUME Init
  PROVE  IInv
<1>1. Groups \in Seq(Seq(Row))
  BY DEF Init, Groups
<1>2. Len(Groups) \in Nat
  BY <1>1
<1>3. TypeInv
  BY <1>2 DEF Init, TypeInv
<1>4. PushdownInv /\ BuildInv /\ BatchInv /\ BehindInv
  BY DEF Init, PushdownInv, BuildInv, BatchInv, BehindInv
<1>5. ScanIsExact
  BY <1>2 DEF Init, ScanIsExact, Nothing
<1> QED BY <1>3, <1>4, <1>5 DEF IInv

\* While the chain is built nothing has been delivered.
LEMMA AddFilterStep ==
  ASSUME IInv, AddFilter
  PROVE  IInv'
<1>1. /\ phase = "build" /\ phase' = "build" /\ table' = table
      /\ curr_batch' = curr_batch /\ curr_batch = 1 /\ batch' = batch
      /\ level' = level /\ delivered' = delivered /\ delivered = <<>>
      /\ Groups' = Groups
  BY DEF AddFilter, IInv, BuildInv, Groups
<1>2. PICK f \in Conditions : filters' = Append(filters, f) /\ batch_filter' = f
  BY DEF AddFilter
<1>3. /\ filters' \in Seq(Conditions) /\ Len(filters) \in Nat
      /\ Len(filters') = Len(filters) + 1
      /\ filters'[Len(filters) + 1] = f
  BY <1>2, AppendProperties DEF IInv, TypeInv
<1>4. TypeInv'
  BY <1>1, <1>3 DEF IInv, TypeInv
<1>5. PushdownInv'
  <2>1. Len(filters) + 1 \in 1 .. Len(filters')
    BY <1>3
  <2> QED BY <1>2, <1>3, <2>1 DEF PushdownInv
<1>6. BuildInv' /\ BatchInv' /\ BehindInv'
  BY <1>1 DEF IInv, BuildInv, BatchInv, BehindInv, Nothing
<1>7. ScanIsExact'
  <2>1. Len(Groups) \in Nat
    BY TableFacts DEF IInv
  <2> QED BY <1>1, <2>1 DEF ScanIsExact
<1> QED BY <1>4, <1>5, <1>6, <1>7 DEF IInv

LEMMA StartStep ==
  ASSUME IInv, Start
  PROVE  IInv'
<1>1. /\ phase = "build" /\ phase' = "scan"
      /\ UNCHANGED <<table, filters, batch_filter, curr_batch, batch, level,
                     delivered>>
  BY DEF Start
<1> QED BY <1>1 DEF IInv, TypeInv, PushdownInv, BuildInv, BatchInv, BehindInv,
                    ScanIsExact, Matching, Groups, Nothing

\* The heart of the argument: what the pushed condition skips holds no row
\* that the chain would let through, whatever the other conditions are.
LEMMA SkippedHasNoMatch ==
  ASSUME AllSound, IInv, curr_batch <= Len(Groups), MaySkip
  PROVE  Matching(curr_batch) = {}
<1> SUFFICES ASSUME NEW r \in 1 .. Len(Groups[curr_batch]),
                    \A l \in 1 .. Len(filters) :
                      Condition[filters[l]].eval[Groups[curr_batch][r]]
             PROVE  FALSE
  BY DEF Matching
<1>1. /\ batch_filter \in Conditions
      /\ Condition[batch_filter].skip[table.stats[curr_batch]]
  BY DEF MaySkip, IInv, PushdownInv
<1>2. PICK l \in 1 .. Len(filters) : filters[l] = batch_filter
  BY <1>1 DEF IInv, PushdownInv
<1>3. curr_batch \in 1 .. Len(Groups)
  BY TableFacts DEF IInv, TypeInv
<1>4. /\ Groups[curr_batch][r] \in Row /\ table.stats[curr_batch] \in BlockStats
      /\ Within(Groups[curr_batch][r], table.stats[curr_batch])
  BY <1>3, TableFacts DEF IInv
<1>5. ~Condition[batch_filter].eval[Groups[curr_batch][r]]
  BY <1>1, <1>4 DEF AllSound, Sound
<1> QED BY <1>2, <1>5

LEMMA SkipStep ==
  ASSUME AllSound, IInv, SkipNextBatch
  PROVE  IInv'
<1>1. /\ phase = "scan" /\ curr_batch <= Len(Groups)
      /\ curr_batch' = curr_batch + 1
      /\ UNCHANGED <<table, filters, batch_filter, phase, batch, level,
                     delivered>>
      /\ Groups' = Groups
  BY DEF SkipNextBatch, Groups
<1>2. curr_batch \in Nat /\ Len(Groups) \in Nat
  BY TableFacts DEF IInv, TypeInv
<1>3. TypeInv'
  BY <1>1, <1>2 DEF IInv, TypeInv
<1>4. PushdownInv' /\ BuildInv' /\ BatchInv'
  BY <1>1 DEF IInv, PushdownInv, BuildInv, BatchInv, Nothing
<1>5. BehindInv'
  BY <1>1, <1>2 DEF IInv, BehindInv
<1>6. ScanIsExact'
  <2>1. Matching(curr_batch) = {}
    BY <1>1, SkippedHasNoMatch DEF SkipNextBatch
  <2>2. \A g \in 1 .. Len(Groups) : Matching(g)' = Matching(g)
    BY <1>1 DEF Matching
  <2>3. \A k \in 1 .. Len(delivered) :
          Matching(delivered[k].group)' = Matching(delivered[k].group)
    BY <1>1, <2>2 DEF IInv, BehindInv
  <2>4. \A g \in 1 .. Len(Groups) :
          g < curr_batch + 1 => g < curr_batch \/ g = curr_batch
    BY <1>2
  <2> QED BY <1>1, <2>1, <2>2, <2>3, <2>4 DEF IInv, ScanIsExact
<1> QED BY <1>3, <1>4, <1>5, <1>6 DEF IInv

LEMMA ReadStep ==
  ASSUME IInv, ReadNextBatch
  PROVE  IInv'
<1>1. /\ phase = "scan" /\ phase' = "filter" /\ curr_batch <= Len(Groups)
      /\ batch' = [group |-> curr_batch,
                   rows |-> 1 .. Len(Groups[curr_batch])]
      /\ curr_batch' = curr_batch + 1 /\ level' = 1
      /\ UNCHANGED <<table, filters, batch_filter, delivered>>
      /\ Groups' = Groups
  BY DEF ReadNextBatch, Groups
<1>2. /\ curr_batch \in 1 .. Len(Groups) /\ Len(Groups) \in Nat
      /\ Len(filters) \in Nat /\ batch = Nothing
  BY <1>1, TableFacts DEF IInv, TypeInv, BatchInv
<1>3. TypeInv'
  BY <1>1, <1>2 DEF IInv, TypeInv
<1>4. PushdownInv' /\ BuildInv'
  BY <1>1 DEF IInv, PushdownInv, BuildInv
<1>5. BatchInv'
  <2>1. \A l \in 1 .. Len(filters) : ~(l < 1)
    BY <1>2
  <2>2. 1 .. Len(Groups[curr_batch])
          = {r \in 1 .. Len(Groups[curr_batch]) :
               \A l \in 1 .. Len(filters) :
                 l < 1 => Condition[filters[l]].eval[Groups[curr_batch][r]]}
    BY <2>1
  <2>3. batch'.group = curr_batch /\ curr_batch'- 1 = curr_batch
    BY <1>1, <1>2
  <2>4. 1 \in 1 .. Len(filters) + 1
    BY <1>2
  <2> QED BY <1>1, <1>2, <2>2, <2>3, <2>4 DEF BatchInv
<1>6. BehindInv'
  BY <1>1, <1>2 DEF IInv, BehindInv
<1>7. ScanIsExact'
  <2>1. \A g \in 1 .. Len(Groups) : Matching(g)' = Matching(g)
    BY <1>1 DEF Matching
  <2>2. \A k \in 1 .. Len(delivered) :
          Matching(delivered[k].group)' = Matching(delivered[k].group)
    BY <1>1, <2>1 DEF IInv, BehindInv
  <2>3. \A g \in 1 .. Len(Groups) :
          g < curr_batch' /\ g # batch'.group => g < curr_batch /\ g # batch.group
    BY <1>1, <1>2 DEF Nothing
  <2> QED BY <1>1, <2>1, <2>2, <2>3 DEF IInv, ScanIsExact
<1> QED BY <1>3, <1>4, <1>5, <1>6, <1>7 DEF IInv

LEMMA FilterStep ==
  ASSUME IInv, FilterRows
  PROVE  IInv'
<1>1. /\ phase = "filter" /\ level <= Len(filters) /\ level' = level + 1
      /\ UNCHANGED <<table, filters, batch_filter, phase, curr_batch, delivered>>
      /\ Groups' = Groups
  BY DEF FilterRows, Groups
<1>2. /\ Len(filters) \in Nat /\ level \in 1 .. Len(filters)
      /\ batch.group = curr_batch - 1 /\ batch.group \in 1 .. Len(Groups)
      /\ batch = [group |-> batch.group,
                  rows |-> {r \in 1 .. Len(Groups[batch.group]) :
                     \A l \in 1 .. Len(filters) :
                       l < level => Condition[filters[l]].eval
                                      [Groups[batch.group][r]]}]
  BY <1>1, TableFacts DEF IInv, BatchInv, TypeInv
<1> DEFINE Accepts(l, r) ==
      Condition[filters[l]].eval[Groups[batch.group][r]]
<1>3. batch' = [group |-> batch.group,
                rows |-> {r \in batch.rows : Accepts(level, r)}]
  BY <1>2 DEF FilterRows
<1>4. {r \in batch.rows : Accepts(level, r)}
        = {r \in 1 .. Len(Groups[batch.group]) :
             \A l \in 1 .. Len(filters) : l < level + 1 => Accepts(l, r)}
  <2>1. \A l \in 1 .. Len(filters) : l < level + 1 <=> l < level \/ l = level
    BY <1>2
  <2>2. batch.rows = {r \in 1 .. Len(Groups[batch.group]) :
                        \A l \in 1 .. Len(filters) : l < level => Accepts(l, r)}
    BY <1>2
  <2> HIDE DEF Accepts
  <2> QED BY <1>2, <2>1, <2>2
<1>5. TypeInv'
  BY <1>1, <1>2 DEF IInv, TypeInv
<1>6. PushdownInv' /\ BuildInv'
  BY <1>1 DEF IInv, PushdownInv, BuildInv
<1>7. BatchInv'
  <2>1. level' \in 1 .. Len(filters) + 1
    BY <1>1, <1>2
  <2>2. batch'.group = batch.group
    BY <1>3
  <2> QED BY <1>1, <1>2, <1>3, <1>4, <2>1, <2>2 DEF BatchInv
<1>8. BehindInv'
  BY <1>1, <1>3 DEF IInv, BehindInv
<1>9. ScanIsExact'
  <2>1. batch'.group = batch.group
    BY <1>3
  <2>2. \A g : Matching(g)' = Matching(g)
    BY <1>1 DEF Matching
  <2> QED BY <1>1, <2>1, <2>2 DEF IInv, ScanIsExact
<1> QED BY <1>5, <1>6, <1>7, <1>8, <1>9 DEF IInv

LEMMA DeliverStep ==
  ASSUME IInv, Deliver
  PROVE  IInv'
<1>1. /\ phase = "filter" /\ phase' = "scan" /\ level > Len(filters)
      /\ delivered' = Append(delivered, batch) /\ batch' = Nothing
      /\ UNCHANGED <<table, filters, batch_filter, curr_batch, level>>
      /\ Groups' = Groups
  BY DEF Deliver, Groups
<1>2. /\ Len(filters) \in Nat /\ level \in Nat /\ Len(Groups) \in Nat
      /\ batch.group = curr_batch - 1 /\ batch.group \in 1 .. Len(Groups)
      /\ batch = [group |-> batch.group,
                  rows |-> {r \in 1 .. Len(Groups[batch.group]) :
                     \A l \in 1 .. Len(filters) :
                       l < level => Condition[filters[l]].eval
                                      [Groups[batch.group][r]]}]
  BY <1>1, TableFacts DEF IInv, BatchInv, TypeInv
<1>3. batch.rows = Matching(batch.group)
  <2>1. \A l \in 1 .. Len(filters) : l < level
    BY <1>1, <1>2
  <2> QED BY <1>2, <2>1 DEF Matching
<1>4. batch \in [group : Nat, rows : SUBSET Nat]
  <2>1. Matching(batch.group) \subseteq Nat
    <3>1. Len(Groups[batch.group]) \in Nat
      BY <1>2, TableFacts DEF IInv
    <3> QED BY <3>1 DEF Matching
  <2>2. batch = [group |-> batch.group, rows |-> Matching(batch.group)]
    BY <1>2, <1>3
  <2>3. batch.group \in Nat
    BY <1>2
  <2> QED BY <2>1, <2>2, <2>3
<1>5. /\ delivered' \in Seq([group : Nat, rows : SUBSET Nat])
      /\ Len(delivered) \in Nat /\ Len(delivered') = Len(delivered) + 1
      /\ \A k \in 1 .. Len(delivered) : delivered'[k] = delivered[k]
      /\ delivered'[Len(delivered) + 1] = batch
  BY <1>1, <1>4, AppendProperties DEF IInv, TypeInv
<1>6. \A k \in 1 .. Len(delivered') :
        k \in 1 .. Len(delivered) \/ k = Len(delivered) + 1
  BY <1>5
<1>7. TypeInv'
  BY <1>1, <1>5 DEF IInv, TypeInv
<1>8. PushdownInv' /\ BuildInv' /\ BatchInv'
  BY <1>1 DEF IInv, PushdownInv, BuildInv, BatchInv, Nothing
<1>9. BehindInv'
  <2>1. curr_batch \in Int /\ batch.group < curr_batch
    BY <1>2 DEF IInv, TypeInv
  <2> QED BY <1>1, <1>2, <1>5, <1>6, <2>1 DEF IInv, BehindInv
<1>10. ScanIsExact'
  <2>1. \A g : Matching(g)' = Matching(g)
    BY <1>1 DEF Matching
  <2>2. \A k \in 1 .. Len(delivered') :
          delivered'[k].rows = Matching(delivered'[k].group)
    BY <1>3, <1>5, <1>6 DEF IInv, ScanIsExact
  <2>3. ASSUME NEW j \in 1 .. Len(delivered'), NEW k \in 1 .. Len(delivered'),
               j < k
        PROVE  delivered'[j].group < delivered'[k].group
    <3>1. j \in 1 .. Len(delivered)
      BY <1>5, <2>3
    <3>2. CASE k \in 1 .. Len(delivered)
      BY <1>5, <2>3, <3>1, <3>2 DEF IInv, ScanIsExact
    <3>3. CASE k = Len(delivered) + 1
      BY <1>1, <1>5, <3>1, <3>3 DEF IInv, BehindInv
    <3> QED BY <1>6, <3>2, <3>3
  <2>4. ASSUME NEW g \in 1 .. Len(Groups), g < curr_batch, Matching(g) # {}
        PROVE  \E k \in 1 .. Len(delivered') : delivered'[k].group = g
    <3>1. CASE g = batch.group
      <4>1. Len(delivered) + 1 \in 1 .. Len(delivered')
        BY <1>5
      <4> QED BY <1>5, <3>1, <4>1
    <3>2. CASE g # batch.group
      <4>1. PICK k \in 1 .. Len(delivered) : delivered[k].group = g
        BY <2>4, <3>2 DEF IInv, ScanIsExact
      <4>2. k \in 1 .. Len(delivered')
        BY <1>5
      <4> QED BY <1>5, <4>1, <4>2
    <3> QED BY <3>1, <3>2
  <2> QED BY <1>1, <2>1, <2>2, <2>3, <2>4 DEF ScanIsExact
<1> QED BY <1>5, <1>7, <1>8, <1>9, <1>10 DEF IInv

LEMMA ExhaustedStep ==
  ASSUME IInv, Exhausted
  PROVE  IInv'
<1>1. /\ phase = "scan" /\ phase' = "end"
      /\ UNCHANGED <<table, filters, batch_filter, curr_batch, batch, level,
                     delivered>>
  BY DEF Exhausted
<1> QED BY <1>1 DEF IInv, TypeInv, PushdownInv, BuildInv, BatchInv, BehindInv,
                    ScanIsExact, Matching, Groups, Nothing

LEMMA Inductive ==
  ASSUME AllSound
  PROVE  Spec => []IInv
<1>1. Init => IInv
  BY InitStep
<1>2. IInv /\ [Next]_vars => IInv'
  <2> SUFFICES ASSUME IInv, [Next]_vars
               PROVE  IInv'
    OBVIOUS
  <2>1. CASE Next
    BY <2>1, AddFilterStep, StartStep, SkipStep, ReadStep, FilterStep,
       DeliverStep, ExhaustedStep DEF Next
  <2>2. CASE UNCHANGED vars
    <3>1. UNCHANGED <<table, filters, batch_filter, phase, curr_batch, batch,
                      level, delivered, Groups>>
      BY <2>2 DEF vars, Groups
    <3>2. TypeInv' /\ PushdownInv' /\ BuildInv'
      BY <3>1 DEF IInv, TypeInv, PushdownInv, BuildInv
    <3>3. BatchInv' /\ BehindInv'
      BY <3>1 DEF IInv, BatchInv, BehindInv, Nothing
    <3>4. ScanIsExact'
      BY <3>1 DEF IInv, ScanIsExact, Matching
    <3> QED BY <3>2, <3>3, <3>4 DEF IInv
  <2> QED BY <2>1, <2>2
<1> QED BY <1>1, <1>2, PTL DEF Spec

\* For every table whose statistics bound its rows and every chain of sound
\* filters, of any length: the scan with the last of them pushed down delivers
\* exactly the rows that the whole chain accepts, in the order of the file.
THEOREM PushdownIsExact ==
  ASSUME AllSound
  PROVE  Spec => []ScanIsExact
<1>1. IInv => ScanIsExact
  BY DEF IInv
<1> QED BY <1>1, Inductive, PTL

\* The types hold, and the reader is never asked for a row group beyond the
\* last one.
THEOREM ScanTypeCorrect ==
  ASSUME AllSound
  PROVE  Spec => []TypeOK
<1>1. IInv => TypeOK
  <2> SUFFICES ASSUME IInv
               PROVE  TypeOK
    OBVIOUS
  <2>1. batch.group \in Nat /\ \A r \in batch.rows : r \in Nat
    <3>1. CASE phase = "filter"
      <4>1. batch.group \in 1 .. Len(Groups) /\ Len(Groups[batch.group]) \in Nat
        BY <3>1, TableFacts DEF IInv, BatchInv
      <4>2. \A r \in batch.rows : r \in 1 .. Len(Groups[batch.group])
        BY <3>1 DEF IInv, BatchInv
      <4> QED BY <4>1, <4>2, TableFacts DEF IInv
    <3>2. CASE phase # "filter"
      BY <3>2 DEF IInv, BatchInv, Nothing
    <3> QED BY <3>1, <3>2
  <2> QED BY <2>1 DEF IInv, TypeInv, PushdownInv, BehindInv, TypeOK
<1> QED BY <1>1, Inductive, PTL

=============================================================================

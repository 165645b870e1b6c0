---------------------------- MODULE MCQueryPlans ----------------------------
EXTENDS QueryPlans

MCCells == 1 .. 3
MCInputs == {<<>>}
MCOrderByIds == <<3, 2>>

LOCAL F == INSTANCE Filters WITH Columns <- MCCells

\* Comparisons that statistics decide, one of them for whole tables, a test of
\* the row, and both together.
MCComparisons == {"NE", "GE"}
MCConditions == MCComparisons \cup {"LIKE", "AND"}
MCCondition ==
  LET Like == F!RowFilter({r \in F!Row : r[1] = r[2]})
  IN [f \in MCConditions |->
        CASE f = "NE" -> F!CompareFilter(2, "NE", 0)
          [] f = "GE" -> F!CompareFilter(3, "GE", 2)
          [] f = "LIKE" -> Like
          [] f = "AND" -> F!AndFilter(Like, F!CompareFilter(2, "NE", 0))]

\* Row groups: keys and values that recur in one and in the next, ties in one
\* and in both columns of the sort, and none that a comparison accepts.
RowGroups ==
  {<<<<0, 0, 1>>, <<1, 0, 0>>>>, <<<<0, 1, 2>>, <<1, 2, 1>>, <<0, 1, 2>>>>,
   <<<<2, 2, 2>>>>, <<<<1, 2, 2>>, <<2, 1, 0>>>>, <<<<1, 0, 2>>, <<0, 2, 2>>>>}

Bounds(v) == [min |-> CHOOSE x \in v : \A y \in v : x <= y,
              max |-> CHOOSE x \in v : \A y \in v : x >= y]
StatsOf(g) == [c \in MCCells |-> Bounds({g[r][c] : r \in DOMAIN g})]

MCTables ==
  {[groups |-> gs, stats |-> [g \in 1 .. Len(gs) |-> StatsOf(gs[g])]] :
     gs \in {<<>>} \cup {<<g>> : g \in RowGroups} \cup {<<g, h>> : g, h \in RowGroups}
                     \cup {<<g, h, i>> : g, h, i \in RowGroups}}

=============================================================================

---------------------------- MODULE MCTableScan ----------------------------
EXTENDS TableScan, FiniteSetsExt

\* Two columns: CounterID is narrow (Int16), EventTime is not.
MCColumns == {"CounterID", "EventTime"}
MCNarrow == {"CounterID"}

\* Literals: every value of the narrow column; for the other one, whose
\* literals Compare does not cast, one inside and one beyond each end.
Literals(c) ==
  IF c \in Narrow THEN Value ELSE {Lowest - 1, Lowest + 1, Highest + 1}

Comparisons ==
  UNION {{<<"cmp", c, op, v>> : op \in Op, v \in Literals(c)} : c \in Columns}

\* Conjunctions, disjunctions and negations of conditions on both columns,
\* one that is only decided row by row among them.
Some == {<<"cmp", "CounterID", "EQ", 1>>, <<"cmp", "CounterID", "NE", 2>>,
         <<"cmp", "EventTime", "GE", 2>>}
Combined == {<<"and", f, g>> : f \in Some, g \in Some}
            \cup {<<"or", f, g>> : f \in Some, g \in Some}
            \cup {<<"not", f>> : f \in Some}
            \cup {<<"like">>}

MCConditions == Comparisons \cup Combined

Comparison(f) == CompareFilter(f[2], f[3], f[4])

MCCondition ==
  [f \in MCConditions |->
     CASE f[1] = "cmp" -> Comparison(f)
       [] f[1] = "and" -> AndFilter(Comparison(f[2]), Comparison(f[3]))
       [] f[1] = "or" -> OrFilter(Comparison(f[2]), Comparison(f[3]))
       [] f[1] = "not" -> NotFilter(Comparison(f[2]))
       [] f[1] = "like" -> RowFilter({r \in Row : r["CounterID"] = r["EventTime"]})]

\* The statistics that the writer computes: the exact bounds of each column.
StatsOf(g) ==
  [c \in Columns |-> [min |-> Min({g[r][c] : r \in DOMAIN g}),
                      max |-> Max({g[r][c] : r \in DOMAIN g})]]

At(x, y) == [c \in Columns |-> IF c = "CounterID" THEN x ELSE y]

\* Row groups of one value, of two values around a gap, at the ends.
RowGroups == {<<At(1, 1)>>, <<At(0, 2), At(2, 0)>>, <<At(2, 1), At(2, 2)>>,
              <<At(0, 0), At(1, 2)>>}

MCTables ==
  {[groups |-> gs, stats |-> [g \in 1 .. Len(gs) |-> StatsOf(gs[g])]] :
     gs \in {<<>>} \cup {<<g, h, g>> : g, h \in RowGroups}}

=============================================================================

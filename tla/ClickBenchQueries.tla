------------------------- MODULE ClickBenchQueries -------------------------
(***************************************************************************)
(* The plans of the ClickBench queries, each a tree of operators written   *)
(* from the scan upwards, and what a plan may ask of the scheme.           *)
(***************************************************************************)
EXTENDS Integers, Sequences, FiniteSets

\* The types of the columns that the plans use.
ColumnType(column) ==
  CASE column \in {"WatchID", "UserID", "RefererHash", "URLHash"} -> "Int64"
    [] column \in {"CounterID", "ClientIP", "RegionID"} -> "Int32"
    [] column \in {"IsRefresh", "ResolutionWidth", "MobilePhone", "TraficSourceID",
                   "SearchEngineID", "AdvEngineID", "WindowClientWidth",
                   "WindowClientHeight", "IsLink", "IsDownload", "DontCountHits"} ->
         "Int16"
    [] column \in {"Title", "URL", "Referer", "MobilePhoneModel", "SearchPhrase"} ->
         "String"
    [] column = "EventTime" -> "Timestamp"
    [] column = "EventDate" -> "Date"

Bits(type) == CASE type = "Int16" -> 16 [] type = "Int32" -> 32 [] type = "Int64" -> 64

-----------------------------------------------------------------------------
\* A test is a comparison with a number of so many bits, its sign included, or
\* with a text, or a LIKE.
Number(column, op, bits) == [column |-> column, op |-> op, text |-> FALSE, bits |-> bits]
Text(column, op) == [column |-> column, op |-> op, text |-> TRUE, bits |-> 0]

\* An aggregation of a column; a transform makes numbers out of its cells.
Op(op, column) == [op |-> op, column |-> column, transform |-> FALSE]
Transformed(op, column) == [op |-> op, column |-> column, transform |-> TRUE]

\* ScanOperator with, above it, FilterOperator when there are tests.
Scanned(columns, tests) ==
  [columns |-> columns, tests |-> tests, keys |-> <<>>, ops |-> <<>>, aggregate |-> "no",
   having |-> <<>>, sort |-> "no", order |-> <<>>, offset |-> 0, limit |-> "all"]

\* GlobalAggregationOperator and GroupByAggregationOperator.
Total(q, ops) == [q EXCEPT !.aggregate = "all", !.ops = ops]
Grouped(q, keys, ops) == [q EXCEPT !.aggregate = "groups", !.keys = keys, !.ops = ops]

\* FilterOperator on the column with this index of the answer.
HavingAbove(q, index) == [q EXCEPT !.having = <<index>>]

\* OrderByOperator and OrderByLimitKOperator; indexes count from zero.
Ordered(q, order) == [q EXCEPT !.sort = "all", !.order = order]
TopK(q, order) == [q EXCEPT !.sort = "limit", !.order = order]

\* The rows that the loop at the end prints.
Printed(q, offset) == [q EXCEPT !.offset = offset, !.limit = "some"]

-----------------------------------------------------------------------------
Query1 == Total(Scanned(<<"WatchID">>, {}), <<Op("COUNT", "WatchID")>>)
Query2 ==
  Total(Scanned(<<"AdvEngineID">>, {Number("AdvEngineID", "NE", 1)}),
        <<Op("COUNT", "AdvEngineID")>>)
Query3 ==
  Total(Scanned(<<"AdvEngineID", "ResolutionWidth">>, {}),
        <<Op("SUM", "AdvEngineID"), Op("COUNT", "AdvEngineID"), Op("AVG", "ResolutionWidth")>>)
Query4 == Total(Scanned(<<"UserID">>, {}), <<Op("AVG", "UserID")>>)
Query5 == Total(Scanned(<<"UserID">>, {}), <<Op("CountDistinct", "UserID")>>)
Query6 == Total(Scanned(<<"SearchPhrase">>, {}), <<Op("CountDistinct", "SearchPhrase")>>)
Query7 ==
  Total(Scanned(<<"EventDate">>, {}), <<Op("MIN", "EventDate"), Op("MAX", "EventDate")>>)
Query8 ==
  Ordered(Grouped(Scanned(<<"AdvEngineID">>, {Number("AdvEngineID", "NE", 1)}),
                  <<"AdvEngineID">>, <<Op("COUNT", "AdvEngineID")>>), <<1>>)
Query9 ==
  TopK(Grouped(Scanned(<<"RegionID", "UserID">>, {}),
               <<"RegionID">>, <<Op("CountDistinct", "UserID")>>), <<1>>)
Query10 ==
  TopK(Grouped(Scanned(<<"RegionID", "AdvEngineID", "ResolutionWidth", "UserID">>, {}),
               <<"RegionID">>,
               <<Op("SUM", "AdvEngineID"), Op("COUNT", "AdvEngineID"),
                 Op("AVG", "ResolutionWidth"), Op("CountDistinct", "UserID")>>), <<2>>)
Query11 ==
  TopK(Grouped(Scanned(<<"MobilePhoneModel", "UserID">>, {Text("MobilePhoneModel", "NE")}),
               <<"MobilePhoneModel">>, <<Op("CountDistinct", "UserID")>>), <<1>>)
Query12 ==
  TopK(Grouped(Scanned(<<"MobilePhone", "MobilePhoneModel", "UserID">>,
                       {Text("MobilePhoneModel", "NE")}),
               <<"MobilePhone", "MobilePhoneModel">>, <<Op("CountDistinct", "UserID")>>),
       <<2>>)

\* The rows with a search phrase.
Phrases(columns) == Scanned(columns, {Text("SearchPhrase", "NE")})

Query13 ==
  TopK(Grouped(Phrases(<<"SearchPhrase">>),
               <<"SearchPhrase">>, <<Op("COUNT", "SearchPhrase")>>), <<1>>)
Query14 ==
  TopK(Grouped(Phrases(<<"SearchPhrase", "UserID">>),
               <<"SearchPhrase">>, <<Op("CountDistinct", "UserID")>>), <<1>>)
Query15 ==
  TopK(Grouped(Phrases(<<"SearchEngineID", "SearchPhrase">>),
               <<"SearchEngineID", "SearchPhrase">>, <<Op("COUNT", "SearchPhrase")>>), <<2>>)
Query16 ==
  TopK(Grouped(Scanned(<<"UserID">>, {}), <<"UserID">>, <<Op("COUNT", "UserID")>>), <<1>>)
Query17 ==
  TopK(Grouped(Scanned(<<"UserID", "SearchPhrase">>, {}),
               <<"UserID", "SearchPhrase">>, <<Op("COUNT", "SearchPhrase")>>), <<2>>)
Query18 ==
  Printed(Grouped(Scanned(<<"UserID", "SearchPhrase">>, {}),
                  <<"UserID", "SearchPhrase">>, <<Op("COUNT", "SearchPhrase")>>), 0)
Query19 ==
  TopK(Grouped(Scanned(<<"UserID", "EventTime", "SearchPhrase">>, {}),
               <<"UserID", "EventTime", "SearchPhrase">>, <<Op("COUNT", "SearchPhrase")>>),
       <<3>>)
Query20 == Scanned(<<"UserID">>, {Number("UserID", "EQ", 60)})
Query21 == Total(Scanned(<<"URL">>, {Text("URL", "LIKE")}), <<Op("COUNT", "URL")>>)
Query22 ==
  TopK(Grouped(Scanned(<<"SearchPhrase", "URL">>,
                       {Text("URL", "LIKE"), Text("SearchPhrase", "NE")}),
               <<"SearchPhrase">>, <<Op("MIN", "URL"), Op("COUNT", "SearchPhrase")>>), <<2>>)
Query23 ==
  TopK(Grouped(Scanned(<<"SearchPhrase", "URL", "Title", "UserID">>,
                       {Text("Title", "LIKE"), Text("URL", "LIKE"),
                        Text("SearchPhrase", "NE")}),
               <<"SearchPhrase">>,
               <<Op("MIN", "URL"), Op("MIN", "Title"), Op("COUNT", "SearchPhrase"),
                 Op("CountDistinct", "UserID")>>), <<3>>)

\* Query 24 scans all columns; EventTime has index 4.
Query24 ==
  TopK(Scanned(<<"WatchID", "JavaEnable", "Title", "GoodEvent", "EventTime", "URL">>,
               {Text("URL", "LIKE")}), <<4>>)
Query25 == TopK(Phrases(<<"SearchPhrase", "EventTime">>), <<1>>)
Query26 == TopK(Phrases(<<"SearchPhrase">>), <<0>>)
Query27 == TopK(Phrases(<<"SearchPhrase", "EventTime">>), <<1, 0>>)
Query28 ==
  TopK(HavingAbove(
    Grouped(Scanned(<<"CounterID", "URL">>, {Text("URL", "NE")}),
            <<"CounterID">>, <<Transformed("AVG", "URL"), Op("COUNT", "URL")>>), 2), <<1>>)
Query29 ==
  TopK(HavingAbove(
    Grouped(Scanned(<<"Referer">>, {Text("Referer", "NE")}), <<"Referer">>,
            <<Transformed("AVG", "Referer"), Op("COUNT", "Referer"),
              Op("MIN", "Referer")>>), 2), <<1>>)
Query30 ==
  Total(Scanned(<<"ResolutionWidth">>, {}),
        [n \in 1 .. 90 |-> Transformed("SUM", "ResolutionWidth")])

Widths(column) ==
  <<Op("COUNT", column), Op("SUM", "IsRefresh"), Op("AVG", "ResolutionWidth")>>

Query31 ==
  TopK(Grouped(Phrases(<<"SearchEngineID", "ClientIP", "SearchPhrase", "IsRefresh",
                         "ResolutionWidth">>),
               <<"SearchEngineID", "ClientIP">>, Widths("SearchPhrase")), <<2>>)
Query32 ==
  TopK(Grouped(Phrases(<<"WatchID", "ClientIP", "SearchPhrase", "IsRefresh",
                         "ResolutionWidth">>),
               <<"WatchID", "ClientIP">>, Widths("SearchPhrase")), <<2>>)
Query33 ==
  TopK(Grouped(Scanned(<<"WatchID", "ClientIP", "IsRefresh", "ResolutionWidth">>, {}),
               <<"WatchID", "ClientIP">>, Widths("WatchID")), <<2>>)
Query34 == TopK(Grouped(Scanned(<<"URL">>, {}), <<"URL">>, <<Op("COUNT", "URL")>>), <<1>>)
Query35 == TopK(Grouped(Scanned(<<"URL">>, {}), <<"URL">>, <<Op("COUNT", "URL")>>), <<1>>)
Query36 ==
  TopK(Grouped(Scanned(<<"ClientIP">>, {}), <<"ClientIP">>, <<Op("COUNT", "ClientIP")>>), <<1>>)

\* The hits of counter 62 in July 2013 that are no refreshes.
Hits(tests) ==
  {Number("CounterID", "EQ", 7), Text("EventDate", "GE"), Text("EventDate", "LE"),
   Number("IsRefresh", "EQ", 1)} \cup tests

\* WRONG: the column that is grouped is not scanned.
Query37Unscanned ==
  TopK(Grouped(Scanned(<<"CounterID", "EventDate", "DontCountHits", "IsRefresh">>,
                       Hits({Number("DontCountHits", "EQ", 1), Text("URL", "NE")})),
               <<"URL">>, <<Op("COUNT", "URL")>>), <<1>>)
Query37 ==
  TopK(Grouped(Scanned(<<"CounterID", "EventDate", "DontCountHits", "IsRefresh", "URL">>,
                       Hits({Number("DontCountHits", "EQ", 1), Text("URL", "NE")})),
               <<"URL">>, <<Op("COUNT", "URL")>>), <<1>>)
Query38 ==
  TopK(Grouped(Scanned(<<"CounterID", "EventDate", "DontCountHits", "IsRefresh", "Title">>,
                       Hits({Number("DontCountHits", "EQ", 1), Text("Title", "NE")})),
               <<"Title">>, <<Op("COUNT", "Title")>>), <<1>>)
Query39 ==
  Printed(Ordered(
    Grouped(Scanned(<<"CounterID", "EventDate", "IsRefresh", "IsLink", "IsDownload", "URL">>,
                    Hits({Number("IsLink", "NE", 1), Number("IsDownload", "EQ", 1)})),
            <<"URL">>, <<Op("COUNT", "URL")>>), <<1>>), 1000)
Query41 ==
  Printed(Ordered(
    Grouped(Scanned(<<"CounterID", "EventDate", "IsRefresh", "TraficSourceID", "RefererHash",
                      "URLHash">>,
                    Hits({Number("TraficSourceID", "EQ", 1), Number("TraficSourceID", "EQ", 4),
                          Number("RefererHash", "EQ", 63)})),
            <<"URLHash", "EventDate">>, <<Op("COUNT", "URLHash")>>), <<2>>), 100)
Query42 ==
  Printed(Ordered(
    Grouped(Scanned(<<"CounterID", "EventDate", "IsRefresh", "DontCountHits", "URLHash",
                      "WindowClientWidth", "WindowClientHeight">>,
                    Hits({Number("DontCountHits", "EQ", 1), Number("URLHash", "EQ", 63)})),
            <<"WindowClientWidth", "WindowClientHeight">>,
            <<Op("COUNT", "WindowClientWidth")>>), <<2>>), 10000)
Query43 ==
  Printed(Ordered(
    Grouped(Scanned(<<"CounterID", "EventDate", "IsRefresh", "DontCountHits", "EventTime">>,
                    Hits({Number("DontCountHits", "EQ", 1)})),
            <<"EventTime">>, <<Op("COUNT", "EventTime")>>), <<0>>), 1000)

\* Query 40 is a constant row: it has no plan.
QueryIds == 1 .. 43 \ {40}
Queries ==
  <<Query1, Query2, Query3, Query4, Query5, Query6, Query7, Query8, Query9, Query10,
    Query11, Query12, Query13, Query14, Query15, Query16, Query17, Query18, Query19,
    Query20, Query21, Query22, Query23, Query24, Query25, Query26, Query27, Query28,
    Query29, Query30, Query31, Query32, Query33, Query34, Query35, Query36, Query37,
    Query38, Query39, [no_plan |-> TRUE], Query41, Query42, Query43>>

-----------------------------------------------------------------------------
IsInteger(column) == ColumnType(column) \in {"Int16", "Int32", "Int64"}

\* A literal has the kind of its column, and its range: else Compare, which
\* casts it, and CanSkipBatch, which does not, would differ.
TestFits(t) ==
  IF t.text
    THEN \/ ColumnType(t.column) = "String"
         \/ ColumnType(t.column) = "Date" /\ t.op # "LIKE"
    ELSE IsInteger(t.column) /\ t.bits <= Bits(ColumnType(t.column))

\* Sums are of numbers, sets are of integers or strings, and only sums look at
\* a transform.
OpFits(o) ==
  CASE o.op \in {"SUM", "AVG"} -> o.transform \/ IsInteger(o.column)
    [] o.op = "CountDistinct" ->
         ~o.transform /\ (IsInteger(o.column) \/ ColumnType(o.column) = "String")
    [] OTHER -> ~o.transform

\* What the operators of a plan ask for is there: every column that is tested,
\* grouped or aggregated is scanned, and every index is one of the answer's,
\* that of HAVING one of a count.
PlanFits(q) ==
  LET scanned == {q.columns[n] : n \in DOMAIN q.columns}
      width == IF q.aggregate = "no" THEN Len(q.columns) ELSE Len(q.keys) + Len(q.ops)
  IN /\ \A t \in q.tests : t.column \in scanned /\ TestFits(t)
     /\ \A n \in DOMAIN q.keys : q.keys[n] \in scanned
     /\ \A n \in DOMAIN q.ops : q.ops[n].column \in scanned /\ OpFits(q.ops[n])
     /\ \A n \in DOMAIN q.order : q.order[n] \in 0 .. width - 1
     /\ \A n \in DOMAIN q.having : q.ops[q.having[n] + 1 - Len(q.keys)].op = "COUNT"

=============================================================================

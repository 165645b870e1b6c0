----------------------------- MODULE MCEggFile -----------------------------
EXTENDS EggFile

CONSTANT Rows          \* the length of the longest single column

\* Words of 5 bits, Int16 of 2, Int32 and dates of 3 bits; runs of 4 bits, one
\* less than a word, cannot be packed.
MCLow == [t \in IntType \cup DateType |->
            CASE t \in DateType -> 0 [] t = "Int16" -> -2
              [] t = "Int32" -> -4 [] t = "Int64" -> -16]
MCHigh == [t \in IntType \cup DateType |->
            CASE t \in DateType -> 7 [] t = "Int16" -> 1
              [] t = "Int32" -> 3 [] t = "Int64" -> 15]
MCLossyWidths == {4}

\* Two or three records of MCTypes fill a group, Rows cells of most columns fit.
MCSizeOf == [t \in Type |-> IF t = "Int16" THEN 4 ELSE 1]

-----------------------------------------------------------------------------
\* Tables of one column: every column of each type, so that each encoding and
\* each choice between encodings occurs.  Int64 values lie around zero and at
\* the ends of the range; strings share prefixes of every length.
Cells(t) ==
  CASE t = "Int64" -> {<<v>> : v \in {-16, -15, -1, 0, 1, 2, 15}}
    [] t \in {"Int16", "Int32"} \cup DateType -> {<<v>> : v \in Low[t] .. High[t]}
    [] t = "String" -> {<<>>, <<1>>, <<2>>, <<1, 1>>, <<1, 2>>, <<1, 2, 1>>}
    [] t = "Double" -> {<<0>>, <<1>>}

\* A file as it is written by others: bare cells, or all of them in quotes,
\* which are doubled within, lines that end with or without a return.
Quoted(token) ==
  <<Quote>> \o FlattenSeq([k \in DOMAIN token |->
                             IF token[k] = Quote THEN <<Quote, Quote>> ELSE <<token[k]>>])
            \o <<Quote>>
Line(record, quoted) ==
  Joined([c \in DOMAIN record |-> IF quoted THEN Quoted(record[c]) ELSE record[c]], Comma)
Text(records, quoted, newline) ==
  LET end == IF quoted THEN <<Return, NewLine>> ELSE <<NewLine>>
  IN FlattenSeq([r \in DOMAIN records |-> Line(records[r], quoted) \o
       (IF r = Len(records) /\ ~newline THEN <<>> ELSE end)])

Source(types, column_names, header, records, quoted, newline) ==
  [types |-> types, names |-> column_names, header |-> header, records |-> records,
   text |-> Text((IF header THEN <<column_names>> ELSE <<>>) \o records, quoted, newline)]

\* The text of one column: each cell on a line.
Column1(records) ==
  LET L(r) == IF r <= Len(records) THEN Append(records[r][1], NewLine) ELSE <<>>
  IN L(1) \o L(2) \o L(3) \o L(4)

SingleColumns ==
  UNION {{[types |-> <<t>>, names |-> <<<<9>>>>, header |-> FALSE,
           records |-> records, text |-> Column1(records)] :
            records \in UNION {[1 .. n -> {<<cell>> : cell \in Cells(t)}] : n \in 1 .. Rows}}
         : t \in Type}

-----------------------------------------------------------------------------
\* Tables of a number, a text and a date; names of different lengths.
MCTypes == <<"Int16", "String", "Date">>
MCNames == <<<<9>>, <<9, 8>>, <<>>>>

\* Records: numbers in and out of the range of their type, texts of different
\* lengths, dates that parse and that do not; a cell that is no number, a
\* blank line, and a record with one token more than there are columns.
Good == {<<<<0>>, <<1, 2>>, <<3>>>>,
         <<<<2>>, <<1>>, <<>>>>,
         <<<<1>>, <<>>, <<1>>, <<4>>>>,
         <<<<-2>>, <<2, 1, 1>>, <<5>>>>}
Bad == {<<<<>>, <<1>>, <<1>>>>, <<<<>>>>}

\* A last line without a newline has at least one character.
Plain ==
  {Source(MCTypes, MCNames, FALSE, records, FALSE, newline) :
     records \in {r \in UNION {[1 .. n -> Good] : n \in 1 .. 4}
                        \cup UNION {[1 .. n -> Good \cup Bad] : n \in 1 .. 2} :
                     Last(r) # <<<<>>>>},
     newline \in BOOLEAN}
  \cup {Source(MCTypes, MCNames, FALSE, Append(r, <<<<>>>>), FALSE, TRUE) :
           r \in {<<>>} \cup {<<g>> : g \in Good}}
  \cup {Source(MCTypes, MCNames, FALSE, <<>>, FALSE, FALSE)}

\* Names in the file, right ones, a doubled one and one too few; texts that
\* need their quotes.
Special == {<<<<0>>, <<Comma, 1>>, <<3>>>>, <<<<1>>, <<Quote>>, <<2>>>>,
            <<<<1>>, <<NewLine, Quote, Quote>>, <<2>>>>, <<<<0>>, <<2, NewLine>>, <<>>>>,
            <<<<1>>, <<Return, 1>>, <<1>>>>, <<<<1>>, <<>>, <<5>>>>}
WithHeader ==
  {Source(MCTypes, column_names, TRUE, records, TRUE, newline) :
     column_names \in {MCNames, <<<<Comma>>, <<9>>, <<8, Quote>>>>},
     records \in UNION {[1 .. n -> Special] : n \in 0 .. 3}, newline \in BOOLEAN}
  \cup {Source(MCTypes, column_names, TRUE, <<<<<<1>>, <<>>, <<1>>>>>>, FALSE, TRUE) :
           column_names \in {MCNames, <<<<9>>, <<8>>, <<9>>>>, <<<<9>>, <<8>>>>}}

MCSources == SingleColumns \cup Plain \cup WithHeader

=============================================================================

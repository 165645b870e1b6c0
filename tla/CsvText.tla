------------------------------ MODULE CsvText ------------------------------
(***************************************************************************)
(* CSVWrapper: records and their tokens out of the text of a CSV file.     *)
(*                                                                         *)
(* A character is a number; four of them mean something to the reader.     *)
(***************************************************************************)
EXTENDS Integers, SequencesExt

Quote == 100
Comma == 101
NewLine == 102
Return == 103

\* What GetNextLineAndSplitIntoTokens keeps while it goes through a record.
NoToken == [record |-> <<>>, token |-> <<>>, in_quotes |-> FALSE, skip |-> FALSE,
            position |-> 0, ended |-> FALSE]

PushToken(r) == [r EXCEPT !.record = Append(@, r.token), !.token = <<>>]

\* A return before the end of a line, or of the text, belongs to neither.
IsLineEnd(text, i) == i = Len(text) \/ text[i + 1] = NewLine

\* A newline ends the record, but not between quotes.
EndLine(r) ==
  IF r.in_quotes THEN [r EXCEPT !.token = Append(@, NewLine)]
                 ELSE [r EXCEPT !.ended = TRUE]

\* One character; of two quotes within quotes the first stands for both.
TakeChar(text, acc, i) ==
  LET c == text[i]
      r == [acc EXCEPT !.position = i]
      doubled == r.in_quotes /\ i < Len(text) /\ text[i + 1] = Quote
  IN IF acc.ended THEN acc
     ELSE IF acc.skip THEN [r EXCEPT !.skip = FALSE]
     ELSE CASE c = NewLine -> EndLine(r)
            [] c = Return /\ IsLineEnd(text, i) -> r
            [] c = Quote /\ doubled ->
                 [r EXCEPT !.token = Append(@, Quote), !.skip = TRUE]
            [] c = Quote /\ ~doubled -> [r EXCEPT !.in_quotes = ~@]
            [] c = Comma /\ ~r.in_quotes -> PushToken(r)
            [] OTHER -> [r EXCEPT !.token = Append(@, c)]

\* The record behind the first p characters, where the next one begins, and
\* whether std::getline has met the end of the text: when a line has no
\* newline, or there is no line at all (then the record is empty).  Quotes
\* that nothing closes take the rest of the text.
GetNextLineAndSplitIntoTokens(text, p) ==
  LET upTo[i \in p .. Len(text)] ==
        IF i = p THEN NoToken ELSE TakeChar(text, upTo[i - 1], i)
      r == upTo[Len(text)]
      rest == IF r.in_quotes /\ Last(text) # NewLine THEN EndLine(r) ELSE r
  IN IF p = Len(text)
       THEN [record |-> <<>>, position |-> p, eof |-> TRUE]
       ELSE [record |-> PushToken(rest).record, position |-> r.position,
             eof |-> ~r.ended]

\* All the records of a text.
Records(text) ==
  LET Step(acc, k) ==
        LET next == GetNextLineAndSplitIntoTokens(text, acc.position)
        IN IF acc.eof \/ next.record = <<>> THEN [acc EXCEPT !.eof = TRUE]
           ELSE [records |-> Append(acc.records, next.record),
                 position |-> next.position, eof |-> next.eof]
  IN FoldLeft(Step, [records |-> <<>>, position |-> 0, eof |-> FALSE],
              [k \in 1 .. Len(text) |-> k]).records

=============================================================================

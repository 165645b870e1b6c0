--------------------------- MODULE MCAggregation ---------------------------
EXTENDS Aggregation

MCOps == <<"SUM", "AVG", "MIN", "MAX", "COUNT", "CountDistinct">>
MCBytes == {45, 78, 97, 98, 176, 208}

S(bytes) == [string |-> bytes]
N(v) == [int |-> v]

\* Keys of two fields that differ in one of them, or in both.
Keys == {<<S(<<97>>), N(0)>>, <<S(<<97>>), N(1)>>, <<S(<<98, 97>>), N(1)>>}

\* The columns of a row hold different values.
RowsOf(keys, values) ==
  {[key |-> key,
    values |-> [k \in 1 .. Len(MCOps) |-> IF k % 2 = 1 THEN v ELSE -v - 1]]
     : key \in keys, v \in values}

\* Up to four rows in up to three batches, empty ones among them.  The values
\* reach both ends of the columns, so that their sums pass these.
SeqsOf(S1, n) == UNION {[1 .. m -> S1] : m \in 0 .. n}
InputsOf(S1) ==
  {<<>>} \cup {<<a>> : a \in SeqsOf(S1, 3)}
         \cup {<<a, b>> : a \in SeqsOf(S1, 2), b \in SeqsOf(S1, 1)}
         \cup {<<a, <<>>, b>> : a \in SeqsOf(S1, 1), b \in SeqsOf(S1, 1)}

MCInputs == InputsOf(RowsOf(Keys, {-4, 1, 3}))

\* UTF-8 strings: "b", "N", "-" and the Latin "a" before the Cyrillic one,
\* whose polynomials are equal.
CollidingKeys == {<<S(<<98, 78, 45>>)>>, <<S(<<97, 208, 176>>)>>}
CollidingInputs == InputsOf(RowsOf(CollidingKeys, {-4, 1, 3}))

=============================================================================

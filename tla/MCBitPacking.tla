---------------------------- MODULE MCBitPacking ----------------------------
EXTENDS BitPacking

CONSTANTS Widths, Length

\* Of the lowest w bits: all, the highest only, every other one.
Ones(w) == [k \in 1 .. WordBits |-> IF k <= w THEN 1 ELSE 0]
Top(w) == [k \in 1 .. WordBits |-> IF k = w THEN 1 ELSE 0]
Odd(w) == [k \in 1 .. WordBits |-> IF k <= w /\ k % 2 = 1 THEN 1 ELSE 0]

\* Columns of up to Length values, all ones but for one of them: a bit that
\* is lost or lands in a neighbour shows, and Length = ByteBits + 1 values of
\* an odd width begin at every position within a byte.
MCColumns ==
  UNION {[width : {w},
          values : {[m \in 1 .. n |-> IF m = p THEN x ELSE Ones(w)] :
                     n \in {0, Length}, p \in 1 .. Length,
                     x \in {Zero, Top(w), Odd(w)}}] : w \in Widths}

\* The widths that the integer and date columns reach: 16 for Int16, 32 for
\* Int32, 34 for zigzag deltas of 32-bit dates, 64 for a raw word; and all up
\* to 57, the largest width for which a word has room for seven bits more.
SmallWidths == 0 .. 57 \cup {58, 60, 64}

\* The widths that Int64 columns may reach beyond these.
LargeWidths == {59, 61, 62, 63}

=============================================================================

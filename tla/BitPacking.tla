----------------------------- MODULE BitPacking -----------------------------
(***************************************************************************)
(* BitPack and BitUnpack of the column codecs, one loop iteration per      *)
(* step: a column of unsigned values of one bit width is packed into bytes *)
(* through a buffer of one machine word, and unpacked through another one. *)
(*                                                                         *)
(* A word is the function from bit positions to bits, position 1 being the *)
(* lowest, so the word size of the code (64) needs no arithmetic on large  *)
(* numbers.  The output is kept as its bits; it grows by ByteBits at once. *)
(***************************************************************************)
EXTENDS Naturals, Sequences

CONSTANTS
  WordBits,     \* bits of uint64_t: 64
  ByteBits,     \* bits of uint8_t: 8
  Columns       \* the columns to encode: [width : _, values : Seq(Word)]

Bit == {0, 1}
Word == [1 .. WordBits -> Bit]
Zero == [k \in 1 .. WordBits |-> 0]

\* The values of a column fit its width: that is how GetBitWidth chooses it.
Fits(x, width) == \A k \in 1 .. WordBits : k > width => x[k] = 0

ASSUME BitPackingAssumption ==
  /\ WordBits \in Nat /\ ByteBits \in Nat
  /\ 0 < ByteBits /\ ByteBits <= WordBits
  /\ \A c \in Columns :
       /\ c.width \in 0 .. WordBits
       /\ c.values \in Seq(Word)
       /\ \A m \in 1 .. Len(c.values) : Fits(c.values[m], c.width)

\* x << n, x >> n, x | y and x & ((1 << n) - 1) on one word: what is shifted
\* out is lost.
ShiftLeft(x, n) == [k \in 1 .. WordBits |-> IF k <= n THEN 0 ELSE x[k - n]]
ShiftRight(x, n) ==
  [k \in 1 .. WordBits |-> IF k + n <= WordBits THEN x[k + n] ELSE 0]
Or(x, y) == [k \in 1 .. WordBits |-> IF x[k] = 0 THEN y[k] ELSE x[k]]
Low(x, n) == [k \in 1 .. WordBits |-> IF k <= n THEN x[k] ELSE 0]

\* A byte as a sequence of bits, and the byte at position n as a word.
ByteOf(x) == [k \in 1 .. ByteBits |-> x[k]]
ByteAt(s, n) ==
  [k \in 1 .. WordBits |-> IF k <= ByteBits THEN s[n + k] ELSE 0]

VARIABLES
  column,       \* the column being encoded and decoded
  phase,        \* "pack", "unpack" or "done"
  i,            \* index of the next value to pack or to unpack
  buffer,       \* the word between values and bytes
  bits,         \* bits_in_buffer
  packed,       \* the bits of the bytes written
  next,         \* how many of them have been read back
  output        \* the values unpacked so far

vars == <<column, phase, i, buffer, bits, packed, next, output>>

Count == Len(column.values)
Width == column.width

\* One word is the special case that needs no buffer.
Buffered == 0 < Width /\ Width < WordBits

-----------------------------------------------------------------------------
Init ==
  /\ column \in Columns
  /\ phase = "pack"
  /\ i = 1
  /\ buffer = Zero
  /\ bits = 0
  /\ packed = <<>>
  /\ next = 0
  /\ output = <<>>

\* WRONG: the value is shifted by one bit less.
PackValueShifted ==
  /\ phase = "pack" /\ Buffered
  /\ i <= Count
  /\ bits < ByteBits
  /\ buffer' = Or(buffer, ShiftLeft(column.values[i], IF bits > 0 THEN bits - 1
                                                     ELSE 0))
  /\ bits' = bits + Width
  /\ i' = i + 1
  /\ UNCHANGED <<column, phase, packed, next, output>>

\* WRONG: `if` instead of `while` (bits_in_buffer >= 8) before the next value.
PackValueAfterOneByte ==
  /\ phase = "pack" /\ Buffered
  /\ i <= Count
  /\ bits < Width \/ bits < ByteBits
  /\ buffer' = Or(buffer, ShiftLeft(column.values[i], bits))
  /\ bits' = bits + Width
  /\ i' = i + 1
  /\ UNCHANGED <<column, phase, packed, next, output>>

\* The next value goes above the bits that are left of the last one.
PackValue ==
  /\ phase = "pack" /\ Buffered
  /\ i <= Count
  /\ bits < ByteBits
  /\ buffer' = Or(buffer, ShiftLeft(column.values[i], bits))
  /\ bits' = bits + Width
  /\ i' = i + 1
  /\ UNCHANGED <<column, phase, packed, next, output>>

\* A full byte leaves the buffer.
PackByte ==
  /\ phase = "pack"
  /\ bits >= ByteBits
  /\ packed' = packed \o ByteOf(buffer)
  /\ buffer' = ShiftRight(buffer, ByteBits)
  /\ bits' = bits - ByteBits
  /\ UNCHANGED <<column, phase, i, next, output>>

\* BitUnpack starts with an empty buffer of its own.
StartUnpack ==
  /\ phase' = "unpack"
  /\ i' = 1
  /\ buffer' = Zero
  /\ bits' = 0
  /\ UNCHANGED <<column, next, output>>

\* WRONG: the last bits are written only if they fill a byte.
FlushFullBytesOnly ==
  /\ phase = "pack" /\ Buffered
  /\ i > Count
  /\ bits < ByteBits
  /\ packed' = packed
  /\ StartUnpack

\* What is left of the last value fills one more byte.
Flush ==
  /\ phase = "pack" /\ Buffered
  /\ i > Count
  /\ bits < ByteBits
  /\ packed' = IF bits > 0 THEN packed \o ByteOf(buffer) ELSE packed
  /\ StartUnpack

\* A width of 0 writes nothing, a full word is copied byte by byte.
PackWhole ==
  /\ phase = "pack" /\ ~Buffered
  /\ IF i > Count \/ Width = 0
       THEN /\ packed' = packed
            /\ StartUnpack
       ELSE /\ packed' = packed \o column.values[i]
            /\ i' = i + 1
            /\ UNCHANGED <<column, phase, buffer, bits, next, output>>

\* The next byte goes above the bits that the buffer holds.
LoadByte ==
  /\ phase = "unpack" /\ Buffered
  /\ i <= Count
  /\ bits < Width
  /\ next + ByteBits <= Len(packed)
  /\ buffer' = Or(buffer, ShiftLeft(ByteAt(packed, next), bits))
  /\ bits' = bits + ByteBits
  /\ next' = next + ByteBits
  /\ UNCHANGED <<column, phase, i, packed, output>>

\* The lowest Width bits are the next value.
UnpackValue ==
  /\ phase = "unpack" /\ Buffered
  /\ i <= Count
  /\ bits >= Width
  /\ output' = Append(output, Low(buffer, Width))
  /\ buffer' = ShiftRight(buffer, Width)
  /\ bits' = bits - Width
  /\ i' = i + 1
  /\ UNCHANGED <<column, phase, packed, next>>

UnpackWhole ==
  /\ phase = "unpack" /\ ~Buffered
  /\ i <= Count
  /\ IF Width = 0
       THEN /\ output' = Append(output, Zero)
            /\ next' = next
       ELSE /\ next + WordBits <= Len(packed)
            /\ output' = Append(output, [k \in 1 .. WordBits |->
                                           packed[next + k]])
            /\ next' = next + WordBits
  /\ i' = i + 1
  /\ UNCHANGED <<column, phase, buffer, bits, packed>>

Finish ==
  /\ phase = "unpack"
  /\ i > Count
  /\ phase' = "done"
  /\ UNCHANGED <<column, i, buffer, bits, packed, next, output>>

Next ==
  \/ PackValue
  \/ PackByte
  \/ Flush
  \/ PackWhole
  \/ LoadByte
  \/ UnpackValue
  \/ UnpackWhole
  \/ Finish

Spec == Init /\ [][Next]_vars

-----------------------------------------------------------------------------
\* Every variable has its type, and the buffer never holds more bits than a
\* word: a shift that pushed a bit out of it would lose that bit for good.
TypeOK ==
  /\ Width \in 0 .. WordBits /\ column.values \in Seq(Word)
  /\ phase \in {"pack", "unpack", "done"}
  /\ i \in 1 .. Count + 1
  /\ buffer \in Word
  /\ bits \in 0 .. WordBits
  /\ packed \in Seq(Bit)
  /\ next \in 0 .. Len(packed)
  /\ output \in Seq(Word)

\* A column that is decoded is the column that was encoded, whatever its
\* width and wherever its values fall relative to the bytes (CompressionTest
\* compares them for single widths).
RoundTrip == phase = "done" => output = column.values

\* BitUnpack never reads past the last byte that BitPack wrote for the same
\* number of values: its pointer is not checked against the end of the data.
ReadsInside ==
  phase = "unpack" /\ i <= Count =>
    /\ Buffered /\ bits < Width => next + ByteBits <= Len(packed)
    /\ Width = WordBits => next + WordBits <= Len(packed)

=============================================================================

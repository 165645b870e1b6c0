-------------------------- MODULE BitPackingProofs --------------------------
(***************************************************************************)
(* Proof that BitPack and BitUnpack are inverse for every column whose     *)
(* width leaves room in a word for seven more bits (or is a whole word),   *)
(* for any number of values and any sizes of words and bytes.              *)
(***************************************************************************)
EXTENDS BitPacking, SequenceTheorems, TLAPS

\* A width w at which a value always fits above what is left of the last one.
NoOverflow(w) == w + ByteBits <= WordBits + 1 \/ w = WordBits

\* Where value m begins in the stream of packed bits, counted from 0.
Offset(w, m) == (m - 1) * w

\* Bit p of the stream of the bits s written and the bits x in the buffer.
Stream(s, x, p) == IF p <= Len(s) THEN s[p] ELSE x[p - Len(s)]

TypeInv ==
  /\ column \in Columns
  /\ phase \in {"pack", "unpack", "done"}
  /\ i \in 1 .. Count + 1
  /\ buffer \in Word
  /\ bits \in 0 .. WordBits
  /\ packed \in Seq(Bit)
  /\ next \in Nat
  /\ output \in Seq(Word)

\* The buffer holds no bits but the lowest.
CleanInv == \A k \in 1 .. WordBits : k > bits => buffer[k] = 0

\* While packing, the values before i are the stream.
PackInv ==
  phase = "pack" =>
    /\ Len(packed) + bits = Offset(Width, i)
    /\ \A m \in 1 .. Count : \A k \in 1 .. Width :
         m < i => Stream(packed, buffer, Offset(Width, m) + k)
                    = column.values[m][k]
    /\ output = <<>>
    /\ next = 0
    /\ ~Buffered => bits = 0

\* Afterwards every value is where it belongs in the bytes.
PackedInv ==
  phase # "pack" =>
    /\ Len(packed) >= Offset(Width, Count + 1)
    /\ \A m \in 1 .. Count : \A k \in 1 .. Width :
         packed[Offset(Width, m) + k] = column.values[m][k]

\* While unpacking, the buffer holds the bits between the last value taken
\* and the last byte read.
UnpackInv ==
  phase # "pack" =>
    /\ next = Offset(Width, i) + bits
    /\ next <= Len(packed)
    /\ \A k \in 1 .. bits : buffer[k] = packed[Offset(Width, i) + k]
    /\ ~Buffered => bits = 0
    /\ Len(output) = i - 1
    /\ \A m \in 1 .. Len(output) : output[m] = column.values[m]
    /\ phase = "done" => i > Count

IInv == TypeInv /\ CleanInv /\ PackInv /\ PackedInv /\ UnpackInv

-----------------------------------------------------------------------------
USE BitPackingAssumption

\* The values of one column.
LEMMA ColumnFacts ==
  ASSUME NEW c \in Columns
  PROVE  /\ c.width \in Nat /\ c.width <= WordBits
         /\ Len(c.values) \in Nat
         /\ \A m \in 1 .. Len(c.values) :
              /\ c.values[m] \in Word
              /\ \A k \in 1 .. WordBits : k > c.width => c.values[m][k] = 0
<1>1. c.values \in Seq(Word)
  OBVIOUS
<1>2. Len(c.values) \in Nat
  BY <1>1
<1>3. \A m \in 1 .. Len(c.values) : c.values[m] \in Word
  BY <1>1, ElementOfSeq
<1> QED BY <1>2, <1>3 DEF Fits

\* Values follow one another in the stream.
LEMMA OffsetFacts ==
  ASSUME NEW w \in Nat
  PROVE  /\ Offset(w, 1) = 0
         /\ \A m \in Nat \ {0} : /\ Offset(w, m) \in Nat
                                 /\ Offset(w, m + 1) = Offset(w, m) + w
         /\ \A m, n \in Nat \ {0} : m < n => Offset(w, m) + w <= Offset(w, n)
<1>1. \A m \in Nat \ {0} : /\ Offset(w, m) \in Nat
                           /\ Offset(w, m + 1) = Offset(w, m) + w
  BY DEF Offset
<1>2. ASSUME NEW m \in Nat \ {0}, NEW n \in Nat \ {0}, m < n
      PROVE  Offset(w, m) + w <= Offset(w, n)
  <2>1. PICK d \in Nat : n = m + 1 + d
    BY <1>2
  <2>2. Offset(w, n) = Offset(w, m) + w + d * w /\ d * w \in Nat
    BY <2>1 DEF Offset
  <2> QED BY <1>1, <2>2
<1> QED BY <1>1, <1>2 DEF Offset

\* What the operations do on one word.
LEMMA WordFacts ==
  ASSUME NEW x \in Word, NEW y \in Word, NEW n \in Nat
  PROVE  /\ ShiftLeft(x, n) \in Word
         /\ ShiftRight(x, n) \in Word
         /\ Or(x, y) \in Word
         /\ Low(x, n) \in Word
BY DEF Word, Bit, ShiftLeft, ShiftRight, Or, Low

\* A byte appended to the stream.
LEMMA AppendByte ==
  ASSUME NEW s \in Seq(Bit), NEW x \in Word
  PROVE  /\ s \o ByteOf(x) \in Seq(Bit)
         /\ Len(s \o ByteOf(x)) = Len(s) + ByteBits
         /\ \A k \in 1 .. Len(s) + ByteBits :
              (s \o ByteOf(x))[k] = IF k <= Len(s) THEN s[k]
                                    ELSE x[k - Len(s)]
<1>1. ByteOf(x) \in Seq(Bit) /\ Len(ByteOf(x)) = ByteBits
  BY DEF ByteOf, Word
<1>2. \A k \in 1 .. ByteBits : ByteOf(x)[k] = x[k]
  BY DEF ByteOf
<1>3. /\ s \o ByteOf(x) \in Seq(Bit)
      /\ Len(s \o ByteOf(x)) = Len(s) + ByteBits
      /\ \A k \in 1 .. Len(s) + ByteBits :
           (s \o ByteOf(x))[k] = IF k <= Len(s) THEN s[k]
                                 ELSE ByteOf(x)[k - Len(s)]
  BY <1>1, ConcatProperties
<1>4. \A k \in 1 .. Len(s) + ByteBits :
        k > Len(s) => ByteOf(x)[k - Len(s)] = x[k - Len(s)]
  BY <1>2
<1> QED BY <1>3, <1>4

\* The facts about the current column that the steps below use.
LEMMA Current ==
  ASSUME TypeInv
  PROVE  /\ Width \in Nat /\ Width <= WordBits /\ Count \in Nat
         /\ \A m \in 1 .. Count :
              /\ column.values[m] \in Word
              /\ \A k \in 1 .. WordBits : k > Width => column.values[m][k] = 0
         /\ Len(packed) \in Nat /\ Len(output) \in Nat
BY ColumnFacts DEF TypeInv, Width, Count

-----------------------------------------------------------------------------
LEMMA InitStep ==
  ASSUME Init
  PROVE  IInv
<1>1. Width \in Nat /\ Count \in Nat
  BY ColumnFacts DEF Init, Width, Count
<1>2. TypeInv
  BY <1>1 DEF Init, TypeInv, Zero, Word, Bit
<1> QED
  BY <1>1, <1>2, OffsetFacts DEF Init, IInv, CleanInv, PackInv, PackedInv,
       UnpackInv, Zero, Buffered

\* The value lands above the old bits and below the end of the word.
LEMMA PackValueStep ==
  ASSUME IInv, NoOverflow(Width), PackValue
  PROVE  IInv'
<1> DEFINE x == column.values[i]
<1>1. /\ phase = "pack" /\ phase' = "pack" /\ Buffered /\ Buffered'
      /\ column' = column /\ Width' = Width /\ Count' = Count
      /\ i \in 1 .. Count /\ i' = i + 1 /\ packed' = packed
      /\ output' = output /\ next' = next
  BY DEF PackValue, Buffered, IInv, TypeInv, Width, Count
<1>2. /\ Width \in Nat /\ Count \in Nat /\ Len(packed) \in Nat
      /\ bits \in Nat /\ bits' = bits + Width /\ bits + Width <= WordBits
  BY Current DEF PackValue, NoOverflow, Buffered, IInv, TypeInv
<1>3. x \in Word /\ \A k \in 1 .. WordBits : k > Width => x[k] = 0
  BY <1>1, Current DEF IInv
<1>4. \A k \in 1 .. WordBits :
        buffer'[k] = IF k <= bits THEN buffer[k] ELSE x[k - bits]
  BY <1>2, <1>3 DEF PackValue, IInv, TypeInv, CleanInv, Or, ShiftLeft, Word,
       Bit
<1>5. TypeInv'
  <2>1. ShiftLeft(x, bits) \in Word
    BY <1>2, <1>3, WordFacts
  <2>2. buffer' \in Word
    BY <2>1, WordFacts DEF PackValue, IInv, TypeInv
  <2> QED BY <1>1, <1>2, <2>2 DEF IInv, TypeInv
<1>6. CleanInv'
  <2> SUFFICES ASSUME NEW k \in 1 .. WordBits, k > bits + Width
               PROVE  buffer'[k] = 0
    BY <1>2 DEF CleanInv
  <2>1. k - bits \in 1 .. WordBits /\ k - bits > Width
    BY <1>2
  <2> QED BY <1>2, <1>3, <1>4, <2>1
<1>7. PackInv'
  <2>1. i \in Nat \ {0}
    BY <1>1
  <2>2. /\ Offset(Width, i) \in Nat
        /\ Offset(Width, i + 1) = Offset(Width, i) + Width
    BY <1>2, <2>1, OffsetFacts
  <2>3. Len(packed) + bits = Offset(Width, i)
    BY <1>1 DEF IInv, PackInv
  <2>4. ASSUME NEW m \in 1 .. Count, NEW k \in 1 .. Width, m < i
        PROVE  Stream(packed, buffer', Offset(Width, m) + k)
                 = column.values[m][k]
    <3>1. Stream(packed, buffer, Offset(Width, m) + k) = column.values[m][k]
      BY <1>1, <2>4 DEF IInv, PackInv
    <3>2. m \in Nat \ {0}
      BY <1>2
    <3>3. /\ Offset(Width, m) \in Nat
          /\ Offset(Width, m) + Width <= Offset(Width, i)
      BY <1>2, <2>1, <2>4, <3>2, OffsetFacts
    <3> DEFINE p == Offset(Width, m) + k
    <3>4. p \in Nat /\ p <= Len(packed) + bits
      BY <1>2, <2>3, <3>3
    <3> HIDE DEF p
    <3>5. p > Len(packed) => /\ p - Len(packed) \in 1 .. WordBits
                             /\ p - Len(packed) <= bits
      BY <1>2, <3>4
    <3>6. p > Len(packed) => buffer'[p - Len(packed)] = buffer[p - Len(packed)]
      BY <1>4, <3>5
    <3>7. Stream(packed, buffer', p) = Stream(packed, buffer, p)
      BY <1>2, <3>4, <3>6 DEF Stream
    <3> QED BY <3>1, <3>7 DEF p
  <2>5. ASSUME NEW k \in 1 .. Width
        PROVE  Stream(packed, buffer', Offset(Width, i) + k) = x[k]
    <3>1. /\ Offset(Width, i) + k - Len(packed) = bits + k
          /\ Offset(Width, i) + k > Len(packed)
      BY <1>2, <2>2, <2>3
    <3>2. bits + k \in 1 .. WordBits /\ bits + k > bits /\ (bits + k) - bits = k
      BY <1>2
    <3>3. buffer'[bits + k] = x[k]
      BY <1>2, <1>4, <3>2
    <3> QED BY <1>2, <2>2, <3>1, <3>3 DEF Stream
  <2>6. Len(packed') + bits' = Offset(Width', i')
    BY <1>1, <1>2, <2>2, <2>3
  <2>7. ASSUME NEW m \in 1 .. Count, NEW k \in 1 .. Width, m < i + 1
        PROVE  Stream(packed, buffer', Offset(Width, m) + k)
                 = column.values[m][k]
    <3>1. CASE m < i
      BY <2>4, <3>1
    <3>2. CASE m = i
      BY <2>5, <3>2
    <3> QED BY <1>1, <2>7, <3>1, <3>2
  <2>8. output' = <<>> /\ next' = 0
    BY <1>1 DEF IInv, PackInv
  <2> QED BY <1>1, <2>6, <2>7, <2>8 DEF PackInv
<1> QED BY <1>1, <1>5, <1>6, <1>7 DEF IInv, PackedInv, UnpackInv

\* The lowest byte of the buffer becomes the last of the bytes written.
LEMMA PackByteStep ==
  ASSUME IInv, PackByte
  PROVE  IInv'
<1>1. /\ phase = "pack" /\ phase' = "pack"
      /\ column' = column /\ Width' = Width /\ Count' = Count
      /\ i' = i /\ output' = output /\ next' = next
  BY DEF PackByte, Width, Count
<1>2. /\ Width \in Nat /\ Count \in Nat /\ Len(packed) \in Nat
      /\ bits \in ByteBits .. WordBits /\ bits' = bits - ByteBits
      /\ packed \in Seq(Bit) /\ buffer \in Word
  BY Current DEF PackByte, IInv, TypeInv
<1>3. /\ packed' \in Seq(Bit)
      /\ Len(packed') = Len(packed) + ByteBits
      /\ \A p \in 1 .. Len(packed) + ByteBits :
           packed'[p] = IF p <= Len(packed) THEN packed[p]
                        ELSE buffer[p - Len(packed)]
  BY <1>2, AppendByte DEF PackByte
<1>4. \A k \in 1 .. WordBits :
        buffer'[k] = IF k + ByteBits <= WordBits THEN buffer[k + ByteBits] ELSE 0
  BY DEF PackByte, ShiftRight
<1>5. TypeInv'
  <2>1. buffer' \in Word
    BY <1>2, WordFacts DEF PackByte
  <2> QED BY <1>1, <1>2, <1>3, <2>1 DEF IInv, TypeInv
<1>6. CleanInv'
  <2> SUFFICES ASSUME NEW k \in 1 .. WordBits, k > bits - ByteBits
               PROVE  buffer'[k] = 0
    BY <1>2 DEF CleanInv
  <2>1. CASE k + ByteBits <= WordBits
    <3>1. k + ByteBits \in 1 .. WordBits /\ k + ByteBits > bits
      BY <1>2, <2>1
    <3> QED BY <1>4, <2>1, <3>1 DEF IInv, CleanInv
  <2> QED BY <1>4, <2>1
<1>7. ASSUME NEW p \in Nat, 0 < p, p <= Len(packed) + bits
      PROVE  Stream(packed', buffer', p) = Stream(packed, buffer, p)
  <2>1. CASE p <= Len(packed) + ByteBits
    BY <1>2, <1>3, <1>7, <2>1 DEF Stream
  <2>2. CASE p > Len(packed) + ByteBits
    <3> DEFINE k == p - (Len(packed) + ByteBits)
    <3>1. /\ k \in 1 .. WordBits /\ k + ByteBits <= WordBits
          /\ k + ByteBits = p - Len(packed)
      BY <1>2, <1>7, <2>2
    <3>2. buffer'[k] = buffer[p - Len(packed)]
      BY <1>4, <3>1
    <3> QED BY <1>2, <1>3, <2>2, <3>2 DEF Stream
  <2> QED BY <1>2, <2>1, <2>2
<1>8. PackInv'
  <2>1. /\ Len(packed) + bits = Offset(Width, i)
        /\ output = <<>> /\ next = 0 /\ (~Buffered => bits = 0)
    BY <1>1 DEF IInv, PackInv
  <2>2. ASSUME NEW m \in 1 .. Count, NEW k \in 1 .. Width, m < i
        PROVE  Stream(packed', buffer', Offset(Width, m) + k)
                 = column.values[m][k]
    <3>1. Stream(packed, buffer, Offset(Width, m) + k) = column.values[m][k]
      BY <1>1, <2>2 DEF IInv, PackInv
    <3>2. m \in Nat \ {0} /\ i \in Nat \ {0}
      BY <1>2, <2>2 DEF IInv, TypeInv
    <3>3. /\ Offset(Width, m) \in Nat
          /\ Offset(Width, m) + Width <= Offset(Width, i)
      BY <1>2, <2>2, <3>2, OffsetFacts
    <3>4. /\ Offset(Width, m) + k \in Nat /\ 0 < Offset(Width, m) + k
          /\ Offset(Width, m) + k <= Len(packed) + bits
      BY <1>2, <2>1, <3>3
    <3> QED BY <1>7, <3>1, <3>4
  <2>3. Len(packed') + bits' = Offset(Width', i')
    BY <1>1, <1>2, <1>3, <2>1
  <2>4. ~Buffered' => bits' = 0
    BY <1>1, <1>2, <2>1 DEF Buffered
  <2> QED BY <1>1, <2>1, <2>2, <2>3, <2>4 DEF PackInv
<1> QED BY <1>1, <1>5, <1>6, <1>8 DEF IInv, PackedInv, UnpackInv

\* BitUnpack starts on bytes that hold every value.
LEMMA StartUnpackStep ==
  ASSUME IInv, phase = "pack", StartUnpack,
         packed' \in Seq(Bit),
         Len(packed') >= Offset(Width, Count + 1),
         \A m \in 1 .. Count : \A k \in 1 .. Width :
           packed'[Offset(Width, m) + k] = column.values[m][k]
  PROVE  IInv'
<1>1. /\ column' = column /\ Width' = Width /\ Count' = Count
      /\ phase' = "unpack" /\ i' = 1 /\ bits' = 0
      /\ output' = <<>> /\ next' = 0
  BY DEF StartUnpack, Width, Count, IInv, PackInv
<1>2. Width \in Nat /\ Count \in Nat
  BY Current DEF IInv
<1>3. TypeInv'
  BY <1>1, <1>2 DEF StartUnpack, IInv, TypeInv, Zero, Word, Bit
<1>4. CleanInv'
  BY DEF StartUnpack, CleanInv, Zero
<1>5. PackedInv'
  BY <1>1 DEF PackedInv
<1>6. UnpackInv'
  <2>1. Len(packed') \in Nat
    OBVIOUS
  <2>2. Offset(Width, 1) = 0
    BY <1>2, OffsetFacts
  <2> QED BY <1>1, <2>1, <2>2 DEF UnpackInv
<1> QED BY <1>1, <1>3, <1>4, <1>5, <1>6 DEF IInv, PackInv

\* The bits left in the buffer fit one more byte.
LEMMA FlushStep ==
  ASSUME IInv, Flush
  PROVE  IInv'
<1>1. /\ phase = "pack" /\ StartUnpack /\ bits < ByteBits
      /\ packed' = IF bits > 0 THEN packed \o ByteOf(buffer) ELSE packed
  BY DEF Flush
<1>2. /\ Width \in Nat /\ Count \in Nat /\ Len(packed) \in Nat
      /\ bits \in Nat /\ i = Count + 1
      /\ packed \in Seq(Bit) /\ buffer \in Word
  BY Current DEF Flush, IInv, TypeInv
<1>3. Len(packed) + bits = Offset(Width, Count + 1)
  BY <1>1, <1>2 DEF IInv, PackInv
<1>4. /\ packed' \in Seq(Bit)
      /\ Len(packed') \in Nat
      /\ Len(packed') >= Len(packed) + bits
      /\ \A p \in 1 .. Len(packed) + bits :
           packed'[p] = Stream(packed, buffer, p)
  <2>1. CASE bits > 0
    BY <1>1, <1>2, <2>1, AppendByte DEF Stream
  <2>2. CASE bits = 0
    BY <1>1, <1>2, <2>2 DEF Stream
  <2> QED BY <1>2, <2>1, <2>2
<1>5. ASSUME NEW m \in 1 .. Count, NEW k \in 1 .. Width
      PROVE  packed'[Offset(Width, m) + k] = column.values[m][k]
  <2>1. Stream(packed, buffer, Offset(Width, m) + k) = column.values[m][k]
    BY <1>1, <1>2 DEF IInv, PackInv
  <2>2. m \in Nat \ {0} /\ Count + 1 \in Nat \ {0} /\ m < Count + 1
    BY <1>2
  <2>3. /\ Offset(Width, m) \in Nat
        /\ Offset(Width, m) + Width <= Offset(Width, Count + 1)
    BY <1>2, <2>2, OffsetFacts
  <2>4. Offset(Width, m) + k \in 1 .. Len(packed) + bits
    BY <1>2, <1>3, <2>3
  <2> QED BY <1>4, <2>1, <2>4
<1> QED BY <1>1, <1>3, <1>4, <1>5, StartUnpackStep

\* Without a buffer the values follow one another word by word, or are not
\* written at all.
LEMMA PackWholeStep ==
  ASSUME IInv, PackWhole
  PROVE  IInv'
<1>1. phase = "pack" /\ ~Buffered /\ bits = 0
  BY DEF PackWhole, IInv, PackInv
<1>2. /\ Width \in Nat /\ Count \in Nat /\ Len(packed) \in Nat
      /\ (Width = 0 \/ Width = WordBits)
      /\ packed \in Seq(Bit) /\ i \in 1 .. Count + 1
  BY <1>1, Current DEF Buffered, IInv, TypeInv
<1>3. Len(packed) = Offset(Width, i)
  BY <1>1, <1>2 DEF IInv, PackInv
<1>4. ASSUME NEW m \in 1 .. Count, NEW k \in 1 .. Width, m < i
      PROVE  /\ packed[Offset(Width, m) + k] = column.values[m][k]
             /\ Offset(Width, m) + k \in 1 .. Len(packed)
  <2>1. Stream(packed, buffer, Offset(Width, m) + k) = column.values[m][k]
    BY <1>1, <1>4 DEF IInv, PackInv
  <2>2. m \in Nat \ {0} /\ i \in Nat \ {0}
    BY <1>2
  <2>3. /\ Offset(Width, m) \in Nat
        /\ Offset(Width, m) + Width <= Offset(Width, i)
    BY <1>2, <1>4, <2>2, OffsetFacts
  <2>4. Offset(Width, m) + k \in 1 .. Len(packed)
    BY <1>2, <1>3, <2>3
  <2> QED BY <2>1, <2>4 DEF Stream
<1>5. CASE i > Count \/ Width = 0
  <2>1. packed' = packed /\ StartUnpack
    BY <1>5 DEF PackWhole
  <2>2. Len(packed) >= Offset(Width, Count + 1)
    <3>1. CASE i > Count
      BY <1>2, <1>3, <3>1
    <3>2. CASE Width = 0
      BY <1>2, <3>2 DEF Offset
    <3> QED BY <1>5, <3>1, <3>2
  <2>3. ASSUME NEW m \in 1 .. Count, NEW k \in 1 .. Width
        PROVE  packed[Offset(Width, m) + k] = column.values[m][k]
    <3>1. m < i
      BY <1>2, <1>5
    <3> QED BY <1>4, <3>1
  <2> QED BY <1>1, <1>2, <2>1, <2>2, <2>3, StartUnpackStep
<1>6. CASE ~(i > Count \/ Width = 0)
  <2>1. /\ i \in 1 .. Count /\ Width = WordBits
        /\ packed' = packed \o column.values[i] /\ i' = i + 1
        /\ column' = column /\ phase' = phase /\ buffer' = buffer
        /\ bits' = bits /\ next' = next /\ output' = output
        /\ Width' = Width /\ Count' = Count /\ (Buffered' <=> Buffered)
    BY <1>2, <1>6 DEF PackWhole, Width, Count, Buffered
  <2>2. column.values[i] \in Seq(Bit) /\ Len(column.values[i]) = WordBits
    <3>1. column.values[i] \in [1 .. WordBits -> Bit]
      BY <2>1, Current DEF IInv, Word
    <3> QED BY <3>1
  <2>3. /\ packed' \in Seq(Bit)
        /\ Len(packed') = Len(packed) + Width
        /\ \A p \in 1 .. Len(packed) + Width :
             packed'[p] = IF p <= Len(packed) THEN packed[p]
                          ELSE column.values[i][p - Len(packed)]
    BY <1>2, <2>1, <2>2, ConcatProperties
  <2>4. Offset(Width, i + 1) = Offset(Width, i) + Width
    <3>1. i \in Nat \ {0}
      BY <2>1
    <3> QED BY <1>2, <3>1, OffsetFacts
  <2>5. ASSUME NEW m \in 1 .. Count, NEW k \in 1 .. Width, m < i + 1
        PROVE  Stream(packed', buffer', Offset(Width, m) + k)
                 = column.values[m][k]
    <3>1. CASE m < i
      <4>1. /\ packed[Offset(Width, m) + k] = column.values[m][k]
            /\ Offset(Width, m) + k \in 1 .. Len(packed)
        BY <1>4, <3>1
      <4> QED BY <1>2, <2>3, <4>1 DEF Stream
    <3>2. CASE m = i
      <4>1. /\ Len(packed) + k \in 1 .. Len(packed) + Width
            /\ Len(packed) + k > Len(packed)
            /\ Len(packed) + k - Len(packed) = k
        BY <1>2
      <4>2. packed'[Len(packed) + k] = column.values[i][k]
        BY <2>3, <4>1
      <4> QED BY <1>2, <1>3, <2>3, <3>2, <4>1, <4>2 DEF Stream
    <3> QED BY <1>2, <2>5, <3>1, <3>2
  <2>6. TypeInv'
    BY <1>2, <2>1, <2>3 DEF IInv, TypeInv
  <2>7. CleanInv'
    BY <2>1 DEF IInv, CleanInv
  <2>8. PackInv'
    <3>1. output = <<>> /\ next = 0
      BY <1>1 DEF IInv, PackInv
    <3>2. Len(packed') + bits' = Offset(Width', i')
      BY <1>1, <1>2, <1>3, <2>1, <2>3, <2>4
    <3> QED BY <1>1, <2>1, <2>5, <3>1, <3>2 DEF PackInv
  <2> QED BY <1>1, <2>1, <2>6, <2>7, <2>8 DEF IInv, PackedInv, UnpackInv
<1> QED BY <1>5, <1>6

\* What every step of BitUnpack starts from.
LEMMA Unpacking ==
  ASSUME IInv, phase = "unpack", i <= Count
  PROVE  /\ Width \in Nat /\ Width <= WordBits
         /\ Count \in Nat /\ i \in 1 .. Count
         /\ Len(packed) \in Nat /\ packed \in Seq(Bit)
         /\ Len(packed) >= Offset(Width, i) + Width
         /\ Offset(Width, i) \in Nat
         /\ Offset(Width, i + 1) = Offset(Width, i) + Width
         /\ \A k \in 1 .. Width :
              packed[Offset(Width, i) + k] = column.values[i][k]
         /\ column.values[i] \in Word
         /\ \A k \in 1 .. WordBits : k > Width => column.values[i][k] = 0
<1>1. /\ Width \in Nat /\ Width <= WordBits /\ Count \in Nat
      /\ i \in 1 .. Count /\ packed \in Seq(Bit) /\ Len(packed) \in Nat
      /\ column.values[i] \in Word
      /\ \A k \in 1 .. WordBits : k > Width => column.values[i][k] = 0
  BY Current DEF IInv, TypeInv
<1>2. i \in Nat \ {0} /\ Count + 1 \in Nat \ {0} /\ i < Count + 1
  BY <1>1
<1>3. /\ Offset(Width, i) \in Nat
      /\ Offset(Width, i + 1) = Offset(Width, i) + Width
      /\ Offset(Width, i) + Width <= Offset(Width, Count + 1)
      /\ Offset(Width, Count + 1) \in Nat
  BY <1>1, <1>2, OffsetFacts
<1>4. /\ Len(packed) >= Offset(Width, Count + 1)
      /\ \A k \in 1 .. Width :
           packed[Offset(Width, i) + k] = column.values[i][k]
  BY <1>1 DEF IInv, PackedInv
<1> QED BY <1>1, <1>3, <1>4

\* A byte lands above the bits in the buffer and below the end of the word.
LEMMA LoadByteStep ==
  ASSUME IInv, NoOverflow(Width), LoadByte
  PROVE  IInv'
<1> DEFINE y == ByteAt(packed, next)
<1>1. /\ phase = "unpack" /\ phase' = "unpack" /\ Buffered /\ Buffered'
      /\ column' = column /\ Width' = Width /\ Count' = Count /\ i' = i
      /\ packed' = packed /\ output' = output /\ next' = next + ByteBits
      /\ i <= Count /\ bits < Width /\ next + ByteBits <= Len(packed)
  BY DEF LoadByte, Buffered, Width, Count
<1>2. /\ Width \in Nat /\ Count \in Nat /\ Len(packed) \in Nat
      /\ packed \in Seq(Bit) /\ Offset(Width, i) \in Nat
      /\ next \in Nat /\ buffer \in Word
      /\ bits \in Nat /\ bits' = bits + ByteBits /\ bits' <= WordBits
  BY <1>1, Unpacking DEF LoadByte, NoOverflow, Buffered, IInv, TypeInv
<1>3. next = Offset(Width, i) + bits
  BY <1>1 DEF IInv, UnpackInv
<1>4. /\ y \in Word
      /\ \A k \in 1 .. ByteBits : y[k] = packed[next + k]
      /\ \A k \in 1 .. WordBits : k > ByteBits => y[k] = 0
  <2>1. \A k \in 1 .. ByteBits : packed[next + k] \in Bit
    <3> TAKE k \in 1 .. ByteBits
    <3>1. next + k \in 1 .. Len(packed)
      BY <1>1, <1>2
    <3> QED BY <1>2, <3>1, ElementOfSeq
  <2>2. \A k \in 1 .. WordBits :
          y[k] = IF k <= ByteBits THEN packed[next + k] ELSE 0
    BY DEF ByteAt
  <2>3. \A k \in 1 .. WordBits : y[k] \in Bit
    <3> TAKE k \in 1 .. WordBits
    <3>1. k <= ByteBits => k \in 1 .. ByteBits
      OBVIOUS
    <3> QED BY <2>1, <2>2, <3>1 DEF Bit
  <2>4. y \in Word
    BY <2>3 DEF ByteAt, Word
  <2>5. \A k \in 1 .. ByteBits : k \in 1 .. WordBits
    OBVIOUS
  <2> QED BY <2>2, <2>4, <2>5
<1>5. \A k \in 1 .. WordBits :
        buffer'[k] = IF k <= bits THEN buffer[k] ELSE y[k - bits]
  BY <1>2, <1>4 DEF LoadByte, IInv, CleanInv, Or, ShiftLeft, Word, Bit
<1>6. TypeInv'
  <2>1. ShiftLeft(y, bits) \in Word
    BY <1>2, <1>4, WordFacts
  <2>2. buffer' \in Word
    BY <1>2, <2>1, WordFacts DEF LoadByte
  <2> QED BY <1>1, <1>2, <2>2 DEF IInv, TypeInv
<1>7. CleanInv'
  <2> SUFFICES ASSUME NEW k \in 1 .. WordBits, k > bits + ByteBits
               PROVE  buffer'[k] = 0
    BY <1>2 DEF CleanInv
  <2>1. k - bits \in 1 .. WordBits /\ k - bits > ByteBits
    BY <1>2
  <2> QED BY <1>2, <1>4, <1>5, <2>1
<1>8. UnpackInv'
  <2>1. ASSUME NEW k \in 1 .. bits + ByteBits
        PROVE  buffer'[k] = packed[Offset(Width, i) + k]
    <3>1. k \in 1 .. WordBits
      BY <1>2
    <3>2. CASE k <= bits
      <4>1. k \in 1 .. bits
        BY <1>2, <3>2
      <4>2. buffer[k] = packed[Offset(Width, i) + k]
        BY <1>1, <4>1 DEF IInv, UnpackInv
      <4> QED BY <1>5, <3>1, <3>2, <4>2
    <3>3. CASE k > bits
      <4>1. k - bits \in 1 .. ByteBits /\ next + (k - bits) = Offset(Width, i) + k
        BY <1>2, <1>3, <3>3
      <4>2. y[k - bits] = packed[Offset(Width, i) + k]
        BY <1>4, <4>1
      <4> QED BY <1>2, <1>5, <3>1, <3>3, <4>2
    <3> QED BY <1>2, <3>2, <3>3
  <2>2. /\ Len(output) = i - 1
        /\ \A m \in 1 .. Len(output) : output[m] = column.values[m]
    BY <1>1 DEF IInv, UnpackInv
  <2>3. next' = Offset(Width', i') + bits'
    BY <1>1, <1>2, <1>3
  <2> QED BY <1>1, <1>2, <2>1, <2>2, <2>3 DEF UnpackInv
<1> HIDE DEF y
<1>9. PackedInv'
  BY <1>1 DEF IInv, PackedInv
<1> QED BY <1>1, <1>6, <1>7, <1>8, <1>9 DEF IInv, PackInv

\* The lowest bits of the buffer are the next value.
LEMMA UnpackValueStep ==
  ASSUME IInv, UnpackValue
  PROVE  IInv'
<1>1. /\ phase = "unpack" /\ phase' = "unpack" /\ Buffered /\ Buffered'
      /\ column' = column /\ Width' = Width /\ Count' = Count
      /\ i' = i + 1 /\ packed' = packed /\ next' = next
      /\ i <= Count /\ bits >= Width
      /\ output' = Append(output, Low(buffer, Width))
  BY DEF UnpackValue, Buffered, Width, Count
<1>2. /\ Width \in Nat /\ Count \in Nat /\ Len(packed) \in Nat
      /\ i \in 1 .. Count /\ next \in Nat /\ buffer \in Word
      /\ bits \in Nat /\ bits <= WordBits /\ bits' = bits - Width
      /\ output \in Seq(Word)
      /\ Offset(Width, i) \in Nat
      /\ Offset(Width, i + 1) = Offset(Width, i) + Width
  BY <1>1, Unpacking DEF UnpackValue, IInv, TypeInv
<1>3. /\ next = Offset(Width, i) + bits /\ next <= Len(packed)
      /\ \A k \in 1 .. bits : buffer[k] = packed[Offset(Width, i) + k]
      /\ Len(output) = i - 1
      /\ \A m \in 1 .. Len(output) : output[m] = column.values[m]
  BY <1>1 DEF IInv, UnpackInv
<1>4. \A k \in 1 .. WordBits :
        buffer'[k] = IF k + Width <= WordBits THEN buffer[k + Width] ELSE 0
  BY DEF UnpackValue, ShiftRight
<1>5. Low(buffer, Width) = column.values[i]
  <2>1. ASSUME NEW k \in 1 .. WordBits
        PROVE  Low(buffer, Width)[k] = column.values[i][k]
    <3>1. CASE k <= Width
      <4>1. k \in 1 .. Width /\ k \in 1 .. bits
        BY <1>1, <1>2, <3>1
      <4>2. buffer[k] = column.values[i][k]
        BY <1>1, <1>3, <4>1, Unpacking
      <4> QED BY <3>1, <4>2 DEF Low
    <3>2. CASE k > Width
      <4>1. column.values[i][k] = 0
        BY <1>1, <3>2, Unpacking
      <4> QED BY <1>2, <3>2, <4>1 DEF Low
    <3> QED BY <1>2, <3>1, <3>2
  <2>2. /\ Low(buffer, Width) \in Word /\ column.values[i] \in Word
    BY <1>1, <1>2, Unpacking, WordFacts
  <2> QED BY <2>1, <2>2 DEF Word
<1>6. /\ output' \in Seq(Word) /\ Len(output') = i
      /\ \A m \in 1 .. i : output'[m] = column.values[m]
  <2>1. column.values[i] \in Word
    BY <1>1, Unpacking
  <2>2. output' = Append(output, column.values[i])
    BY <1>1, <1>5
  <2> QED BY <1>2, <1>3, <2>1, <2>2, AppendProperties
<1>7. TypeInv'
  <2>1. buffer' \in Word
    BY <1>2, WordFacts DEF UnpackValue
  <2> QED BY <1>1, <1>2, <1>6, <2>1 DEF IInv, TypeInv
<1>8. CleanInv'
  <2> SUFFICES ASSUME NEW k \in 1 .. WordBits, k > bits - Width
               PROVE  buffer'[k] = 0
    BY <1>2 DEF CleanInv
  <2>1. CASE k + Width <= WordBits
    <3>1. k + Width \in 1 .. WordBits /\ k + Width > bits
      BY <1>2, <2>1
    <3> QED BY <1>4, <2>1, <3>1 DEF IInv, CleanInv
  <2> QED BY <1>4, <2>1
<1>9. UnpackInv'
  <2>1. ASSUME NEW k \in 1 .. bits - Width
        PROVE  buffer'[k] = packed[Offset(Width, i + 1) + k]
    <3>1. /\ k \in 1 .. WordBits /\ k + Width <= WordBits
          /\ k + Width \in 1 .. bits
          /\ Offset(Width, i) + (k + Width) = Offset(Width, i + 1) + k
      BY <1>1, <1>2
    <3> QED BY <1>3, <1>4, <3>1
  <2>2. next' = Offset(Width', i') + bits'
    BY <1>1, <1>2, <1>3
  <2> QED BY <1>1, <1>2, <1>3, <1>6, <2>1, <2>2 DEF UnpackInv
<1>10. PackedInv'
  BY <1>1 DEF IInv, PackedInv
<1> QED BY <1>1, <1>7, <1>8, <1>9, <1>10 DEF IInv, PackInv

\* So is the next word of the bytes, or zero when nothing was written.
LEMMA UnpackWholeStep ==
  ASSUME IInv, UnpackWhole
  PROVE  IInv'
<1>1. /\ phase = "unpack" /\ phase' = "unpack" /\ ~Buffered /\ ~Buffered'
      /\ column' = column /\ Width' = Width /\ Count' = Count
      /\ i' = i + 1 /\ packed' = packed /\ bits' = bits
      /\ buffer' = buffer /\ i <= Count
  BY DEF UnpackWhole, Buffered, Width, Count
<1>2. /\ Width \in Nat /\ Count \in Nat /\ Len(packed) \in Nat
      /\ (Width = 0 \/ Width = WordBits)
      /\ i \in 1 .. Count /\ next \in Nat
      /\ output \in Seq(Word)
      /\ Offset(Width, i) \in Nat
      /\ Offset(Width, i + 1) = Offset(Width, i) + Width
      /\ Len(packed) >= Offset(Width, i) + Width
  BY <1>1, Unpacking DEF Buffered, IInv, TypeInv
<1>3. /\ next = Offset(Width, i) /\ bits = 0
      /\ Len(output) = i - 1
      /\ \A m \in 1 .. Len(output) : output[m] = column.values[m]
  BY <1>1, <1>2 DEF IInv, UnpackInv
<1>4. /\ output' = Append(output, column.values[i])
      /\ next' = next + Width
  <2>1. CASE Width = 0
    <3>1. Zero = column.values[i]
      BY <1>1, <2>1, Unpacking DEF Zero, Word
    <3> QED BY <1>2, <2>1, <3>1 DEF UnpackWhole
  <2>2. CASE Width = WordBits
    <3>1. [k \in 1 .. WordBits |-> packed[next + k]] = column.values[i]
      BY <1>1, <1>3, <2>2, Unpacking DEF Word
    <3> QED BY <2>2, <3>1 DEF UnpackWhole
  <2> QED BY <1>2, <2>1, <2>2
<1>5. /\ output' \in Seq(Word) /\ Len(output') = i
      /\ \A m \in 1 .. i : output'[m] = column.values[m]
  <2>1. column.values[i] \in Word
    BY <1>1, Unpacking
  <2> QED BY <1>2, <1>3, <1>4, <2>1, AppendProperties
<1>6. TypeInv'
  BY <1>1, <1>2, <1>4, <1>5 DEF IInv, TypeInv
<1>7. CleanInv'
  BY <1>1 DEF IInv, CleanInv
<1>8. UnpackInv'
  BY <1>1, <1>2, <1>3, <1>4, <1>5 DEF UnpackInv
<1>9. PackedInv'
  BY <1>1 DEF IInv, PackedInv
<1> QED BY <1>1, <1>6, <1>7, <1>8, <1>9 DEF IInv, PackInv

LEMMA FinishStep ==
  ASSUME IInv, Finish
  PROVE  IInv'
<1>1. /\ phase = "unpack" /\ phase' = "done" /\ i > Count
      /\ UNCHANGED <<column, i, buffer, bits, packed, next, output>>
      /\ Width' = Width /\ Count' = Count /\ (Buffered' <=> Buffered)
  BY DEF Finish, Width, Count, Buffered
<1> QED BY <1>1 DEF IInv, TypeInv, CleanInv, PackInv, PackedInv, UnpackInv

\* The inductive invariant holds in every state, for columns of widths that
\* leave room for a byte in the buffer.
LEMMA Inductive ==
  ASSUME \A c \in Columns : NoOverflow(c.width)
  PROVE  Spec => []IInv
<1>1. Init => IInv
  BY InitStep
<1>2. IInv /\ [Next]_vars => IInv'
  <2> SUFFICES ASSUME IInv, [Next]_vars
               PROVE  IInv'
    OBVIOUS
  <2>1. NoOverflow(Width)
    BY DEF IInv, TypeInv, Width
  <2>2. CASE Next
    BY <2>1, <2>2, PackValueStep, PackByteStep, FlushStep, PackWholeStep,
       LoadByteStep, UnpackValueStep, UnpackWholeStep, FinishStep DEF Next
  <2>3. CASE UNCHANGED vars
    BY <2>3 DEF vars, IInv, TypeInv, CleanInv, PackInv, PackedInv, UnpackInv,
       Width, Count, Buffered, Stream
  <2> QED BY <2>2, <2>3
<1> QED BY <1>1, <1>2, PTL DEF Spec

\* A decoded column equals the encoded one, for every number of values, every
\* size of word and byte, and every width w with w + ByteBits <= WordBits + 1
\* (w <= 57 in the code) or w = WordBits: BitPack and BitUnpack are inverse.
THEOREM PackedColumnsRoundTrip ==
  ASSUME \A c \in Columns : NoOverflow(c.width)
  PROVE  Spec => []RoundTrip
<1>1. IInv => RoundTrip
  <2> SUFFICES ASSUME IInv, phase = "done"
               PROVE  output = column.values
    BY DEF RoundTrip
  <2>1. /\ output \in Seq(Word) /\ column.values \in Seq(Word)
        /\ Count \in Nat /\ i \in 1 .. Count + 1
    BY Current DEF IInv, TypeInv
  <2>2. /\ i > Count /\ Len(output) = i - 1
        /\ \A m \in 1 .. Len(output) : output[m] = column.values[m]
    BY DEF IInv, UnpackInv
  <2>3. Len(output) = Len(column.values)
    BY <2>1, <2>2 DEF Count
  <2> QED BY <2>1, <2>2, <2>3, SeqEqual
<1> QED BY <1>1, Inductive, PTL

-----------------------------------------------------------------------------
\* Whole bytes are written and read.
Bytes(n) == \E q \in Nat : n = q * ByteBits

ByteInv == Buffered => Bytes(Len(packed)) /\ Bytes(next)

LEMMA BytesFacts ==
  /\ Bytes(0)
  /\ \A n \in Nat : Bytes(n) => Bytes(n + ByteBits)
  /\ \A m, n \in Nat : Bytes(m) /\ Bytes(n) /\ m < n => m + ByteBits <= n
<1>1. Bytes(0)
  BY DEF Bytes
<1>2. ASSUME NEW n \in Nat, Bytes(n)
      PROVE  Bytes(n + ByteBits)
  <2>1. PICK q \in Nat : n = q * ByteBits
    BY <1>2 DEF Bytes
  <2>2. q + 1 \in Nat /\ n + ByteBits = (q + 1) * ByteBits
    BY <2>1
  <2> QED BY <2>2 DEF Bytes
<1>3. ASSUME NEW m \in Nat, NEW n \in Nat, Bytes(m), Bytes(n), m < n
      PROVE  m + ByteBits <= n
  <2>1. PICK q \in Nat : m = q * ByteBits
    BY <1>3 DEF Bytes
  <2>2. PICK r \in Nat : n = r * ByteBits
    BY <1>3 DEF Bytes
  <2>3. q < r
    <3> SUFFICES ASSUME r <= q
                 PROVE  FALSE
      OBVIOUS
    <3>1. PICK d \in Nat : q = r + d
      <4>1. q - r \in Nat /\ q = r + (q - r)
        OBVIOUS
      <4> QED BY <4>1
    <3>2. m = n + d * ByteBits /\ d * ByteBits \in Nat
      BY <2>1, <2>2, <3>1
    <3> QED BY <1>3, <3>2
  <2>4. PICK d \in Nat : r = q + 1 + d
    <3>1. r - q - 1 \in Nat /\ r = q + 1 + (r - q - 1)
      BY <2>3
    <3> QED BY <3>1
  <2>5. n = m + ByteBits + d * ByteBits /\ d * ByteBits \in Nat
    BY <2>1, <2>2, <2>4
  <2> QED BY <2>5
<1> QED BY <1>1, <1>2, <1>3

LEMMA ByteStep ==
  ASSUME IInv, ByteInv, [Next]_vars
  PROVE  ByteInv'
<1> SUFFICES ASSUME Buffered'
             PROVE  Bytes(Len(packed')) /\ Bytes(next')
  BY DEF ByteInv
<1>1. column' = column /\ Buffered
  <2>1. column' = column
    BY DEF Next, PackValue, PackByte, Flush, PackWhole, StartUnpack, LoadByte,
         UnpackValue, UnpackWhole, Finish, vars
  <2> QED BY <2>1 DEF Buffered, Width
<1>2. /\ Bytes(Len(packed)) /\ Bytes(next)
      /\ Len(packed) \in Nat /\ next \in Nat
      /\ packed \in Seq(Bit) /\ buffer \in Word
  BY <1>1, Current DEF ByteInv, IInv, TypeInv
<1>3. Len(packed \o ByteOf(buffer)) = Len(packed) + ByteBits
  BY <1>2, AppendByte
<1>4. Bytes(Len(packed) + ByteBits) /\ Bytes(next + ByteBits)
  BY <1>2, BytesFacts
<1>5. CASE PackByte
  BY <1>2, <1>3, <1>4, <1>5 DEF PackByte
<1>6. CASE Flush
  BY <1>2, <1>3, <1>4, <1>6 DEF Flush, StartUnpack
<1>7. CASE LoadByte
  BY <1>2, <1>4, <1>7 DEF LoadByte
<1>8. CASE PackValue \/ UnpackValue \/ Finish \/ UNCHANGED vars
  BY <1>2, <1>8 DEF PackValue, UnpackValue, Finish, vars
<1>9. CASE PackWhole \/ UnpackWhole
  BY <1>1, <1>9 DEF PackWhole, UnpackWhole
<1> QED BY <1>5, <1>6, <1>7, <1>8, <1>9 DEF Next

\* The decoder never reads past the bytes that the encoder wrote for the same
\* number of values, although it is given no length to compare its pointer to.
THEOREM DecoderStaysInside ==
  ASSUME \A c \in Columns : NoOverflow(c.width)
  PROVE  Spec => []ReadsInside
<1>1. Init => ByteInv
  <2>1. Init => Len(packed) = 0 /\ next = 0
    BY DEF Init
  <2> QED BY <2>1, BytesFacts DEF ByteInv
<1>2. IInv /\ ByteInv /\ [Next]_vars => ByteInv'
  BY ByteStep
<1>3. IInv /\ ByteInv => ReadsInside
  <2> SUFFICES ASSUME IInv, ByteInv, phase = "unpack", i <= Count
               PROVE  /\ Buffered /\ bits < Width => next + ByteBits <= Len(packed)
                      /\ Width = WordBits => next + WordBits <= Len(packed)
    BY DEF ReadsInside
  <2>1. /\ next = Offset(Width, i) + bits
        /\ (~Buffered => bits = 0)
        /\ bits \in Nat /\ next \in Nat
    BY DEF IInv, TypeInv, UnpackInv
  <2>2. /\ Len(packed) \in Nat /\ Width \in Nat /\ Offset(Width, i) \in Nat
        /\ Len(packed) >= Offset(Width, i) + Width
    BY Unpacking
  <2>3. ASSUME Buffered, bits < Width
        PROVE  next + ByteBits <= Len(packed)
    <3>1. next < Len(packed)
      BY <2>1, <2>2, <2>3
    <3>2. Bytes(next) /\ Bytes(Len(packed))
      BY <2>3 DEF ByteInv
    <3> QED BY <2>1, <2>2, <3>1, <3>2, BytesFacts
  <2>4. ASSUME Width = WordBits
        PROVE  next + WordBits <= Len(packed)
    BY <2>1, <2>2, <2>4 DEF Buffered
  <2> QED BY <2>3, <2>4
<1> QED BY <1>1, <1>2, <1>3, Inductive, PTL DEF Spec

\* The types hold, and bits_in_buffer never exceeds the word, neither in
\* BitPack nor in BitUnpack, so that no shift loses a bit.
THEOREM PackingTypeCorrect ==
  ASSUME \A c \in Columns : NoOverflow(c.width)
  PROVE  Spec => []TypeOK
<1>1. IInv => TypeOK
  <2> SUFFICES ASSUME IInv
               PROVE  TypeOK
    OBVIOUS
  <2>1. next \in 0 .. Len(packed)
    <3>1. Len(packed) \in Nat
      BY Current DEF IInv
    <3>2. next \in Nat /\ next <= Len(packed)
      BY <3>1 DEF IInv, TypeInv, PackInv, UnpackInv
    <3> QED BY <3>1, <3>2
  <2>2. Width \in 0 .. WordBits /\ column.values \in Seq(Word)
    BY DEF IInv, TypeInv, Width
  <2> QED BY <2>1, <2>2 DEF IInv, TypeInv, TypeOK
<1> QED BY <1>1, Inductive, PTL

=============================================================================

---------------------------- MODULE ColumnCodec ----------------------------
(***************************************************************************)
(* The encodings of a column (column_types.cpp) as functions from          *)
(* sequences of cells to sequences of data elements and back.  An element  *)
(* stands for one field of the encoded bytes: a count, a length, a width,  *)
(* a character or one value of a packed run; that a packed run comes back  *)
(* as it was is the subject of module BitPacking.                          *)
(*                                                                         *)
(* Integers keep their width: words have WordBits bits and each type its   *)
(* range.  A string is a sequence of characters, a character an integer;   *)
(* a double is an integer too, for nothing here computes with it.          *)
(***************************************************************************)
EXTENDS Integers, Sequences, FiniteSets, SequencesExt, FiniteSetsExt

CONSTANTS
  WordBits,       \* bits of uint64_t: 64
  LossyWidths,    \* widths that BitPack cannot pack: 59, 61, 62 and 63
  Low, High,      \* the range of each integer type and of the dates
  DictionaryRows, \* columns shorter than this get a dictionary: 128
  SampleSize,     \* values looked at to choose an encoding: 4096
  DistinctPercent \* distinct values of the sample up to which one pays: 70

IntType == {"Int16", "Int32", "Int64"}
DateType == {"Date", "Timestamp"}
Type == IntType \cup DateType \cup {"String", "Double"}

\* The values of a type are no further apart than a word can tell, those of a
\* date half as far, and 0, which a date that does not parse becomes, is one of
\* them.  (The last conjunct is arithmetic.)
ASSUME CodecAssumption ==
  /\ {Low, High} \subseteq [IntType \cup DateType -> Int]
  /\ \A t \in IntType \cup DateType :
       Low[t] <= High[t] /\ High[t] - Low[t] < 2^WordBits
  /\ \A t \in DateType :
       0 \in Low[t] .. High[t] /\ 2 * (High[t] - Low[t]) < 2^WordBits
  /\ WordBits \in Nat /\ \A w \in 0 .. WordBits : 2^w \in Nat \ {0}

\* An unsigned word, and an integer type: what does not fit wraps around.
ToWord(x) == x % 2^WordBits
CastTo(type, x) == Low[type] + ((x - Low[type]) % (High[type] - Low[type] + 1))

GetBitWidth(x) ==
  CHOOSE w \in 0 .. WordBits : x < 2^w /\ (w > 0 => x >= 2^(w - 1))

\* A run of count values of one width; nothing is stored for width 0.
BitPack(values, width) == IF width = 0 THEN <<>> ELSE values
BitUnpack(data, count, width) ==
  IF width = 0 THEN [k \in 1 .. count |-> 0] ELSE SubSeq(data, 1, count)

-----------------------------------------------------------------------------
\* EncodeMinBitPacked: the minimum and the distances from it.
Offsets(values) ==
  LET min == Min(ToSet(values))
  IN [k \in DOMAIN values |-> ToWord(values[k] - min)]

EncodeMinBitPacked(values) ==
  IF values = <<>> THEN <<0>>
  ELSE LET width == GetBitWidth(Max(ToSet(Offsets(values))))
       IN <<Len(values), Min(ToSet(values)), width>>
            \o BitPack(Offsets(values), width)

DecodeMinBitPacked(type, data) ==
  IF data[1] = 0 THEN <<>>
  ELSE LET offsets == BitUnpack(SubSeq(data, 4, Len(data)), data[1], data[3])
       IN [k \in 1 .. data[1] |-> CastTo(type, data[2] + offsets[k])]

\* Int64 columns whose distances need a whole word are stored as they are.
ShouldUseRawInt64Encoding(values) ==
  values # <<>> /\ GetBitWidth(Max(ToSet(Offsets(values)))) = WordBits

EncodeRaw(values) == <<Len(values)>> \o values
DecodeRaw(data) == SubSeq(data, 2, data[1] + 1)

MinBitPacked == 0
Raw == 1

EncodeInt64(values) ==
  IF ShouldUseRawInt64Encoding(values)
    THEN <<Raw>> \o EncodeRaw(values)
    ELSE <<MinBitPacked>> \o EncodeMinBitPacked(values)

DecodeInt64(data) ==
  IF data = <<>> THEN <<>>
  ELSE IF data[1] = Raw THEN DecodeRaw(Tail(data))
                        ELSE DecodeMinBitPacked("Int64", Tail(data))

-----------------------------------------------------------------------------
\* ZigZagEncode: small differences of either sign become small words.
ZigZagEncode(x) == IF x >= 0 THEN ToWord(2 * x) ELSE ToWord(-2 * x - 1)
ZigZagDecode(n) == IF n % 2 = 0 THEN n \div 2 ELSE -(n \div 2) - 1

\* WRONG: the differences from the first value in place of the one before.
EncodeDeltaFromFirst(values) ==
  IF values = <<>> THEN <<0>>
  ELSE IF Len(values) = 1 THEN <<1, values[1], 0>>
  ELSE LET deltas == [k \in 1 .. Len(values) - 1 |->
                        ZigZagEncode(values[k + 1] - values[1])]
           width == GetBitWidth(Max(ToSet(deltas)))
       IN <<Len(values), values[1], width>> \o BitPack(deltas, width)

\* EncodeDeltaBitPacked: the first value and the difference to each next one.
EncodeDeltaBitPacked(values) ==
  IF values = <<>> THEN <<0>>
  ELSE IF Len(values) = 1 THEN <<1, values[1], 0>>
  ELSE LET deltas == [k \in 1 .. Len(values) - 1 |->
                        ZigZagEncode(values[k + 1] - values[k])]
           width == GetBitWidth(Max(ToSet(deltas)))
       IN <<Len(values), values[1], width>> \o BitPack(deltas, width)

DecodeDeltaBitPacked(type, data) ==
  IF data[1] = 0 THEN <<>>
  ELSE IF data[1] = 1 THEN <<CastTo(type, data[2])>>
  ELSE LET deltas == BitUnpack(SubSeq(data, 4, Len(data)), data[1] - 1, data[3])
           Step(current, delta) == Append(current,
                                          Last(current) + ZigZagDecode(delta))
           current == FoldLeft(Step, <<data[2]>>, deltas)
       IN [k \in 1 .. data[1] |-> CastTo(type, current[k])]

-----------------------------------------------------------------------------
\* EncodeStringDictionary: the distinct strings in the order in which they
\* first occur, and for every cell the number of its string.
Dictionary(values) ==
  LET Step(d, s) == IF Contains(d, s) THEN d ELSE Append(d, s)
  IN FoldLeft(Step, <<>>, values)

EncodeStringDictionary(values) ==
  LET dictionary == Dictionary(values)
      ids == [k \in DOMAIN values |-> (CHOOSE n \in DOMAIN dictionary :
                                         dictionary[n] = values[k]) - 1]
      width == GetBitWidth(Len(dictionary) - 1)
      entries == [n \in DOMAIN dictionary |->
                    <<Len(dictionary[n])>> \o dictionary[n]]
  IN <<Len(dictionary)>> \o FlattenSeq(entries) \o <<width>>
       \o BitPack(ids, width)

\* One string of known length is taken from the front of the data.
TakeString(data, length) == [string |-> SubSeq(data, 1, length),
                             rest |-> SubSeq(data, length + 1, Len(data))]

DecodeStringDictionary(data, count) ==
  LET Step(acc, n) ==
        LET t == TakeString(Tail(acc.rest), Head(acc.rest))
        IN [dictionary |-> Append(acc.dictionary, t.string), rest |-> t.rest]
      read == FoldLeft(Step, [dictionary |-> <<>>, rest |-> Tail(data)],
                       [n \in 1 .. data[1] |-> n])
      ids == BitUnpack(Tail(read.rest), count, Head(read.rest))
  IN [k \in 1 .. count |-> read.dictionary[ids[k] + 1]]

\* EncodeStringDeltaLengthByteArray: what a string shares with the string
\* before it is not stored again.
CommonLength(s, t) ==
  Max({n \in 0 .. Min({Len(s), Len(t)}) : SubSeq(s, 1, n) = SubSeq(t, 1, n)})

EncodeStringDeltaLength(values) ==
  LET Suffix(k) ==
        LET prefix == CommonLength(values[k - 1], values[k])
        IN <<prefix, Len(values[k]) - prefix>>
             \o SubSeq(values[k], prefix + 1, Len(values[k]))
  IN <<Len(values[1])>> \o values[1]
       \o FlattenSeq([k \in 1 .. Len(values) - 1 |-> Suffix(k + 1)])

DecodeStringDeltaLength(data, count) ==
  LET first == TakeString(Tail(data), data[1])
      Step(acc, n) ==
        LET t == TakeString(SubSeq(acc.rest, 3, Len(acc.rest)), acc.rest[2])
        IN [values |-> Append(acc.values,
                              SubSeq(Last(acc.values), 1, acc.rest[1])
                                \o t.string),
            rest |-> t.rest]
  IN FoldLeft(Step, [values |-> <<first.string>>, rest |-> first.rest],
              [n \in 1 .. count - 1 |-> n]).values

\* A dictionary pays for short columns and for few distinct strings.
ShouldUseDictionaryEncoding(values) ==
  LET sample == SubSeq(values, 1, Min({Len(values), SampleSize}))
  IN \/ Len(values) < DictionaryRows
     \/ 100 * Cardinality(ToSet(sample)) <= DistinctPercent * Len(sample)

DictionaryTag == 0
DeltaLengthTag == 1

EncodeString(values) ==
  IF values = <<>> THEN <<0>>
  ELSE IF ShouldUseDictionaryEncoding(values)
    THEN <<Len(values), DictionaryTag>> \o EncodeStringDictionary(values)
    ELSE <<Len(values), DeltaLengthTag>> \o EncodeStringDeltaLength(values)

DecodeString(data) ==
  LET payload == SubSeq(data, 3, Len(data))
  IN IF data[1] = 0 THEN <<>>
     ELSE IF data[2] = DictionaryTag
       THEN DecodeStringDictionary(payload, data[1])
       ELSE DecodeStringDeltaLength(payload, data[1])

-----------------------------------------------------------------------------
\* Column::Encode and Column::Decode (SetData) of each type.
Encode(type, values) ==
  CASE type \in {"Int16", "Int32"} -> EncodeMinBitPacked(values)
    [] type = "Int64" -> EncodeInt64(values)
    [] type \in DateType -> EncodeDeltaBitPacked(values)
    [] type = "String" -> EncodeString(values)
    [] type = "Double" -> EncodeRaw(values)

Decode(type, data) ==
  CASE type \in {"Int16", "Int32"} -> DecodeMinBitPacked(type, data)
    [] type = "Int64" -> DecodeInt64(data)
    [] type \in DateType -> DecodeDeltaBitPacked(type, data)
    [] type = "String" -> DecodeString(data)
    [] type = "Double" -> DecodeRaw(data)

\* Columns that BitPack can pack (see the run wide_columns for the others).
Packable(type, values) ==
  type = "Int64" /\ values # <<>> =>
    GetBitWidth(Max(ToSet(Offsets(values)))) \notin LossyWidths

=============================================================================

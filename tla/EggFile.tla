------------------------------ MODULE EggFile ------------------------------
(***************************************************************************)
(* The table file: RowGroupWriter turns the records of a CSV source into   *)
(* row groups, column by column, and closes the file with the metadata by  *)
(* which Metadata::Read and RowGroupReader find everything again, to read  *)
(* it batch by batch or to export it as CSV.                               *)
(*                                                                         *)
(* The file is a sequence of data elements (ColumnCodec); positions and    *)
(* sizes, which the code counts in bytes, are counted in elements.         *)
(***************************************************************************)
EXTENDS ColumnCodec, CsvText

CONSTANTS
  Sources,        \* CSV files with their schemes: [types : Seq(Type),
                  \*   names : Seq(Token), header : BOOLEAN, text : Seq(Char),
                  \*   records : Seq(Seq(Token))]; with a header the names
                  \*   are in the text, and records is what the rest means
  RowGroupSize,   \* a row group is full above this size
  SizeOf          \* what a cell of each type, a string when it is empty,
                  \*   counts for in it

\* The records of a source are those of its text, behind the names where it has
\* them; a cell that is a date is one in the range of dates.
ASSUME EggFileAssumption ==
  /\ RowGroupSize \in Nat /\ SizeOf \in [Type -> Nat]
  /\ \A s \in Sources :
       /\ s.types \in Seq(Type) /\ s.names \in Seq(Seq(Int)) /\ s.header \in BOOLEAN
       /\ s.text \in Seq(Int) /\ s.records \in Seq(Seq(Seq(Int)))
       /\ Records(s.text) = (IF s.header THEN <<s.names>> ELSE <<>>) \o s.records
       /\ Len(s.records) <= 2^WordBits
       /\ \A r \in DOMAIN s.records : \A c \in DOMAIN s.records[r] \cap DOMAIN s.types :
            s.types[c] \in DateType /\ s.records[r][c] # <<>> =>
              s.records[r][c][1] \in Low[s.types[c]] .. High[s.types[c]]

VARIABLES
  source,         \* the CSV file
  names,          \* the names in the scheme
  position,       \* the characters read
  eof,            \* the end-of-file flag of the stream
  phase,          \* where the writer, then the reader, is
  str_batch,      \* the records of the row group under way
  capacity,       \* group_capacity
  row_group,      \* the columns, as the Column objects hold them
  file,           \* the output
  batch_starts,   \* batch_start_pos
  all_metadata,   \* all_batch_metadata_
  all_stats,      \* all_batch_block_stats_
  metadata,       \* what Metadata::Read has parsed
  curr_batch,     \* the row groups that the reader has passed
  batch,          \* the last batch it returned
  exported        \* the CSV file that ReadToCSV writes

writerVars == <<source, names, position, eof, str_batch, capacity, row_group, file,
                batch_starts, all_metadata, all_stats>>
readerVars == <<metadata, curr_batch, batch, exported>>
vars == <<writerVars, phase, readerVars>>

Types == source.types
ColumnNum == Len(Types)

-----------------------------------------------------------------------------
\* A token is a sequence of characters.  std::stoi takes the number at its
\* front (here its first character) and throws when there is none.
Throws(type, token) == type \in IntType /\ token = <<>>

\* AddColumn: integers are cut to their type; dates and doubles that do
\* not parse are 0.
Parse(type, token) ==
  CASE type \in IntType -> CastTo(type, token[1])
    [] type \in DateType \cup {"Double"} -> IF token = <<>> THEN 0 ELSE token[1]
    [] type = "String" -> token

RowSize(record) ==
  LET Size(c) == SizeOf[Types[c]]
                   + (IF Types[c] = "String" THEN Len(record[c]) ELSE 0)
  IN MapThenSumSet(Size, 1 .. ColumnNum)

\* The lexicographic order of strings.
Before(s, t) ==
  LET n == CommonLength(s, t)
  IN Len(s) = n \/ (Len(t) > n /\ s[n + 1] < t[n + 1])

\* Column::GetMin and GetMax; dates are compared as numbers, given as text.
Least(type, values) ==
  IF type = "String"
    THEN CHOOSE s \in ToSet(values) : \A t \in ToSet(values) : Before(s, t)
    ELSE Min(ToSet(values))
Greatest(type, values) ==
  IF type = "String"
    THEN CHOOSE s \in ToSet(values) : \A t \in ToSet(values) : Before(t, s)
    ELSE Max(ToSet(values))

\* WRONG: the statistics of the first value.
ComputeFirstValueStats(type, values) ==
  [min |-> values[1], max |-> values[1]]

ComputeColumnBlockStats(type, values) ==
  [min |-> Least(type, values), max |-> Greatest(type, values)]

\* A statistic in the file: a number, or a length and the text.
StatElements(type, v) ==
  CASE type \in IntType \cup {"Double"} -> <<v>>
    [] type \in DateType -> <<1, v>>
    [] type = "String" -> <<Len(v)>> \o v

SerializeStats(stats) ==
  FlattenSeq([b \in DOMAIN stats |->
    FlattenSeq([c \in 1 .. ColumnNum |->
      StatElements(Types[c], stats[b][c].min)
        \o StatElements(Types[c], stats[b][c].max)])])

SerializeScheme ==
  FlattenSeq([c \in 1 .. ColumnNum |-> <<Len(names[c])>> \o names[c]])

-----------------------------------------------------------------------------
NoColumns == [c \in 1 .. ColumnNum |-> <<>>]
NoMetadata == [starts |-> <<>>]
NoBatch == <<>>

Init ==
  /\ source \in Sources
  /\ names = <<>>
  /\ position = 0 /\ eof = FALSE
  /\ phase = "scheme"
  /\ str_batch = <<>> /\ capacity = 0
  /\ row_group = NoColumns
  /\ file = <<>>
  /\ batch_starts = <<>> /\ all_metadata = <<>> /\ all_stats = <<>>
  /\ metadata = NoMetadata
  /\ curr_batch = 0
  /\ batch = NoBatch
  /\ exported = <<>>

NextRecord == GetNextLineAndSplitIntoTokens(source.text, position)

\* SetScheme: without explicit names the first record has them.  A name may
\* occur once, and each must have a type.
SetScheme ==
  /\ phase = "scheme"
  /\ names' = IF source.header THEN NextRecord.record ELSE source.names
  /\ position' = IF source.header THEN NextRecord.position ELSE 0
  /\ eof' = (source.header /\ NextRecord.eof)
  /\ phase' = IF IsInjective(names') /\ Len(names') = ColumnNum
                THEN "between" ELSE "failed"
  /\ UNCHANGED <<source, str_batch, capacity, row_group, file, batch_starts,
                 all_metadata, all_stats, readerVars>>

\* WriteAll: another row group, unless the stream is at its end.
StartGroup ==
  /\ phase = "between" /\ ~eof
  /\ phase' = "rows"
  /\ batch_starts' = Append(batch_starts, Len(file))
  /\ str_batch' = <<>>
  /\ capacity' = 0
  /\ UNCHANGED <<source, names, position, eof, row_group, file, all_metadata,
                 all_stats, readerVars>>

ReadRow ==
  /\ phase = "rows" /\ capacity <= RowGroupSize /\ ~eof
  /\ LET next == NextRecord
     IN /\ next.record # <<>> /\ Len(next.record) >= ColumnNum
        /\ str_batch' = Append(str_batch, next.record)
        /\ capacity' = capacity + RowSize(next.record)
        /\ position' = next.position
        /\ eof' = next.eof
  /\ UNCHANGED <<source, names, phase, row_group, file, batch_starts, all_metadata,
                 all_stats, readerVars>>

\* row[i] of a record with too few tokens is moved from behind the end of the
\* vector: the process dies.
ReadShortRow ==
  /\ phase = "rows" /\ capacity <= RowGroupSize /\ ~eof
  /\ NextRecord.record # <<>> /\ Len(NextRecord.record) < ColumnNum
  /\ phase' = "crashed"
  /\ UNCHANGED <<writerVars, readerVars>>

\* Behind the last newline there is no record: the group ends.
ReadNothing ==
  /\ phase = "rows" /\ capacity <= RowGroupSize /\ ~eof
  /\ NextRecord.record = <<>>
  /\ eof' = TRUE
  /\ phase' = "encode"
  /\ UNCHANGED <<source, names, position, str_batch, capacity, row_group, file,
                 batch_starts, all_metadata, all_stats, readerVars>>

\* WRONG: one row too few.
GroupFullEarly ==
  /\ phase = "rows" /\ (capacity >= RowGroupSize \/ eof)
  /\ phase' = "encode"
  /\ UNCHANGED <<writerVars, readerVars>>

GroupFull ==
  /\ phase = "rows" /\ (capacity > RowGroupSize \/ eof)
  /\ phase' = "encode"
  /\ UNCHANGED <<writerVars, readerVars>>

Column(c) == [r \in DOMAIN str_batch |-> str_batch[r][c]]

\* AddColumn throws for a cell that is no number: WriteAll is left, and the
\* file has no metadata.
AddColumnThrows ==
  /\ phase = "encode"
  /\ \E c \in 1 .. ColumnNum : \E r \in DOMAIN str_batch :
       Throws(Types[c], str_batch[r][c])
  /\ phase' = "failed"
  /\ UNCHANGED <<writerVars, readerVars>>

\* The columns with the cells of the group added to them.
Filled ==
  [c \in 1 .. ColumnNum |->
     row_group[c] \o [r \in DOMAIN str_batch |-> Parse(Types[c], Column(c)[r])]]

Encoded == [c \in 1 .. ColumnNum |-> Encode(Types[c], Filled[c])]
Sizes == [c \in 1 .. ColumnNum |-> Len(Encoded[c])]
SizeUpTo(sizes, n) == FoldLeft(LAMBDA x, y : x + y, 0, SubSeq(sizes, 1, n))

\* The smallest element of an empty column is read behind its end.  The
\* process dies, or, when the column keeps the memory of the group before,
\* the statistics are what is left there: the first value of that group or,
\* for a string, maybe an empty one.  The group is then written without rows.
EmptyGroup ==
  /\ phase = "encode" /\ str_batch = <<>>
  /\ \/ /\ phase' = "crashed"
        /\ UNCHANGED <<writerVars, readerVars>>
     \/ /\ all_stats # <<>>
        /\ LET first == source.records[Len(source.records) - Last(all_metadata) + 1]
           IN \E cleared \in BOOLEAN :
                all_stats' = Append(all_stats, [c \in 1 .. ColumnNum |->
                  LET v == IF cleared /\ Types[c] = "String"
                             THEN <<>> ELSE Parse(Types[c], first[c])
                  IN [min |-> v, max |-> v]])
        /\ file' = file \o FlattenSeq(Encoded)
        /\ all_metadata' = all_metadata \o <<SizeUpTo(Sizes, ColumnNum)>>
                                        \o Sizes \o <<0>>
        /\ phase' = "between"
        /\ UNCHANGED <<source, names, position, eof, str_batch, capacity, row_group,
                       batch_starts, readerVars>>

\* Columns of the widths that BitPack cannot pack are left to BitPacking.
CanEncode ==
  /\ phase = "encode" /\ str_batch # <<>>
  /\ \A c \in 1 .. ColumnNum : \A r \in DOMAIN str_batch :
       ~Throws(Types[c], str_batch[r][c])
  /\ \A c \in 1 .. ColumnNum : Packable(Types[c], Filled[c])

\* WRONG: the columns keep the rows of the group.
WriteGroupWithoutClear ==
  /\ CanEncode
  /\ all_stats' = Append(all_stats, [c \in 1 .. ColumnNum |->
                    ComputeColumnBlockStats(Types[c], Filled[c])])
  /\ file' = file \o FlattenSeq(Encoded)
  /\ all_metadata' = all_metadata \o <<SizeUpTo(Sizes, ColumnNum)>> \o Sizes
                                  \o <<Len(str_batch)>>
  /\ row_group' = Filled
  /\ phase' = "between"
  /\ UNCHANGED <<source, names, position, eof, str_batch, capacity, batch_starts,
                 readerVars>>

\* The rest of WriteGroup: columns, statistics, data and sizes, Clear.
WriteGroup ==
  /\ CanEncode
  /\ all_stats' = Append(all_stats, [c \in 1 .. ColumnNum |->
                    ComputeColumnBlockStats(Types[c], Filled[c])])
  /\ file' = file \o FlattenSeq(Encoded)
  /\ all_metadata' = all_metadata \o <<SizeUpTo(Sizes, ColumnNum)>> \o Sizes
                                  \o <<Len(str_batch)>>
  /\ row_group' = NoColumns
  /\ phase' = "between"
  /\ UNCHANGED <<source, names, position, eof, str_batch, capacity, batch_starts,
                 readerVars>>

TypeCode(type) ==
  CASE type = "Int16" -> 1 [] type = "Int32" -> 2 [] type = "Int64" -> 3
    [] type = "String" -> 4 [] type = "Double" -> 5 [] type = "Date" -> 6
    [] type = "Timestamp" -> 7

\* The end of WriteAll: the metadata and, last, their size.
WriteMetadata ==
  LET stats == SerializeStats(all_stats)
      footer == <<Len(batch_starts)>> \o batch_starts \o <<ColumnNum>>
                  \o [c \in 1 .. ColumnNum |-> TypeCode(Types[c])]
                  \o all_metadata \o <<Len(stats)>> \o stats \o SerializeScheme
  IN /\ phase = "between" /\ eof
     /\ file' = file \o footer \o <<Len(footer)>>
     /\ phase' = "written"
     /\ UNCHANGED <<source, names, position, eof, str_batch, capacity, row_group,
                    batch_starts, all_metadata, all_stats, readerVars>>

-----------------------------------------------------------------------------
TypeOfCode(n) == CHOOSE type \in Type : TypeCode(type) = n

\* One statistic is parsed from the front of the data.
TakeStat(data, type) ==
  CASE type \in IntType \cup {"Double"} ->
         [value |-> data[1], rest |-> Tail(data)]
    [] type \in DateType ->
         [value |-> data[2], rest |-> SubSeq(data, 3, Len(data))]
    [] type = "String" ->
         LET t == TakeString(Tail(data), data[1])
         IN [value |-> t.string, rest |-> t.rest]

\* The statistics of n batches with columns of these types, in order.
ParseStats(data, types, n) ==
  LET Step(acc, k) ==
        LET type == types[((k - 1) % Len(types)) + 1]
            min == TakeStat(acc.rest, type)
            max == TakeStat(min.rest, type)
        IN [stats |-> Append(acc.stats, [min |-> min.value, max |-> max.value]),
            rest |-> max.rest]
      all == FoldLeft(Step, [stats |-> <<>>, rest |-> data],
                      [k \in 1 .. n * Len(types) |-> k]).stats
  IN [b \in 1 .. n |-> SubSeq(all, (b - 1) * Len(types) + 1, b * Len(types))]

\* The names fill what is left of the metadata.
ParseNames(data, n) ==
  LET Step(acc, k) ==
        LET t == TakeString(Tail(acc.rest), acc.rest[1])
        IN [names |-> Append(acc.names, t.string), rest |-> t.rest]
  IN FoldLeft(Step, [names |-> <<>>, rest |-> data], [k \in 1 .. n |-> k]).names

\* Metadata::Read of a file f, from its end backwards.
ReadMetadata(f) ==
  LET m == SubSeq(f, Len(f) - Last(f), Len(f) - 1)
      batches == m[1]
      columns == m[batches + 2]
      sizesAt == batches + columns + 2
      statsAt == sizesAt + batches * (columns + 2) + 1
      types == [c \in 1 .. columns |-> TypeOfCode(m[batches + 2 + c])]
  IN [starts |-> SubSeq(m, 2, batches + 1),
      types |-> types,
      sizes |-> [b \in 1 .. batches |->
                   SubSeq(m, sizesAt + (b - 1) * (columns + 2) + 1,
                             sizesAt + b * (columns + 2))],
      stats |-> ParseStats(SubSeq(m, statsAt + 1, statsAt + m[statsAt]),
                           types, batches),
      names |-> ParseNames(SubSeq(m, statsAt + m[statsAt] + 1, Len(m)), columns)]

OpenReader ==
  /\ phase = "written"
  /\ metadata' = ReadMetadata(file)
  /\ curr_batch' = 0
  /\ phase' = "open"
  /\ UNCHANGED <<writerVars, batch, exported>>

BatchCount == Len(metadata.starts)

\* The data of column c lie behind those of the columns before it.
GetColumnData(b, c) ==
  LET sizes == SubSeq(metadata.sizes[b], 2, Len(metadata.types) + 1)
      from == metadata.starts[b] + SizeUpTo(sizes, c - 1)
  IN SubSeq(file, from + 1, from + sizes[c])

\* The reader returns the columns asked for; the others stay empty.
ReadNextBatch ==
  /\ phase = "open" /\ curr_batch < BatchCount
  /\ \E ids \in SUBSET (1 .. Len(metadata.types)) \ {{}} :
       batch' = [c \in 1 .. Len(metadata.types) |->
                   IF c \in ids
                     THEN Decode(metadata.types[c],
                                 GetColumnData(curr_batch + 1, c))
                     ELSE <<>>]
  /\ curr_batch' = curr_batch + 1
  /\ UNCHANGED <<writerVars, phase, metadata, exported>>

\* WRONG: the position may leave the file.
SkipAnyBatch ==
  /\ phase = "open" /\ curr_batch <= BatchCount
  /\ curr_batch' = curr_batch + 1
  /\ UNCHANGED <<writerVars, phase, metadata, batch, exported>>

SkipNextBatch ==
  /\ phase = "open" /\ curr_batch < BatchCount
  /\ curr_batch' = curr_batch + 1
  /\ UNCHANGED <<writerVars, phase, metadata, batch, exported>>

\* A cell as text; a number is a character by itself.
CellAsString(type, cell) == IF type = "String" THEN cell ELSE <<cell>>

\* The texts with a separator between them.
Joined(texts, separator) ==
  FoldLeft(LAMBDA joined, k : joined \o (IF k = 1 THEN <<>> ELSE <<separator>>)
                                     \o texts[k], <<>>, [k \in DOMAIN texts |-> k])

RowAsString(b, r) ==
  Joined([c \in 1 .. ColumnNum |->
            CellAsString(metadata.types[c],
                         Decode(metadata.types[c], GetColumnData(b, c))[r])], Comma)

\* WRONG: a newline between the groups is missing.
GroupAsStringUnended(b) ==
  Joined([r \in 1 .. Last(metadata.sizes[b]) |-> RowAsString(b, r)], NewLine)

\* The rows of a group, each but the last one of the file with a newline.
GroupAsString(b) ==
  FlattenSeq([r \in 1 .. Last(metadata.sizes[b]) |-> RowAsString(b, r) \o
    (IF r = Last(metadata.sizes[b]) /\ b = BatchCount THEN <<>> ELSE <<NewLine>>)])

\* The names leave for the file together with the first group: without any
\* group the file is empty.  Callers export with a reader of its own.
ReadToCSV ==
  /\ phase = "open" /\ curr_batch = 0
  /\ exported' = IF BatchCount = 0 THEN <<>>
                   ELSE Joined(metadata.names, Comma) \o <<NewLine>>
                          \o FlattenSeq([b \in 1 .. BatchCount |-> GroupAsString(b)])
  /\ phase' = "exported"
  /\ UNCHANGED <<writerVars, metadata, curr_batch, batch>>

Next ==
  \/ SetScheme
  \/ StartGroup
  \/ ReadRow
  \/ ReadShortRow
  \/ ReadNothing
  \/ GroupFull
  \/ AddColumnThrows
  \/ EmptyGroup
  \/ WriteGroup
  \/ WriteMetadata
  \/ OpenReader
  \/ ReadNextBatch
  \/ SkipNextBatch
  \/ ReadToCSV

Spec == Init /\ [][Next]_vars

-----------------------------------------------------------------------------
\* Every variable has its type, and neither the writer nor the reader leaves
\* what there is to read.
TypeOK ==
  /\ phase \notin {"scheme", "failed"} => Len(names) = ColumnNum
  /\ position \in 0 .. Len(source.text) /\ eof \in BOOLEAN
  /\ phase \in {"scheme", "between", "rows", "encode", "written", "open", "exported",
                "failed", "crashed"}
  /\ Len(str_batch) <= position /\ capacity \in Nat
  /\ Len(row_group) = ColumnNum
  /\ \A b \in DOMAIN batch_starts : batch_starts[b] \in 0 .. Len(file)
  /\ Len(all_metadata) = (ColumnNum + 2) * Len(all_stats)
  /\ curr_batch \in 0 .. BatchCount
  /\ batch = NoBatch \/ Len(batch) = ColumnNum

Typed(c, r) == Parse(Types[c], source.records[r][c])
Stored(b, c) == Decode(Types[c], GetColumnData(b, c))
RowCount(b) == Last(metadata.sizes[b])

\* A file that can be opened holds the whole source: the types and the names
\* of the columns, and in every column the cells of all the records, in order
\* and converted to the type of the column, however the rows were cut into
\* groups and whichever encoding each group chose.
TableIsWhole ==
  phase = "open" =>
    /\ metadata.types = Types /\ metadata.names = source.names
    /\ \A c \in 1 .. ColumnNum :
         FlattenSeq([b \in 1 .. BatchCount |-> Stored(b, c)])
           = [r \in DOMAIN source.records |-> Typed(c, r)]
    /\ \A b \in 1 .. BatchCount : \A c \in 1 .. ColumnNum :
         Len(Stored(b, c)) = RowCount(b)

\* The statistics of a row group, as the reader finds them in the metadata,
\* bound each column of the group, and are values of it when it has rows: what
\* TableScan assumes of the tables that it skips through.
StatsBoundTheirGroup ==
  phase = "open" =>
    \A b \in 1 .. BatchCount : \A c \in 1 .. ColumnNum :
      LET cells == ToSet(Stored(b, c))
          stats == metadata.stats[b][c]
          LessEq(x, y) == IF Types[c] = "String" THEN Before(x, y) ELSE x <= y
      IN /\ cells # {} => stats.min \in cells /\ stats.max \in cells
         /\ \A x \in cells : LessEq(stats.min, x) /\ LessEq(x, stats.max)

\* A row group exceeds RowGroupSize by its last row only, and each but the
\* last one does: the rows that one query step holds are bounded, and no
\* group is cut short.
GroupsAreFull ==
  phase = "open" =>
    LET First(b) == SizeUpTo([k \in 1 .. BatchCount |-> RowCount(k)], b - 1) + 1
        Size(b, n) == MapThenSumSet(LAMBDA r : RowSize(source.records[r]),
                                    First(b) .. First(b) + n - 1)
    IN \A b \in 1 .. BatchCount :
         /\ Size(b, RowCount(b) - 1) <= RowGroupSize
         /\ b < BatchCount => Size(b, RowCount(b)) > RowGroupSize

\* A text that a cell holds without quotes.
IsBare(text) == \A c \in ToSet(text) : c \notin {Quote, Comma, NewLine, Return}

\* An export that needs no quotes (ReadToCSV writes none) is read back by the
\* CSV reader as the names and all rows of the table, across the row groups.
\* One empty cell in the last line is nothing at all, and a record has at
\* least one cell, which a table without columns has not.
ExportIsReadable ==
  phase = "exported" /\ BatchCount > 0 /\ ColumnNum > 0 =>
    LET cells == [r \in DOMAIN source.records |-> [c \in 1 .. ColumnNum |->
                    CellAsString(Types[c], Typed(c, r))]]
    IN (/\ \A c \in DOMAIN names : IsBare(names[c])
        /\ \A r \in DOMAIN cells : \A c \in 1 .. ColumnNum : IsBare(cells[r][c])
        /\ cells # <<>> => Last(cells) # <<<<>>>>)
       => Records(exported) = <<names>> \o cells

\* A batch holds the rows of the source that follow those of the row groups
\* passed so far, read or skipped, in each of the columns asked for.
BatchFollowsThosePassed ==
  [][batch' # batch =>
       LET passed == SizeUpTo([k \in 1 .. BatchCount |-> RowCount(k)], curr_batch)
       IN \A c \in 1 .. ColumnNum :
            batch'[c] # <<>> =>
              batch'[c] = [r \in 1 .. RowCount(curr_batch + 1) |->
                             Typed(c, passed + r)]]_vars

=============================================================================

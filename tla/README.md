# A verification project for the columnar engine

The repository is a small columnar database: it converts a CSV of the
ClickBench table into its own `.egg` format, runs the ClickBench queries
over it with pull operators, and offers both over HTTP. This directory holds
TLA+ modules that model it, TLC configurations that check them on small
instances, and TLAPS proofs for instances of every size. Paths below are
relative to the repository's `src/`.

- [The system](#the-system): its parts, their state, what makes them hard
- [The modules](#the-modules): which models what, and how they correspond
- [The runs](#the-runs): what is checked, under which bounds and fairness
- [The proofs](#the-proofs): what is proved, from what, and how
- [Findings](#findings): where the code and its documents part
- [What is not modelled](#what-is-not-modelled) and [The plan](#the-plan)

`tlc -config X.cfg M` repeats a run, `tlapm M.tla` a proof; `PROJECT.json` lists
runs, theorems, the lines of the source each definition stands for, for every
property a plausible bug of the code that it catches (the operators marked
`WRONG` in the modules), and the hazards the properties are for.

## The system

| Part | State | Operations |
|---|---|---|
| Benchmark service (`benchmark/benchmark_service`) | `load_mutex_`, the data directory | `LoadDataset`, `RunQuery`, `GetStatus` |
| Dataset activation (`benchmark/clickbench_dataset`) | `active.egg`, `active.egg.tmp.N`, a process-wide counter | temporary file, conversion, validation, rename, clean-up, report |
| Query dispatch and plans (`benchmark/clickbench_queries`, `..._query_plans`) | open readers | 42 plans composed of operators; query 40 answers `not_implemented` |
| Row group writer (`file_writer`) | columns and sizes of the current group, metadata of all | cut the CSV into groups, encode, statistics, metadata |
| Row group reader (`file_reader`) | position in the metadata and in the file | open, read, skip, peek statistics |
| CSV reader, scheme (`csv_wrapper`, `scheme`) | input position; names and types | next record; serialise, look up |
| Column types (`column_types`) | one vector of cells | encodings, comparisons, sums, extremes, hashes |
| Operators (`operators`) | what each has read, groups, queue | `Init`, `Next`, `CanSkipBatch`, filters |
| Utilities (`utilities`) | the `std::tm` of `localtime` (shared!) | dates and times, hashes, codes of types |
| HTTP server (`server/benchmark_http_server`) | worker threads (httplib) | routes, hooks, status codes, stop |
| Metrics (`metrics`) | gauge, counters, histograms | start and end of a request, scrape |
| Process (`server/main.cpp`) | signal thread, two atomics | start, stop, exit code |

**How they interact.** Every HTTP request runs on a worker thread of httplib:
hook, handler, hook. The handler calls the service. A load takes `load_mutex_`
for its whole duration; a query takes nothing and meets loads only in the data
directory, through the name `active.egg`. Inside a query the operators pull
batches from each other down to a `ScanOperator`, which pulls row groups from
the file; a `FilterOperator` pushes its condition down so that the scan may skip
groups by their statistics. Everything that formats a date shares the buffer of
`localtime` with all other threads.

**What is hard, and what correct means.**

- *Loads against queries, failures and kills.* A load has seven steps that can
  fail and the process may die between any two. Correct: whoever opens
  `active.egg` finds a complete, validated dataset; what a query answers was
  current while it ran; a failed load changes nothing and leaves nothing; and
  together: the service looks as if a load and a query took effect at one moment.
- *Encodings.* The bits of a value are shifted behind those left over in a
  64-bit buffer, offsets and differences wrap around, and one byte tells which of
  several encodings was chosen. Correct: a column comes back as it was.
- *Row groups.* The writer reuses its columns and metadata for each group; the
  reader finds a column by adding up the sizes of others, skipped groups
  included. Correct: the file holds the source, every row once; statistics bound
  their group; a batch is the one it should be.
- *Skipping.* Conditions are evaluated three times: on rows, on statistics, and
  under `NOT`, `AND`, `OR`. Correct: the scan delivers exactly the rows that
  satisfy all conditions.
- *Group-by.* Groups are found by hash alone. Correct: each row is counted in the
  group of its own key, each key once, with the right aggregates.
- *Sorting with a limit.* A queue forgets rows before all are seen. Correct: no row
  that was left out belongs before one that was returned.
- *Shutdown.* A signal from outside, a wake-up by `main`, and three ways for
  listening to end, in any order. Correct: the process ends, and its exit code
  tells an order from a failure.
- *Metrics.* Three updates per request, with scrapes in between. Correct: the gauge
  counts the open requests and every answer is counted once.
- *Plans.* The operators of a query pull batches from each other, some of them
  empty, some never coming; `nullopt` means the end to one operator and an error to a
  plan. Correct: the printed rows are what the query asks of the whole table, and only
  a table without a matching row is refused.
- *Errors.* One class of exception means different things in different steps, and the
  handlers know only the class. Correct: what a client concludes from a status is what
  happened.

The hazards behind these, line by line, are in `PROJECT.json`.

## The modules

### The service: `DatasetStore`, `BenchmarkService`

`BenchmarkService` has one process per HTTP worker thread. `pc[w]` is where a
thread stands in `LoadDataset`, `RunQuery` or `GetStatus`, and there is one action
per step that another thread or a crash can come between, with one more
for each way in which it fails, by the class of its exception: `StatusOf` is what the handlers
make of it. Files are numbered by the load that created
them, like inodes: a query that has the active file open keeps it when
a rename gives the name to another. Only what a file *is* is kept (absent,
partial or complete), not its bytes. `Kill` ends
all threads and keeps the files; whoever was in a load is forgotten, and its
temporary file stays until `Restart` and after it.

| Action | Code |
|---|---|
| `RequestLoad`, `RequestQuery`, `RequestHealth`, `Respond` | the handlers of the HTTP server |
| `AcquireMutex`, `RejectSource`, `AcceptSource`, `ReleaseMutex` | `LoadDataset`, `ResolveSourcePath` |
| `OpenTemporary` ... `Report`, and `...Fails`, `...Throws` | `LoadClickBenchDataset` |
| `CleanUp` | `~TemporaryDatasetGuard` |
| `ConvertCrashes` | statistics of a group without rows: undefined behaviour: the process dies, or the load goes on (`Convert`) |
| `CheckFails`, `CheckPasses`, and the opens behind them | `RunQuery`, `RunClickBenchQuery` |

`DatasetStore` is what the service promises: one active dataset, a load and a query
that take effect in one step, between request and response. `ImplementsStore`
is `INSTANCE DatasetStore WITH` the mapping given at the end of
`BenchmarkService`; it is a PROPERTY of a run and a theorem.

### The file: `BitPacking`, `ColumnCodec`, `CsvText`, `EggFile`

`BitPacking` has `BitPack` and `BitUnpack` with their buffer: words are functions
from bit positions to bits, of `WordBits` bits; a shift drops what leaves the word.
One step packs a value, a byte, or flushes the last byte, and the same
backwards.

`ColumnCodec` has the encodings of the seven types as operators: raw, offsets from the
minimum, differences with zigzag, dictionary, shared prefixes with lengths, and
the choice between them. Integers are in `Low .. High` of their type and differences
wrap around at `WordBits` bits. Widths that `BitPacking` shows to be lossy
are `LossyWidths`, and groups that need them are left to `BitPacking`.

`CsvText` has the CSV reader as operators on a text: where a token and a record end, quotes and
doubled quotes, newlines within quotes, returns, the flag for the end of the stream. A character is a
number, four of which mean something.

`EggFile` reads the names (`SetScheme`) and the records of a CSV with `CsvText`, cuts them into
groups, encodes these with `ColumnCodec`, writes metadata behind them, opens the file, and
reads or skips batch by batch (`ReadNextBatch`, `SkipNextBatch`) or exports the
table (`ReadToCSV`). The file is a sequence of elements with sizes, so that an offset that is wrong by
a column is seen. Undefined results (statistics of no rows) are a choice.

### The query: `Filters`, `TableScan`, `Aggregation`, `Sorting`, `ClickBenchQueries`, `QueryPlans`

`Filters` has a filter as a record of the rows that satisfy it and of the statistics that
let it skip a group, built by `CompareFilter`, `NotFilter`, `AndFilter`, `OrFilter`.
`TableScan` puts a `ScanOperator` below any number of `FilterOperator`s, each of which
replaces the batch filter of the scan: `Start`, `SkipNextBatch`, `ReadNextBatch`,
`FilterRows`, `Deliver`, `Exhausted`.

`Aggregation` takes batches one by one and rows one by one: `PullBatch`, `NewGroup`,
`KnownGroup`, `UpdateColumns` (without keys), and the three ends. `Hash` is the
code's own polynomial over small byte strings; the mixing behind it is one-to-one
and left out. Sums wrap at `HalfRange`.

`Sorting` has `OrderByLimitKOperator` and `OrderByOperator` as the case without a limit:
`PullBatch`, then per row `KeepRow`, `ReplaceTop` or `DropRow`, then `ReturnRows` or
`ReturnNothing`. A queue of equal rows may give up any of them, as `priority_queue` may.

`ClickBenchQueries` has the plans of the 42 queries that are composed of operators, each a record
written from the scan upwards: columns read, tests with the width of their literals, keys, aggregations,
`HAVING`, sort, `OFFSET` and `LIMIT`. `PlanFits` compares them with the types of the columns.

`QueryPlans` is the composition. It instantiates `TableScan`, `Aggregation` (once with an
average, once with counts) and `Sorting`, chooses a query, and gives each operator its turn: an operator takes a step
when it has work, and the one below it works only while it waits for a batch
(`AggregationWaits`, `SortWaits`, `ScanAsked`), which is the recursion of `Next` as a state machine.
The action that delivers a batch below is the one that receives it above (`AggregationPulls`,
`SortPulls`, `SortPullsAnswer`, `PrintBatch`). `EndOfLoop`, `PrintAggregates`,
`PrintSorted`, `AverageFails` and `RefuseNothing` are the ends. Of a plan the module keeps the shape: its
tests become one of four conditions, by whether they are comparisons (decided by statistics too),
`LIKE` or both; its keys become one column; `OFFSET` and `LIMIT` become 1. The columns and the direction
of the sort are the constants of `Sorting`, whose theorem is for all of them.

### The process: `HttpRequests`, `Shutdown`, `ServerProcess`, `Dates`

`HttpRequests` has each worker between the hooks, with the statuses its handlers
have, and the metrics they update one by one. `Shutdown` has `main` and
`shutdown_thread` with the two atomics, the pending signals of the process and of the thread,
and the two states of httplib that `WaitUntilReady` and `Stop` look at.
`ServerProcess` composes them: requests are read only while the server listens,
and listening ends only when no worker has a request (httplib joins its workers).

`Dates` has `FormatDate` on several threads: `localtime` fills the shared
`std::tm` under its own lock, the caller copies it behind that lock.

## The runs

| Run | Instance | What it shows |
|---|---|---|
| `service` | 3 threads, 2 loads, 5 kinds of sources, crashes at any moment | all safety properties of the service, what its statuses tell, and its refinement of `DatasetStore` |
| `service_liveness` | 2 threads, 2 loads, `file_size` may fail | the mutex is always released; a query is always answered |
| `bit_packing` | 64-bit words; widths 0-57, 58, 60, 64; 0 and 9 values | columns come back; the decoder reads only what was written |
| `egg_file` | up to 4 records of 3 types, good and bad ones, bare or quoted, with or without names in the text and a last newline; every single column of up to 4 cells of each type; words of 5 bits | the file holds the source, statistics bound their groups, groups are full, batches are in step; every encoding and every choice between them comes back; an export is a CSV of the table |
| `table_scan` | 2 columns, 3 values, up to 3 groups, up to 2 operators | exactly the matching rows; the scan ends |
| `aggregation` | up to 3 rows in 3 batches, 6 operations | grouping and aggregates |
| `query_plans` | the 42 plans by their shapes, 3 columns, every table of up to 3 of 5 row groups, K = 2 | the answer is that of the whole table; only tables without a matching row are refused; every query ends; literals, columns and indexes fit the scheme |
| `server_process` | 2 workers, 2 requests with each status; start, signals, network errors, exceptions, stop | gauge, counters, histogram; exit codes; a signal ends the process |
| `empty_source`, `wide_columns`, `hash_collision`, `date_race` | | violations: see [Findings](#findings) |

**Why the bounds are enough.**
Two loads and three threads give a load that is running, one that waits for the
mutex, and a query over both; a crash resets everything but the files, so a
third load behaves like the second. Nine values are more than the eight
after which the bits left over by any width repeat. A word of 5 bits has all the
cases of the wrap-around; with four cells a column has a first, a repeated and a new value
on either side of the border between dictionary and prefixes (`DictionaryRows`,
`SampleSize`, scaled down in the .cfg). Three groups are a skipped one between two
that are read. Two operators are one that replaces the batch filter of another. The five
row groups of `query_plans` have keys that recur within a group and in the next, ties in one and in both
columns of the sort, a group that each comparison skips and one that it must not skip; three of them hold up to seven
rows, of which a limit of two keeps two, and `OFFSET` and `LIMIT` of one cut at both sides. Where a bound is more doubtful than that,
the theorem below is for every size.

`CHECK_DEADLOCK FALSE` stands where the system ends: a column that was unpacked,
a file that was read to its end, a scan or aggregation that has answered, a plan that has answered or refused,
a process that has exited.

**Fairness.** `BenchmarkService!FairSpec` has weak fairness of each thread's next step: the
operating system runs every thread, and no step of a load or a query waits but for
`load_mutex_`. Nothing is assumed about which waiting load gets it (`std::mutex`
promises no order), and nothing about arriving requests or crashes. `ServerProcess` has the
same for `main`, the signal thread and the workers; clients, signals and network errors
act or not. `TableScan!FairSpec` has it for the steps of the one thread that scans,
`QueryPlans!PlansSpec` for those of the one thread that runs the plan.

**Assumptions between the modules.** `TableScan` assumes statistics that bound their group;
`EggFile!StatsBoundTheirGroup` checks that the writer makes such statistics. It assumes
literals within the type of their column, because `Compare` casts the literal and `CanSkipBatch` does not; for a literal outside the
type the theorem would be wrong. `QueryPlans!PlansFitTheScheme` checks that for every literal of every plan. `Aggregation` and
`Sorting` assume rows in batches of any size, empty ones included; `QueryPlans` has the real ones. `BenchmarkService` has a conversion that succeeds or fails;
`EggFile` says with what.

## The proofs

Each is a module of its own beside the component's. Constants are arbitrary within
the ASSUMEs of the modules; no bound of a .cfg is used.

- **`BenchmarkServiceProofs`**: for any number of threads, sources, loads and crashes, the
  types; readers see finished files; reports are exact; answers are current; failed
  loads clean up; the dataset stays; statuses tell what happened; failed loads change nothing and the service implements `DatasetStore`
  (the last two unless `file_size` fails behind the rename, `StatFault = FALSE`).
  None of these is inductive. `IInv` adds: who is in a step of a load holds the mutex
  (`MutexInv`); requests and results fit where a thread is (`RequestInv`, `ResultInv`);
  files are numbered below the counter and each belongs to one load
  (`IssueInv`, `DistinctInv`, `ReservedInv`); a temporary file is that of a running load
  or was left by a crash (`TempsInv`); a query has seen as active what was active since it asked
  (`VisibleInv`). The proof has one step per action. For the statuses
  `OutcomeInv` adds what a result says of the request, the source and the file it is about. Refinement then follows step by step: only `Rename` and the
  query's last open change the store.
- **`BitPackingProofs`**: for every word and byte size, every width with `NoOverflow`
  (value and left-over bits fit into a word), every column: it comes back and the decoder reads only
  bytes that were written. The argument is an invariant that names each bit of the stream:
  what was put out, what is in the buffer and what is to come, joined, is the column.
- **`TableScanProofs`**: each comparison is sound (what it skips has no matching row), `NOT`, `AND`, `OR` keep that,
  and with sound filters the scan delivers exactly the matching rows, whichever
  operator's filter the scan has in the end.
- **`AggregationProofs`**: with `Hash` opaque, as long as no two keys of the input share a hash, every row is in
  the group of its key and no other. `GroupInv` says that the map and the names of the groups are
  inverse to each other, that members have their group's key, and that no two groups have one. On it rests the
  exactness of the answer, `GroupsAreExact` and `TotalsAreExact` for any batches and any list of the six operations.
  `ExactInv` is inductive: `AccInv` says that each accumulator is what its operation makes of the rows of its group
  that have been taken (a count, a sum that wraps, a least or greatest value, a set of values, a pair for the average);
  `OrderInv` that an older group has an earlier row, so that the results are in the order in which the keys were met;
  `WholeInv` that without GROUP BY the only group has all the rows read; `ResultInv` that the answer has one row per group, with the results.
- **`QueryPlansProofs`** begins with the sort alone (`AnswersAreBest`): the queue's order is a strict weak order, and `ResultIsBest` for every
  input, by: as many rows are kept as can be (`AmountInv`), no row dropped comes before one kept (`BestInv`), and the answer
  is what was kept, in order (`AnswerInv`). Then, for every table and every way to cut it into row groups, every query, sort and limit, a whole
  plan: a query that is answered prints what it asks for (`AnswersAreExact`), and only a query that no row answers is refused
  (`RefusalsAreRight`). The operators are not proved again: the module instantiates `TableScanProofs` and
  `AggregationProofs` (twice, with and without an average) under the variables of a plan, and its inductive invariant `PlansInv` has their invariants
  as parts, `ScanInv`, `AggInv` and `SortInv`. Steps of one operator leave those of the others alone.
  What joins them is `PipeInv`: the rows that the lowest operator above the filters has pulled, or that were printed, are, in their order, those
  which WHERE accepts in the row groups that have left the filters (`Chosen(Done)`); a skipped group has none
  (`SkippedHasNoRow`, from the soundness of the filters), a batch has all of its group (`BatchHasTheRows`); and a sort behind an
  aggregation has pulled nothing before that is done, and then one row per group that HAVING accepts (`IsWhole`). `PlanShape` says
  which operators a query combines (`QueriesFit`, by the 42 plans one by one), `StatusInv` that an answer given stays right. At the end the scan is behind the last group, so that what was pulled is
  what the query selects; the aggregates of these rows are one row per key (`IsAnswer`, from `GroupsAreExact`, `TotalsAreExact` and
  the accumulators), and the slice of a sorted listing has each row at a place that the order allows (`SlicesAreExact`).
  The places are counted: a row comes behind all that belong before it and has room for all that belong behind it.
- **`EggFileProofs`** is about the whole way of a table through a file, for all sources, sizes of row groups and types of
  columns. It begins with what is written and read back, each a theorem about operators:
  `CodecRoundTrip` (the encoding of a column, whichever is chosen, is undone by its decoding: offsets
  that fit into words, differences with zigzag, a dictionary that holds every text, prefixes shared with the text before),
  `NextUnread` (the CSV reader returns the records of a text one by one, and nothing only behind the last one),
  `StatsRoundTrip` and `MetadataRoundTrip` (what `WriteAll` puts behind the data is what `Metadata::Read` finds from the end backwards).
  The inductive invariant is `IInv`, the conjunction of `Basic` (types and the lengths that belong together), `Reader` (from
  `WriteMetadata` on, the file ends with its metadata, and an open reader has them as they were) and, for some function `cut` from
  the number of a group to its last row, `Groups(cut)` (group b is in the file where its start says, its encoded columns, sizes and
  statistics are those of the rows `cut[b - 1] + 1 .. cut[b]`, and each group but the last is full) and `Writing` (the group under way
  has the rows behind the last cut, and the CSV reader stands behind them; at the end no row is left). The cuts are
  a witness, no variable: the code does not keep them, and the reader recovers them from the counts of rows
  (`RowsUpTo`). From `ReadTable`, that an open file is such a table, follow `TableIsWhole`, `StatsBoundTheirGroup`,
  `GroupsAreFull` and, for each step, `BatchFollowsThosePassed`. A group without rows (`EmptyGroup`) is part of all this:
  its statistics bound nothing, vacuously.
  For `ExportIsReadable` the text that `ReadToCSV` writes is shown to be its lines one behind the other, across the groups
  (`ExportIs`), and the CSV reader is followed through a line character by character (`ScanText`, `ScanComma`, `NextLine`), then from line to line
  (`ListingRead`). Only the last line may lack its newline, and only if the last group has rows (`EndingIs`). Two lines mean nothing to the
  reader, and the property excludes them: one empty cell at the end, and the rows of a table without columns.
- **`ServerProcessProofs`**: for any number of workers and requests, the types; the gauge, the counters and
  the histograms are exact. Each of the three compares a number with the cardinality of a set of
  workers at certain stages, or with the answers given so far, and is inductive beside the types (`KeptInv`): a step changes
  such a set by one worker or not at all (`OneMore`, `OneLess`, from the theorems on finite sets). For the process: only
  real signals are reported and a clean exit was ordered, by what `main` and the signal thread may conclude
  from each other's flags (`SignalInv`: whatever wakes the thread is a signal or follows the flag of `main`;
  `StopInv`: it stops the server only behind a reported signal or a failed wait, and nobody else does).

**What the proofs assume.** `EggFileAssumption`: a source is a text with its records (`Records(text)` is them, behind the names where
these are in the text), dates are in the range of their type, and there are no more rows than words. `CodecAssumption`:
the values of a type are no further apart than a word can tell, those of a date half as far (dates are 32-bit numbers of days or seconds in 64-bit words). `EggFile` itself
keeps to the widths that `BitPacking` shows to be lossless (`Packable`), and so do its theorems. `QueryPlansAssumption`: `Everything`, which stands for the missing
LIMIT, is no less than the rows of any table and than `K`; the key of a group is one of the columns, so that the hash of two keys differs.
`ScanAssumption` is what `TableScan` asks of tables (statistics that bound their group) and conditions.
TLC evaluates every ASSUME in the runs.

`AnswersAreExact`, `RefusalsAreRight` and `PlansSortBest` have, like `PushdownIsExact`, the hypothesis that each condition is sound (`AllSound`). That is no assumption about
the code but what `CompareIsSound` and `CombinationsAreSound` prove of the filters that it builds, for literals within the type of their column, and
`PlansFit` has these literals; the conditions of the run are built of such filters.

Left to TLC: all liveness, with ENABLED. Every safety invariant and action property of the passing runs is a theorem.

## Findings

- **`empty_source`**: a CSV without rows makes `WriteGroup` take the least of no
  cells; the process dies during the load and the temporary file stays (`file_writer.cpp:220`).
- **`wide_columns`**: offsets of 59, 61, 62 or 63 bits are decoded to other values (`column_types.cpp:104`).
- **`hash_collision`**: short UTF-8 strings with equal polynomials are one group (`operators.cpp:553`).
- **`date_race`**: `FormatDate` on two threads: one date is shown, or stored as a statistic, as another or as a mixture (`utilities.cpp:60`).

Two more disagreements are part of what the passing runs say:

- `file_size` behind the rename may fail; the client reads that the source could
  not be loaded, and it is loaded (`clickbench_dataset.cpp:261`). `FailedLoadChangesNothing`
  holds only without that fault (`StatFault = FALSE`), which is a hypothesis of its theorem.
- If listening ends by an exception after the signal thread has left `sigwait`, that
  thread waits for a server that will not run, and `main` waits for the thread
  (`main.cpp:115`): `Stranded`, the one exception in `SignalStopsService` and `FailureEndsProcess`.

## What is not modelled

- Text: the printing of rows and its splitting in `ParseOutputRows`, the JSON of an answer, progress logs. A text with a
  newline becomes two rows there and an empty one vanishes; rows have numbers here.
- What a cell function computes: `LIKE` and regular expressions (a filter that never skips), the host of a URL and the minute of
  a time (a key like any other), doubles and NaN, calendars and time zones. Query 40 answers
  the constant `not_implemented` and has no plan.
- CSV that no document gives a meaning: `CsvText` drops a return before a newline within quotes and reads an unclosed quote
  to the end, as the code does, and the runs have no such sources.
- A loss of power: nothing is synchronised before the rename, and the model's disk keeps what was written.
- The buckets of the histogram; the environment variables.
- Tests, build, containers, provisioning and dashboards have no state of the program.

## The plan

Modelled first was what holds the rest: the service, then the file it swaps, then the query over the file, then the
process around both; after that the composition of the query (`QueryPlans`), the text of the source (`CsvText`), and the
statuses. What is left, in order:

1. *Dates*: time zones in `ParseDate` and `FormatDate`; a loader and a query that race on the
   statistics of a group, composed with `TableScan`: wrong statistics make a scan skip rows for good.
2. *Answers as text*: `PrintBatch` and `ParseOutputRows` as inverse of each other but for newlines and empty lines.
3. *Proofs*: the tables of `TableScan` and `QueryPlans` as what `EggFile` writes, so that `StatsBoundTheirGroup` takes the
   place of an assumption.

-------------------------- MODULE BenchmarkService --------------------------
(***************************************************************************)
(* The dataset life cycle of the benchmark service: LoadDataset, RunQuery  *)
(* and GetStatus as the HTTP worker threads execute them, step by step,    *)
(* over one data directory.                                                *)
(*                                                                         *)
(* A load holds load_mutex_ from its first statement to its last, converts *)
(* the source CSV into a temporary file, validates that file, renames it   *)
(* over active.egg and reports the size of active.egg.  A query takes no   *)
(* lock: it looks for active.egg twice, opens it once for the scheme and   *)
(* once more for the scan, and reads from the file it has open.  The       *)
(* process may die between any two steps and is started again.             *)
(*                                                                         *)
(* Files are numbered by the load that created them, so a file stands for  *)
(* an inode: a query that has active.egg open keeps its file when a rename *)
(* gives that name to another one.                                         *)
(***************************************************************************)
EXTENDS Naturals, FiniteSets

CONSTANTS
  Worker,       \* HTTP worker threads, each serving one request at a time
  NoWorker,     \* load_mutex_ is not held
  Source,       \* the "source" values that clients send
  Fate,         \* what is behind each source: see Fates
  MaxLoads,     \* bound: requests to load a source that leads to a file
  Crashes,      \* may the process be killed at any time?
  StatFault     \* may file_size(active.egg) fail after the rename?

(***************************************************************************)
(* "escapes"    : ResolveSourcePath, or the comparison with active.egg,    *)
(*                throws invalid_argument                                  *)
(* "missing"    : the path does not lead to a regular file                 *)
(* "malformed"  : a cell cannot be converted to its column's type          *)
(* "undefined"  : the CSV has no row, or a row with too few cells: the     *)
(*                conversion reads out of bounds                           *)
(* "convertible": every row has a value of the right type for each column  *)
(***************************************************************************)
Fates == {"escapes", "missing", "malformed", "undefined", "convertible"}

\* Those for which no temporary file is ever created.
Rejected == {"escapes", "missing"}

ASSUME ServiceAssumption ==
  /\ NoWorker \notin Worker
  /\ Fate \in [Source -> Fates]
  /\ MaxLoads \in Nat
  /\ Crashes \in BOOLEAN
  /\ StatFault \in BOOLEAN

File == 1 .. MaxLoads
NoFile == 0

\* The exception classes that the HTTP handlers tell apart.
Errors == {"invalid_argument", "runtime_error", "out_of_range"}

NoResult == [kind |-> "none"]
Loaded(f) == [kind |-> "loaded", file |-> f]
Rows(f) == [kind |-> "rows", file |-> f]
NotLoaded == [kind |-> "not_loaded"]
Failed(e) == [kind |-> "error", error |-> e]
Health(b) == [kind |-> "health", loaded |-> b]

Results ==
       [kind : {"loaded"}, file : File]
  \cup [kind : {"rows"}, file : File]
  \cup [kind : {"health"}, loaded : BOOLEAN]
  \cup [kind : {"not_loaded"}]
  \cup [kind : {"error"}, error : Errors]

\* A query request names an implemented query or an id outside 1..43.
QueryIds == {"known_id", "unknown_id"}

Requests == [op : {"load"}, source : Source]
       \cup [op : {"query"}, id : QueryIds]
       \cup [op : {"health"}]

NoRequest == [op |-> "none"]

VARIABLES
  \* The data directory, which outlives the process.
  active,       \* the file that active.egg names, or NoFile
  temps,        \* the files that still have a temporary name
  image,        \* of each file: "none", "partial" or "complete"
  \* The process.
  mutex,        \* the worker that holds load_mutex_, or NoWorker
  pc,           \* of each worker: the step it will take next
  request,      \* of each worker: the request it serves
  load,         \* of each worker: the file its load creates, or NoFile
  scheme,       \* of each worker: the file its query read the scheme from
  handle,       \* of each worker: the file its query has open for the scan
  result,       \* of each worker: what the service call returns or throws
  \* History, read by properties and by no guard but that of the bound.
  issued,       \* files that loads may have created so far
  visible,      \* of each worker: what active was since its request arrived
  orphans       \* the temporary files that were there when the process died

directory == <<active, temps, image>>
locals == <<request, load, scheme, handle>>
history == <<issued, visible, orphans>>
vars == <<directory, mutex, pc, locals, result, history>>

LoadSteps == {"resolve", "open", "convert", "validate", "rename", "report",
              "cleanup", "unlock"}
QuerySteps == {"check", "dispatch", "scheme", "scan", "execute"}
Steps == {"idle", "lock", "status", "done"} \cup LoadSteps \cup QuerySteps

Goto(w, from, to) ==
  /\ pc[w] = from
  /\ pc' = [pc EXCEPT ![w] = to]

SetResult(w, r) == result' = [result EXCEPT ![w] = r]

-----------------------------------------------------------------------------
\* A request arrives at an idle worker.
Accept(w, r) ==
  /\ request' = [request EXCEPT ![w] = r]
  /\ visible' = [visible EXCEPT ![w] = {active}]
  /\ UNCHANGED <<directory, mutex, scheme, handle, result, orphans>>

\* A load that will get past RejectSource is given the next file.
RequestLoad(w) ==
  /\ Goto(w, "idle", "lock")
  /\ \E s \in Source :
       /\ Accept(w, [op |-> "load", source |-> s])
       /\ \/ /\ Fate[s] \in Rejected
             /\ UNCHANGED <<issued, load>>
          \/ /\ Fate[s] \notin Rejected
             /\ issued < MaxLoads
             /\ issued' = issued + 1
             /\ load' = [load EXCEPT ![w] = issued']

RequestQuery(w) ==
  /\ Goto(w, "idle", "check")
  /\ \E q \in QueryIds : Accept(w, [op |-> "query", id |-> q])
  /\ UNCHANGED <<issued, load>>

RequestHealth(w) ==
  /\ Goto(w, "idle", "status")
  /\ Accept(w, [op |-> "health"])
  /\ UNCHANGED <<issued, load>>

\* The response is sent and the worker is free again.
Respond(w) ==
  /\ Goto(w, "done", "idle")
  /\ request' = [request EXCEPT ![w] = NoRequest]
  /\ load' = [load EXCEPT ![w] = NoFile]
  /\ scheme' = [scheme EXCEPT ![w] = NoFile]
  /\ handle' = [handle EXCEPT ![w] = NoFile]
  /\ visible' = [visible EXCEPT ![w] = {}]
  /\ SetResult(w, NoResult)
  /\ UNCHANGED <<directory, mutex, issued, orphans>>

-----------------------------------------------------------------------------
\* LoadDataset and LoadClickBenchDataset.

\* WRONG: the load does not wait for load_mutex_.
AcquireMutexAnyway(w) ==
  /\ Goto(w, "lock", "resolve")
  /\ mutex' = w
  /\ UNCHANGED <<directory, locals, result, history>>

AcquireMutex(w) ==
  /\ mutex = NoWorker
  /\ Goto(w, "lock", "resolve")
  /\ mutex' = w
  /\ UNCHANGED <<directory, locals, result, history>>

SourceFate(w) == Fate[request[w].source]

\* WRONG: an exception returns without unlocking, as with lock() and unlock()
\* in place of the lock_guard.
RejectSourceLocked(w) ==
  /\ Goto(w, "resolve", "done")
  /\ \E e \in {"invalid_argument", "runtime_error"} :
       /\ SourceFate(w) \in Rejected
       /\ SetResult(w, Failed(e))
  /\ UNCHANGED <<directory, mutex, locals, history>>

\* ResolveSourcePath, the comparison with active.egg and is_regular_file:
\* no temporary file exists yet when they throw.
RejectSource(w) ==
  /\ Goto(w, "resolve", "unlock")
  /\ \/ /\ SourceFate(w) = "escapes"
        /\ SetResult(w, Failed("invalid_argument"))
     \/ /\ SourceFate(w) = "missing"
        /\ SetResult(w, Failed("runtime_error"))
  /\ UNCHANGED <<directory, mutex, locals, history>>

AcceptSource(w) ==
  /\ Goto(w, "resolve", "open")
  /\ SourceFate(w) \notin Rejected
  /\ UNCHANGED <<directory, mutex, locals, result, history>>

\* WRONG: no TemporaryDatasetGuard.
ThrowUnguarded(w, e) ==
  /\ pc' = [pc EXCEPT ![w] = "unlock"]
  /\ SetResult(w, Failed(e))

\* An exception leaves LoadClickBenchDataset after its guard was constructed.
Throw(w, e) ==
  /\ pc' = [pc EXCEPT ![w] = "cleanup"]
  /\ SetResult(w, Failed(e))

\* WRONG: the conversion writes active.egg in place.
OpenInPlace(w) ==
  /\ Goto(w, "open", "convert")
  /\ active' = load[w]
  /\ image' = [image EXCEPT ![load[w]] = "partial"]
  /\ UNCHANGED <<temps, mutex, locals, result, history>>

OpenTemporary(w) ==
  /\ Goto(w, "open", "convert")
  /\ temps' = temps \cup {load[w]}
  /\ image' = [image EXCEPT ![load[w]] = "partial"]
  /\ UNCHANGED <<active, mutex, locals, result, history>>

\* The output file cannot be opened.
OpenFails(w) ==
  /\ pc[w] = "open"
  /\ Throw(w, "runtime_error")
  /\ UNCHANGED <<directory, mutex, locals, history>>

\* WriteAll and the close that follows it.
Convert(w) ==
  /\ Goto(w, "convert", "validate")
  /\ SourceFate(w) \in {"convertible", "undefined"}
  /\ image' = [image EXCEPT ![load[w]] = "complete"]
  /\ UNCHANGED <<active, temps, mutex, locals, result, history>>

\* stoi, stoll and stod throw invalid_argument or out_of_range (a date that
\* cannot be parsed is stored as 0); a full disk is a runtime_error at the
\* close.
ConvertThrows(w) ==
  /\ pc[w] = "convert"
  /\ \E e \in Errors :
       /\ e = "runtime_error" \/ SourceFate(w) = "malformed"
       /\ Throw(w, e)
  /\ UNCHANGED <<directory, mutex, locals, history>>

\* ValidateClickBenchDataset accepts a file whose footer can be read.
Validate(w) ==
  /\ Goto(w, "validate", "rename")
  /\ image[load[w]] = "complete"
  /\ UNCHANGED <<directory, mutex, locals, result, history>>

ValidateThrows(w) ==
  /\ pc[w] = "validate"
  /\ Throw(w, "runtime_error")
  /\ UNCHANGED <<directory, mutex, locals, history>>

\* rename(2) replaces active.egg in one step; then the guard is released.
Rename(w) ==
  /\ Goto(w, "rename", "report")
  /\ active' = load[w]
  /\ temps' = temps \ {load[w]}
  /\ visible' = [v \in Worker |-> IF pc[v] = "idle" THEN visible[v]
                                  ELSE visible[v] \cup {load[w]}]
  /\ UNCHANGED <<image, mutex, locals, result, issued, orphans>>

\* WRONG: active.egg is removed to make room before the rename that fails.
RemoveThenRenameFails(w) ==
  /\ pc[w] = "rename"
  /\ Throw(w, "runtime_error")
  /\ active' = NoFile
  /\ UNCHANGED <<temps, image, mutex, locals, history>>

RenameFails(w) ==
  /\ pc[w] = "rename"
  /\ Throw(w, "runtime_error")
  /\ UNCHANGED <<directory, mutex, locals, history>>

\* The result names what active.egg is when its size is read.
Report(w) ==
  /\ Goto(w, "report", "unlock")
  /\ SetResult(w, Loaded(active))
  /\ UNCHANGED <<directory, mutex, locals, history>>

\* file_size throws: the guard is already released.
ReportThrows(w) ==
  /\ StatFault
  /\ Goto(w, "report", "unlock")
  /\ SetResult(w, Failed("runtime_error"))
  /\ UNCHANGED <<directory, mutex, locals, history>>

\* ~TemporaryDatasetGuard, which ignores a file that is not there.
CleanUp(w) ==
  /\ Goto(w, "cleanup", "unlock")
  /\ temps' = temps \ {load[w]}
  /\ UNCHANGED <<active, image, mutex, locals, result, history>>

\* ~lock_guard
ReleaseMutex(w) ==
  /\ Goto(w, "unlock", "done")
  /\ mutex' = NoWorker
  /\ UNCHANGED <<directory, locals, result, history>>

-----------------------------------------------------------------------------
\* RunQuery and RunClickBenchQuery.

\* The call ends with r.
Finish(w, from, r) ==
  /\ Goto(w, from, "done")
  /\ SetResult(w, r)
  /\ UNCHANGED <<directory, mutex, locals, history>>

\* WRONG: reports "not loaded" while a load is in progress.
CheckFailsDuringLoad(w) ==
  /\ active = NoFile \/ mutex # NoWorker
  /\ Finish(w, "check", NotLoaded)

CheckFails(w) ==
  /\ active = NoFile
  /\ Finish(w, "check", NotLoaded)

\* WRONG: queries start only while no load runs.
CheckPassesUnlocked(w) ==
  /\ active # NoFile
  /\ mutex = NoWorker
  /\ Goto(w, "check", "dispatch")
  /\ UNCHANGED <<directory, mutex, locals, result, history>>

CheckPasses(w) ==
  /\ active # NoFile
  /\ Goto(w, "check", "dispatch")
  /\ UNCHANGED <<directory, mutex, locals, result, history>>

RejectQueryId(w) ==
  /\ Finish(w, "dispatch", Failed("invalid_argument"))
  /\ request[w].id = "unknown_id"

\* The second look at active.egg, in RunClickBenchQuery: the service never
\* takes that name away, so its runtime_error needs another program.
Dispatch(w) ==
  /\ Goto(w, "dispatch", "scheme")
  /\ request[w].id = "known_id"
  /\ active # NoFile
  /\ UNCHANGED <<directory, mutex, locals, result, history>>

ReadScheme(w) ==
  /\ Goto(w, "scheme", "scan")
  /\ scheme' = [scheme EXCEPT ![w] = active]
  /\ UNCHANGED <<directory, mutex, request, load, handle, result, history>>

\* ReadScheme or ScanOperator cannot open the file.
OpenFailsInQuery(w) ==
  /\ pc[w] \in {"scheme", "scan"}
  /\ Finish(w, pc[w], Failed("runtime_error"))

\* ScanOperator opens active.egg again.
OpenScan(w) ==
  /\ Goto(w, "scan", "execute")
  /\ handle' = [handle EXCEPT ![w] = active]
  /\ UNCHANGED <<directory, mutex, request, load, scheme, result, history>>

\* WRONG: the rows are those of the file the scheme came from.
ExecuteOnSchemeFile(w) == Finish(w, "execute", Rows(scheme[w]))

\* Rows(f) stands for whatever the plan gives on f, an exception included.
Execute(w) == Finish(w, "execute", Rows(handle[w]))

\* WRONG: the status carries the file in place of whether there is one.
GetStatusFile(w) == Finish(w, "status", Rows(active))

GetStatus(w) == Finish(w, "status", Health(active # NoFile))

-----------------------------------------------------------------------------
\* WRONG: the handler does not catch invalid_argument by itself.
StatusOfUncaught(e) == IF e = "runtime_error" THEN 422 ELSE 500

\* The class of an exception decides the status of a load.
StatusOfError(e) ==
  CASE e = "invalid_argument" -> 400
    [] e = "runtime_error" -> 422
    [] OTHER -> 500

\* What the handlers answer to a service call that returned or threw r.
StatusOf(op, r) ==
  CASE r.kind \in {"loaded", "rows", "health"} -> 200
    [] r.kind = "not_loaded" -> 409
    [] r.kind = "error" /\ op = "load" -> StatusOfError(r.error)
    [] r.kind = "error" /\ op = "query" ->
         IF r.error = "invalid_argument" THEN 404 ELSE 500

-----------------------------------------------------------------------------
\* The process dies and a new one starts on the same directory.  Nothing
\* removes the temporary files of the old one or validates active.egg again.
Restart ==
  /\ mutex' = NoWorker
  /\ pc' = [w \in Worker |-> "idle"]
  /\ request' = [w \in Worker |-> NoRequest]
  /\ load' = [w \in Worker |-> NoFile]
  /\ scheme' = [w \in Worker |-> NoFile]
  /\ handle' = [w \in Worker |-> NoFile]
  /\ result' = [w \in Worker |-> NoResult]
  /\ visible' = [w \in Worker |-> {}]
  /\ orphans' = temps
  /\ UNCHANGED <<directory, issued>>

Kill ==
  /\ Crashes
  /\ Restart

\* min_element of an empty column is dereferenced, or a row is indexed past
\* its end: one outcome is a fatal signal.
ConvertCrashes(w) ==
  /\ pc[w] = "convert"
  /\ SourceFate(w) = "undefined"
  /\ Restart

-----------------------------------------------------------------------------
Init ==
  /\ active = NoFile
  /\ temps = {}
  /\ image = [f \in File |-> "none"]
  /\ mutex = NoWorker
  /\ pc = [w \in Worker |-> "idle"]
  /\ request = [w \in Worker |-> NoRequest]
  /\ load = [w \in Worker |-> NoFile]
  /\ scheme = [w \in Worker |-> NoFile]
  /\ handle = [w \in Worker |-> NoFile]
  /\ result = [w \in Worker |-> NoResult]
  /\ issued = 0
  /\ visible = [w \in Worker |-> {}]
  /\ orphans = {}

Arrive(w) == RequestLoad(w) \/ RequestQuery(w) \/ RequestHealth(w)

LoadStep(w) ==
  \/ AcquireMutex(w)
  \/ RejectSource(w)
  \/ AcceptSource(w)
  \/ OpenTemporary(w)
  \/ OpenFails(w)
  \/ Convert(w)
  \/ ConvertThrows(w)
  \/ ConvertCrashes(w)
  \/ Validate(w)
  \/ ValidateThrows(w)
  \/ Rename(w)
  \/ RenameFails(w)
  \/ Report(w)
  \/ ReportThrows(w)
  \/ CleanUp(w)
  \/ ReleaseMutex(w)

QueryStep(w) ==
  \/ CheckFails(w)
  \/ CheckPasses(w)
  \/ RejectQueryId(w)
  \/ Dispatch(w)
  \/ ReadScheme(w)
  \/ OpenFailsInQuery(w)
  \/ OpenScan(w)
  \/ Execute(w)

WorkerStep(w) == LoadStep(w) \/ QueryStep(w) \/ GetStatus(w) \/ Respond(w)

Next == Kill \/ \E w \in Worker : Arrive(w) \/ WorkerStep(w)

Spec == Init /\ [][Next]_vars

\* The operating system runs every thread that can run.  Nothing is assumed
\* about which of several waiting threads a std::mutex goes to, nor that
\* requests arrive or that the process is killed.
Fairness == \A w \in Worker : WF_vars(WorkerStep(w))

FairSpec == Spec /\ Fairness

-----------------------------------------------------------------------------
TypeOK ==
  /\ active \in File \cup {NoFile}
  /\ temps \in SUBSET File
  /\ image \in [File -> {"none", "partial", "complete"}]
  /\ mutex \in Worker \cup {NoWorker}
  /\ pc \in [Worker -> Steps]
  /\ request \in [Worker -> Requests \cup {NoRequest}]
  /\ load \in [Worker -> File \cup {NoFile}]
  /\ scheme \in [Worker -> File \cup {NoFile}]
  /\ handle \in [Worker -> File \cup {NoFile}]
  /\ result \in [Worker -> Results \cup {NoResult}]
  /\ issued \in 0 .. MaxLoads
  /\ visible \in [Worker -> SUBSET (File \cup {NoFile})]
  /\ orphans \in SUBSET File

\* Queries only ever read finished datasets: active.egg, and every file that
\* a query has open, is one that a load converted to the end, although loads
\* write files of the same directory meanwhile and may die half-way
\* (clickbench_dataset.cpp: validation before rename; RunQuery takes no lock).
ReadersSeeFinishedFiles ==
  \A f \in {active} \cup {scheme[w] : w \in Worker}
                    \cup {handle[w] : w \in Worker} :
    f # NoFile => image[f] = "complete" /\ f \notin temps

\* A load answers with its own dataset: the size in the reply is that of the
\* file this load activated, not of one that another load put in its place
\* between the rename and the file_size call (load_mutex_ spans both).
LoadReportsItsOwnFile ==
  \A w \in Worker : result[w].kind = "loaded" => result[w].file = load[w]

\* Whichever step of a load fails, its temporary file is gone by the time the
\* mutex is free: the only temporary files left then are those of processes
\* that died (TemporaryDatasetGuard).
FailedLoadsCleanUp == mutex = NoWorker => temps = orphans

\* The answer of a query is computed from a dataset that was active at some
\* moment between the arrival of the request and its answer, and "not loaded"
\* is said only if there was no dataset at such a moment.
AnswersAreCurrent ==
  \A w \in Worker :
    /\ result[w].kind = "rows" => result[w].file \in visible[w]
    /\ result[w].kind = "not_loaded" => NoFile \in visible[w]

\* The server tells the client "Dataset source could not be loaded." only if
\* the load did not change the dataset that queries read.
FailedLoadChangesNothing ==
  \A w \in Worker :
    request[w].op = "load" /\ result[w].kind = "error" /\ load[w] # NoFile
      => load[w] # active

\* What a client may conclude from a status, although exceptions are told apart
\* by their class alone: 200 says that the load has activated its dataset, 400
\* and 500 that the source is to blame, a source outside of the directory is
\* always answered 400 and a missing one 422; 409 says that there was no dataset
\* and is said, whatever the id, when there was none all the time; 404 says that
\* the id is unknown, and no unknown id is answered 200.
StatusesTellWhatHappened ==
  \A w \in Worker : pc[w] = "done" =>
    LET status == StatusOf(request[w].op, result[w])
    IN /\ request[w].op = "load" =>
            /\ status = 200 => image[load[w]] = "complete" /\ load[w] \notin temps
            /\ status \in {400, 500} => SourceFate(w) \in {"escapes", "malformed"}
            /\ SourceFate(w) = "escapes" => status = 400
            /\ SourceFate(w) = "missing" => status = 422
       /\ request[w].op = "query" =>
            /\ status = 409 => NoFile \in visible[w]
            /\ visible[w] = {NoFile} => status = 409
            /\ status = 404 => request[w].id = "unknown_id"
            /\ request[w].id = "unknown_id" => status \in {404, 409}

\* A failed conversion leaves no temporary file in the data directory.
NoTemporaryLeft == mutex = NoWorker => temps = {}

\* A dataset, once loaded, is replaced by others and never taken away, not
\* even by a crash: a health check that said dataset_loaded stays right.
LoadedForGood == [][active # NoFile => active' # NoFile]_active

\* Whoever holds load_mutex_ gives it back, whatever fails meanwhile.
MutexIsReleased == \A w \in Worker : mutex = w ~> mutex # w

\* A query is answered (or dies with the process) however many loads run:
\* it waits for nobody.
QueriesFinish ==
  \A w \in Worker : pc[w] = "check" ~> pc[w] \in {"done", "idle"}

-----------------------------------------------------------------------------
\* Where each call takes effect: a load at its rename, a query when it opens
\* active.egg for the scan, anything else when its result is known.
Decided(w) ==
  CASE pc[w] = "report" -> Loaded(load[w])
    [] pc[w] = "execute" -> Rows(handle[w])
    [] OTHER -> result[w]

Phase(w) ==
  CASE pc[w] = "idle" -> "idle"
    [] pc[w] # "idle" /\ Decided(w) = NoResult -> "called"
    [] OTHER -> "answered"

Store == INSTANCE DatasetStore WITH
  Client <- Worker,
  Dataset <- File,
  NoDataset <- NoFile,
  Error <- Errors,
  current <- active,
  phase <- [w \in Worker |-> Phase(w)],
  answer <- [w \in Worker |-> Decided(w)]

\* Every step of the service is a step of the abstract store or changes
\* nothing there.
ImplementsStore == Store!Spec

=============================================================================

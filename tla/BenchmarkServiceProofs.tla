----------------------- MODULE BenchmarkServiceProofs -----------------------
(***************************************************************************)
(* Proofs about BenchmarkService, for any number of worker threads, any    *)
(* sources and any bound on the loads.                                     *)
(***************************************************************************)
EXTENDS BenchmarkService, TLAPS

\* The file that a load has been given but has not renamed to active.egg.
BeforeRename == {"lock", "resolve", "open", "convert", "validate", "rename",
                 "cleanup"}

\* The steps at which the temporary file of a load exists or may exist.
HasTemporary == {"convert", "validate", "rename", "cleanup"}

\* The mutex excludes: it is held by the one worker inside LoadDataset.
MutexInv == \A w \in Worker : pc[w] \in LoadSteps <=> mutex = w

\* A worker at a step of LoadDataset serves a load request, one at a step of
\* RunQuery a query, and an idle worker has nothing.
RequestInv ==
  \A w \in Worker :
    /\ pc[w] \in LoadSteps \cup {"lock"} =>
         /\ request[w] \in [op : {"load"}, source : Source]
         /\ load[w] = NoFile <=> Fate[request[w].source] \in Rejected
    /\ pc[w] \in QuerySteps =>
         /\ request[w] \in [op : {"query"}, id : QueryIds]
         /\ load[w] = NoFile
    /\ pc[w] \in {"open", "report"} \cup HasTemporary => load[w] # NoFile
    /\ pc[w] = "idle" => load[w] = NoFile

\* Results appear at the end of a call only.
ResultInv ==
  \A w \in Worker :
    /\ result[w] # NoResult => pc[w] \in {"cleanup", "unlock", "done"}
    /\ pc[w] = "done" => result[w] # NoResult
    /\ pc[w] \in {"cleanup", "unlock"} => result[w] # NoResult

\* Files that were never given to a load are in no use.
IssueInv ==
  /\ active <= issued
  /\ \A f \in temps : f <= issued
  /\ \A w \in Worker :
       load[w] <= issued /\ scheme[w] <= issued /\ handle[w] <= issued

\* No two loads in progress have the same file.
DistinctInv ==
  \A v, w \in Worker : v # w /\ load[v] # NoFile => load[v] # load[w]

\* Nobody reads the file of a load that has not renamed it, and a load that
\* is about to rename its file has finished it.
ReservedInv ==
  \A w \in Worker :
    /\ pc[w] \in BeforeRename /\ load[w] # NoFile =>
         /\ load[w] # active
         /\ \A v \in Worker : load[w] # scheme[v] /\ load[w] # handle[v]
    /\ pc[w] = "rename" => image[load[w]] = "complete"
    /\ pc[w] = "report" => active = load[w]

\* Temporary files belong to the load that holds the mutex or to a process
\* that died.
TempsInv ==
  /\ orphans \subseteq temps
  /\ \A w \in Worker : load[w] \notin orphans
  /\ \A f \in temps \ orphans :
       \E w \in Worker : load[w] = f /\ pc[w] \in HasTemporary

\* What a query has open was active since its request arrived.
VisibleInv ==
  \A w \in Worker :
    /\ pc[w] # "idle" => active \in visible[w]
    /\ pc[w] \in {"scheme", "scan", "execute"} => active # NoFile
    /\ pc[w] = "execute" => handle[w] # NoFile /\ handle[w] \in visible[w]

IInv ==
  /\ TypeOK
  /\ MutexInv
  /\ RequestInv
  /\ ResultInv
  /\ IssueInv
  /\ DistinctInv
  /\ ReservedInv
  /\ ReadersSeeFinishedFiles
  /\ TempsInv
  /\ VisibleInv
  /\ LoadReportsItsOwnFile
  /\ AnswersAreCurrent

USE ServiceAssumption
USE DEF Goto, SetResult, Accept, Throw, Finish, directory, locals, history,
        NoFile

\* Only AcquireMutex enters LoadDataset and only ReleaseMutex leaves it alive.
LEMMA MutexStep ==
  ASSUME IInv, NEW w \in Worker, Arrive(w) \/ WorkerStep(w)
  PROVE  MutexInv'
<1>1. CASE Arrive(w)
  BY <1>1, SMTT(30) DEF Arrive, RequestLoad, RequestQuery, RequestHealth,
        IInv, TypeOK, MutexInv, LoadSteps, QuerySteps, Steps
<1>2. CASE LoadStep(w)
  BY <1>2, SMTT(30) DEF LoadStep, AcquireMutex, RejectSource, AcceptSource,
        OpenTemporary, OpenFails, Convert, ConvertThrows, ConvertCrashes,
        Validate, ValidateThrows, Rename, RenameFails, Report, ReportThrows,
        CleanUp, ReleaseMutex, Restart, IInv, TypeOK, MutexInv, LoadSteps,
        QuerySteps, Steps
<1>3. CASE QueryStep(w) \/ GetStatus(w) \/ Respond(w)
  BY <1>3, SMTT(30) DEF QueryStep, CheckFails, CheckPasses, RejectQueryId,
        Dispatch, ReadScheme, OpenFailsInQuery, OpenScan, Execute, GetStatus,
        Respond, IInv, TypeOK, MutexInv, LoadSteps, QuerySteps, Steps
<1> QED BY <1>1, <1>2, <1>3 DEF WorkerStep

\* Every step that sets a result goes to the end of the call.
LEMMA ResultStep ==
  ASSUME IInv, NEW w \in Worker, Arrive(w) \/ WorkerStep(w)
  PROVE  ResultInv'
<1>1. CASE Arrive(w)
  BY <1>1, SMTT(30) DEF Arrive, RequestLoad, RequestQuery, RequestHealth,
        IInv, TypeOK, ResultInv, LoadSteps, QuerySteps, Steps, NoResult,
        Failed, Rows, Loaded, NotLoaded, Health
<1>2. CASE LoadStep(w)
  BY <1>2, SMTT(30) DEF LoadStep, AcquireMutex, RejectSource, AcceptSource,
        OpenTemporary, OpenFails, Convert, ConvertThrows, ConvertCrashes,
        Validate, ValidateThrows, Rename, RenameFails, Report, ReportThrows,
        CleanUp, ReleaseMutex, Restart, IInv, TypeOK, ResultInv, LoadSteps,
        QuerySteps, Steps, NoResult, Failed, Rows, Loaded, NotLoaded, Health
<1>3. CASE QueryStep(w) \/ GetStatus(w) \/ Respond(w)
  BY <1>3, SMTT(30) DEF QueryStep, CheckFails, CheckPasses, RejectQueryId,
        Dispatch, ReadScheme, OpenFailsInQuery, OpenScan, Execute, GetStatus,
        Respond, IInv, TypeOK, ResultInv, LoadSteps, QuerySteps, Steps,
        NoResult, Failed, Rows, Loaded, NotLoaded, Health
<1> QED BY <1>1, <1>2, <1>3 DEF WorkerStep

\* The file given to a load is one that no load has.
LEMMA DistinctStep ==
  ASSUME IInv, NEW w \in Worker, Arrive(w) \/ WorkerStep(w)
  PROVE  DistinctInv'
<1>1. CASE Arrive(w)
  BY <1>1, SMTT(30) DEF Arrive, RequestLoad, RequestQuery, RequestHealth,
        IInv, TypeOK, DistinctInv, IssueInv, File
<1>2. CASE LoadStep(w)
  BY <1>2, SMTT(30) DEF LoadStep, AcquireMutex, RejectSource, AcceptSource,
        OpenTemporary, OpenFails, Convert, ConvertThrows, ConvertCrashes,
        Validate, ValidateThrows, Rename, RenameFails, Report, ReportThrows,
        CleanUp, ReleaseMutex, Restart, IInv, TypeOK, DistinctInv, IssueInv,
        File
<1>3. CASE QueryStep(w) \/ GetStatus(w) \/ Respond(w)
  BY <1>3, SMTT(30) DEF QueryStep, CheckFails, CheckPasses, RejectQueryId,
        Dispatch, ReadScheme, OpenFailsInQuery, OpenScan, Execute, GetStatus,
        Respond, IInv, TypeOK, DistinctInv, IssueInv, File
<1> QED BY <1>1, <1>2, <1>3 DEF WorkerStep

\* A rename is the only way to active.egg, and it publishes the file of the
\* one load that holds the mutex.
LEMMA ReservedStep ==
  ASSUME IInv, NEW w \in Worker, Arrive(w) \/ WorkerStep(w)
  PROVE  ReservedInv'
<1>1. CASE Arrive(w)
  BY <1>1, SMTT(30) DEF Arrive, RequestLoad, RequestQuery, RequestHealth,
        IInv, ReservedInv, RequestInv, IssueInv, DistinctInv, MutexInv,
        TypeOK, File, BeforeRename, LoadSteps
<1>2. CASE LoadStep(w)
  BY <1>2, SMTT(30) DEF LoadStep, AcquireMutex, RejectSource, AcceptSource,
        OpenTemporary, OpenFails, Convert, ConvertThrows, ConvertCrashes,
        Validate, ValidateThrows, Rename, RenameFails, Report, ReportThrows,
        CleanUp, ReleaseMutex, Restart, IInv, ReservedInv, RequestInv,
        IssueInv, DistinctInv, MutexInv, TypeOK, File, BeforeRename, LoadSteps
<1>3. CASE QueryStep(w) \/ GetStatus(w) \/ Respond(w)
  BY <1>3, SMTT(30) DEF QueryStep, CheckFails, CheckPasses, RejectQueryId,
        Dispatch, ReadScheme, OpenFailsInQuery, OpenScan, Execute, GetStatus,
        Respond, IInv, ReservedInv, RequestInv, IssueInv, DistinctInv,
        MutexInv, TypeOK, File, BeforeRename, LoadSteps
<1> QED BY <1>1, <1>2, <1>3 DEF WorkerStep

\* The file that a rename publishes is complete and loses its temporary name.
LEMMA ReadersStep ==
  ASSUME IInv, NEW w \in Worker, Arrive(w) \/ WorkerStep(w)
  PROVE  ReadersSeeFinishedFiles'
<1>1. CASE Arrive(w)
  BY <1>1, SMTT(30) DEF Arrive, RequestLoad, RequestQuery, RequestHealth,
        IInv, ReadersSeeFinishedFiles, ReservedInv, RequestInv, IssueInv,
        DistinctInv, MutexInv, TypeOK, File, BeforeRename, LoadSteps
<1>2. CASE LoadStep(w)
  BY <1>2, SMTT(30) DEF LoadStep, AcquireMutex, RejectSource, AcceptSource,
        OpenTemporary, OpenFails, Convert, ConvertThrows, ConvertCrashes,
        Validate, ValidateThrows, Rename, RenameFails, Report, ReportThrows,
        CleanUp, ReleaseMutex, Restart, IInv, ReadersSeeFinishedFiles,
        ReservedInv, RequestInv, IssueInv, DistinctInv, MutexInv, TypeOK,
        File, BeforeRename, LoadSteps
<1>3. CASE QueryStep(w) \/ GetStatus(w) \/ Respond(w)
  <2>1. active' = active /\ temps' = temps /\ image' = image
    BY <1>3, SMTT(30) DEF QueryStep, CheckFails, CheckPasses, RejectQueryId,
          Dispatch, ReadScheme, OpenFailsInQuery, OpenScan, Execute,
          GetStatus, Respond
  <2>2. \A v \in Worker : /\ scheme'[v] \in {scheme[v], active, NoFile}
                         /\ handle'[v] \in {handle[v], active, NoFile}
    BY <1>3, SMTT(30) DEF QueryStep, CheckFails, CheckPasses, RejectQueryId,
          Dispatch, ReadScheme, OpenFailsInQuery, OpenScan, Execute,
          GetStatus, Respond, IInv, TypeOK
  <2> QED BY <2>1, <2>2 DEF IInv, ReadersSeeFinishedFiles
<1> QED BY <1>1, <1>2, <1>3 DEF WorkerStep

\* A rename is recorded by every call in progress; a query opens what is
\* active at that moment.
LEMMA VisibleStep ==
  ASSUME IInv, NEW w \in Worker, Arrive(w) \/ WorkerStep(w)
  PROVE  VisibleInv'
<1>1. CASE Arrive(w)
  BY <1>1, SMTT(30) DEF Arrive, RequestLoad, RequestQuery, RequestHealth,
        IInv, VisibleInv, TypeOK, File, Steps, RequestInv, HasTemporary
<1>2. CASE LoadStep(w)
  BY <1>2, SMTT(30) DEF LoadStep, AcquireMutex, RejectSource, AcceptSource,
        OpenTemporary, OpenFails, Convert, ConvertThrows, ConvertCrashes,
        Validate, ValidateThrows, Rename, RenameFails, Report, ReportThrows,
        CleanUp, ReleaseMutex, Restart, IInv, VisibleInv, TypeOK, File, Steps,
        RequestInv, HasTemporary
<1>3. CASE QueryStep(w) \/ GetStatus(w) \/ Respond(w)
  BY <1>3, SMTT(30) DEF QueryStep, CheckFails, CheckPasses, RejectQueryId,
        Dispatch, ReadScheme, OpenFailsInQuery, OpenScan, Execute, GetStatus,
        Respond, IInv, VisibleInv, TypeOK, File, Steps, RequestInv,
        HasTemporary
<1> QED BY <1>1, <1>2, <1>3 DEF WorkerStep

\* Between its rename and its report no other load renames.
LEMMA OwnFileStep ==
  ASSUME IInv, NEW w \in Worker, Arrive(w) \/ WorkerStep(w)
  PROVE  LoadReportsItsOwnFile'
<1>1. CASE Arrive(w)
  BY <1>1, SMTT(30) DEF Arrive, RequestLoad, RequestQuery, RequestHealth,
        IInv, LoadReportsItsOwnFile, ReservedInv, ResultInv, TypeOK, NoResult,
        Failed, Rows, Loaded, NotLoaded, Health
<1>2. CASE LoadStep(w)
  BY <1>2, SMTT(30) DEF LoadStep, AcquireMutex, RejectSource, AcceptSource,
        OpenTemporary, OpenFails, Convert, ConvertThrows, ConvertCrashes,
        Validate, ValidateThrows, Rename, RenameFails, Report, ReportThrows,
        CleanUp, ReleaseMutex, Restart, IInv, LoadReportsItsOwnFile,
        ReservedInv, ResultInv, TypeOK, NoResult, Failed, Rows, Loaded,
        NotLoaded, Health
<1>3. CASE QueryStep(w) \/ GetStatus(w) \/ Respond(w)
  BY <1>3, SMTT(30) DEF QueryStep, CheckFails, CheckPasses, RejectQueryId,
        Dispatch, ReadScheme, OpenFailsInQuery, OpenScan, Execute, GetStatus,
        Respond, IInv, LoadReportsItsOwnFile, ReservedInv, ResultInv, TypeOK,
        NoResult, Failed, Rows, Loaded, NotLoaded, Health
<1> QED BY <1>1, <1>2, <1>3 DEF WorkerStep

\* The rows of a query come from the file that it has open.
LEMMA CurrentStep ==
  ASSUME IInv, NEW w \in Worker, Arrive(w) \/ WorkerStep(w)
  PROVE  AnswersAreCurrent'
<1>1. CASE Arrive(w)
  BY <1>1, SMTT(30) DEF Arrive, RequestLoad, RequestQuery, RequestHealth,
        IInv, AnswersAreCurrent, VisibleInv, ResultInv, TypeOK, NoResult,
        Failed, Rows, Loaded, NotLoaded, Health
<1>2. CASE LoadStep(w)
  BY <1>2, SMTT(30) DEF LoadStep, AcquireMutex, RejectSource, AcceptSource,
        OpenTemporary, OpenFails, Convert, ConvertThrows, ConvertCrashes,
        Validate, ValidateThrows, Rename, RenameFails, Report, ReportThrows,
        CleanUp, ReleaseMutex, Restart, IInv, AnswersAreCurrent, VisibleInv,
        ResultInv, TypeOK, NoResult, Failed, Rows, Loaded, NotLoaded, Health
<1>3. CASE QueryStep(w) \/ GetStatus(w) \/ Respond(w)
  BY <1>3, SMTT(30) DEF QueryStep, CheckFails, CheckPasses, RejectQueryId,
        Dispatch, ReadScheme, OpenFailsInQuery, OpenScan, Execute, GetStatus,
        Respond, IInv, AnswersAreCurrent, VisibleInv, ResultInv, TypeOK,
        NoResult, Failed, Rows, Loaded, NotLoaded, Health
<1> QED BY <1>1, <1>2, <1>3 DEF WorkerStep

\* File numbers are positive.
LEMMA FileNat == File \subseteq Nat /\ NoFile \in Nat /\ NoFile \notin File
BY DEF File

\* What RequestLoad does to the files: nothing, or it issues the next one.
LEMMA RequestLoadCases ==
  ASSUME TypeOK, NEW w \in Worker, RequestLoad(w)
  PROVE  /\ issued' \in 0 .. MaxLoads
         /\ issued <= issued'
         /\ \/ load' = load /\ issued' = issued
            \/ /\ issued' = issued + 1
               /\ load' = [load EXCEPT ![w] = issued']
               /\ issued' \in File
BY DEF RequestLoad, TypeOK, File

\* A load past RejectSource has a file.
LEMMA HasFile ==
  ASSUME IInv, NEW w \in Worker, pc[w] \in {"open", "report"} \cup HasTemporary
  PROVE  load[w] \in File
BY DEF IInv, TypeOK, RequestInv

\* The steps of a worker are those of the request that it serves.
LEMMA RequestStep ==
  ASSUME IInv, NEW w \in Worker, Arrive(w) \/ WorkerStep(w)
  PROVE  RequestInv'
<1>1. CASE RequestLoad(w)
  BY <1>1 DEF RequestLoad, Rejected, IInv, RequestInv, TypeOK, LoadSteps,
        QuerySteps, Steps, HasTemporary
<1>2. CASE RequestQuery(w)
  BY <1>2 DEF RequestQuery, IInv, RequestInv, TypeOK, LoadSteps, QuerySteps,
        Steps, HasTemporary
<1>3. CASE RequestHealth(w)
  BY <1>3 DEF RequestHealth, IInv, RequestInv, TypeOK, LoadSteps, QuerySteps,
        Steps, HasTemporary
<1>4. CASE AcquireMutex(w)
  BY <1>4 DEF AcquireMutex, IInv, RequestInv, TypeOK, LoadSteps, QuerySteps,
        Steps, HasTemporary
<1>5. CASE RejectSource(w)
  BY <1>5 DEF RejectSource, Failed, SourceFate, IInv, RequestInv, TypeOK,
        LoadSteps, QuerySteps, Steps, HasTemporary
<1>6. CASE AcceptSource(w)
  BY <1>6 DEF AcceptSource, SourceFate, IInv, RequestInv, TypeOK, LoadSteps,
        QuerySteps, Steps, HasTemporary
<1>7. CASE OpenTemporary(w) \/ OpenFails(w) \/ Convert(w) \/ ConvertThrows(w)
  BY <1>7 DEF OpenTemporary, OpenFails, Failed, Convert, ConvertThrows, IInv,
        RequestInv, TypeOK, LoadSteps, QuerySteps, Steps, HasTemporary
<1>8. CASE ConvertCrashes(w)
  BY <1>8 DEF ConvertCrashes, Restart, IInv, RequestInv, TypeOK, LoadSteps,
        QuerySteps, Steps, HasTemporary
<1>9. CASE Validate(w) \/ ValidateThrows(w) \/ Rename(w) \/ RenameFails(w)
  BY <1>9 DEF Validate, ValidateThrows, Failed, Rename, RenameFails, IInv,
        RequestInv, TypeOK, LoadSteps, QuerySteps, Steps, HasTemporary
<1>10. CASE Report(w) \/ ReportThrows(w)
  BY <1>10 DEF Report, Loaded, ReportThrows, Failed, IInv, RequestInv, TypeOK,
        LoadSteps, QuerySteps, Steps, HasTemporary
<1>11. CASE CleanUp(w) \/ ReleaseMutex(w)
  BY <1>11 DEF CleanUp, ReleaseMutex, IInv, RequestInv, TypeOK, LoadSteps,
        QuerySteps, Steps, HasTemporary
<1>12. CASE CheckFails(w) \/ CheckPasses(w) \/ RejectQueryId(w) \/ Dispatch(w)
  BY <1>12 DEF CheckFails, NotLoaded, CheckPasses, RejectQueryId, Failed,
        Dispatch, IInv, RequestInv, TypeOK, LoadSteps, QuerySteps, Steps,
        HasTemporary
<1>13. CASE ReadScheme(w) \/ OpenFailsInQuery(w) \/ OpenScan(w) \/ Execute(w)
  BY <1>13 DEF ReadScheme, OpenFailsInQuery, Failed, OpenScan, Execute, Rows,
        IInv, RequestInv, TypeOK, LoadSteps, QuerySteps, Steps, HasTemporary
<1>14. CASE GetStatus(w) \/ Respond(w)
  BY <1>14 DEF GetStatus, Health, Respond, IInv, RequestInv, TypeOK,
        LoadSteps, QuerySteps, Steps, HasTemporary
<1> QED BY <1>1, <1>2, <1>3, <1>4, <1>5, <1>6, <1>7, <1>8, <1>9, <1>10, <1>11,
      <1>12, <1>13, <1>14 DEF Arrive, WorkerStep, LoadStep, QueryStep

\* Only RequestLoad gives out a file, and it is the next one.
LEMMA IssueStep ==
  ASSUME IInv, NEW w \in Worker, Arrive(w) \/ WorkerStep(w)
  PROVE  IssueInv'
<1>1. CASE RequestLoad(w)
  <2>1. /\ issued \in Nat /\ issued' \in Nat /\ issued <= issued'
    BY <1>1, RequestLoadCases DEF IInv, TypeOK
  <2>2. /\ active' = active /\ temps' = temps
        /\ scheme' = scheme /\ handle' = handle
    BY <1>1 DEF RequestLoad
  <2>3. /\ active \in Nat /\ temps \subseteq Nat
        /\ \A v \in Worker :
             load[v] \in Nat /\ scheme[v] \in Nat /\ handle[v] \in Nat
    BY FileNat DEF IInv, TypeOK
  <2>4. load' = load \/ load' = [load EXCEPT ![w] = issued']
    BY <1>1, RequestLoadCases DEF IInv
  <2>5. \A v \in Worker : load'[v] <= issued'
    BY <2>1, <2>3, <2>4 DEF IInv, TypeOK, IssueInv
  <2> QED BY <2>1, <2>2, <2>3, <2>5 DEF IInv, IssueInv
<1>2. CASE QueryStep(w) \/ GetStatus(w) \/ Respond(w)
  <2>1. /\ active' = active /\ temps' = temps /\ issued' = issued
        /\ \A v \in Worker : /\ load'[v] \in {load[v], NoFile}
                             /\ scheme'[v] \in {scheme[v], active, NoFile}
                             /\ handle'[v] \in {handle[v], active, NoFile}
    BY <1>2 DEF QueryStep, CheckFails, CheckPasses, RejectQueryId, Dispatch,
          ReadScheme, OpenFailsInQuery, OpenScan, Execute, GetStatus, Respond,
          IInv, TypeOK
  <2> QED BY <2>1, FileNat DEF IInv, TypeOK, IssueInv
<1>3. CASE RequestQuery(w) \/ RequestHealth(w)
  BY <1>3 DEF RequestQuery, RequestHealth, IInv, IssueInv, RequestInv, TypeOK,
        File, LoadSteps, QuerySteps, HasTemporary
<1>4. CASE AcquireMutex(w) \/ RejectSource(w) \/ AcceptSource(w)
  BY <1>4 DEF AcquireMutex, RejectSource, Failed, SourceFate, AcceptSource,
        IInv, IssueInv, RequestInv, TypeOK, File, LoadSteps, QuerySteps,
        HasTemporary
<1>5. CASE OpenTemporary(w) \/ OpenFails(w) \/ Convert(w) \/ ConvertThrows(w)
  BY <1>5 DEF OpenTemporary, OpenFails, Failed, Convert, ConvertThrows, IInv,
        IssueInv, RequestInv, TypeOK, File, LoadSteps, QuerySteps,
        HasTemporary
<1>6. CASE ConvertCrashes(w)
  BY <1>6 DEF ConvertCrashes, Restart, IInv, IssueInv, RequestInv, TypeOK,
        File, LoadSteps, QuerySteps, HasTemporary
<1>7. CASE Validate(w) \/ ValidateThrows(w) \/ Rename(w) \/ RenameFails(w)
  BY <1>7 DEF Validate, ValidateThrows, Failed, Rename, RenameFails, IInv,
        IssueInv, RequestInv, TypeOK, File, LoadSteps, QuerySteps,
        HasTemporary
<1>8. CASE Report(w) \/ ReportThrows(w)
  BY <1>8 DEF Report, Loaded, ReportThrows, Failed, IInv, IssueInv,
        RequestInv, TypeOK, File, LoadSteps, QuerySteps, HasTemporary
<1>9. CASE CleanUp(w) \/ ReleaseMutex(w)
  BY <1>9 DEF CleanUp, ReleaseMutex, IInv, IssueInv, RequestInv, TypeOK, File,
        LoadSteps, QuerySteps, HasTemporary
<1> QED BY <1>1, <1>2, <1>3, <1>4, <1>5, <1>6, <1>7, <1>8, <1>9 DEF Arrive,
      WorkerStep, LoadStep, QueryStep

\* A temporary file appears when its load opens it and is gone when the load
\* leaves the steps of HasTemporary; only a restart orphans it.
LEMMA TempsStep ==
  ASSUME IInv, NEW w \in Worker, Arrive(w) \/ WorkerStep(w)
  PROVE  TempsInv'
<1>1. CASE RequestLoad(w)
  <2>1. /\ temps' = temps /\ orphans' = orphans
        /\ pc[w] = "idle" /\ pc' = [pc EXCEPT ![w] = "lock"]
    BY <1>1 DEF RequestLoad
  <2>2. issued + 1 \notin temps
    BY FileNat DEF IInv, TypeOK, IssueInv
  <2>3. \A v \in Worker : load'[v] \notin orphans
    BY <1>1, <2>2, RequestLoadCases DEF IInv, TypeOK, TempsInv
  <2>4. \A v \in Worker : pc[v] \in HasTemporary =>
                            load'[v] = load[v] /\ pc'[v] = pc[v]
    BY <1>1, <2>1, RequestLoadCases DEF IInv, TypeOK, HasTemporary
  <2> QED BY <2>1, <2>3, <2>4 DEF IInv, TempsInv
<1>2. CASE QueryStep(w) \/ GetStatus(w) \/ Respond(w)
  <2>1. /\ temps' = temps /\ orphans' = orphans
        /\ \A v \in Worker : load'[v] \in {load[v], NoFile}
    BY <1>2 DEF QueryStep, CheckFails, CheckPasses, RejectQueryId, Dispatch,
          ReadScheme, OpenFailsInQuery, OpenScan, Execute, GetStatus, Respond,
          IInv, TypeOK
  <2>2. \A v \in Worker : pc[v] \in HasTemporary =>
                            load'[v] = load[v] /\ pc'[v] = pc[v]
    BY <1>2 DEF QueryStep, CheckFails, CheckPasses, RejectQueryId, Dispatch,
          ReadScheme, OpenFailsInQuery, OpenScan, Execute, GetStatus, Respond,
          IInv, TypeOK, HasTemporary
  <2> QED BY <2>1, <2>2, FileNat DEF IInv, TypeOK, TempsInv
<1>3. CASE \/ RequestQuery(w) \/ RequestHealth(w)
           \/ AcquireMutex(w) \/ RejectSource(w) \/ AcceptSource(w)
           \/ OpenFails(w) \/ Convert(w) \/ ConvertThrows(w)
           \/ Validate(w) \/ ValidateThrows(w) \/ RenameFails(w)
           \/ Report(w) \/ ReportThrows(w) \/ ReleaseMutex(w)
  <2>1. /\ temps' = temps /\ orphans' = orphans /\ load' = load
        /\ \A v \in Worker : pc[v] \in HasTemporary => pc'[v] \in HasTemporary
    BY <1>3 DEF RequestQuery, RequestHealth, AcquireMutex, RejectSource,
          AcceptSource, OpenFails, Convert, ConvertThrows, Validate,
          ValidateThrows, RenameFails, Report, ReportThrows, ReleaseMutex,
          IInv, TypeOK, HasTemporary
  <2> QED BY <2>1 DEF IInv, TempsInv
<1>4. CASE OpenTemporary(w)
  BY <1>4 DEF OpenTemporary, IInv, TempsInv, TypeOK, HasTemporary
<1>5. CASE Rename(w)
  BY <1>5 DEF Rename, IInv, TempsInv, DistinctInv, RequestInv, MutexInv,
        TypeOK, LoadSteps, HasTemporary
<1>6. CASE CleanUp(w)
  BY <1>6 DEF CleanUp, IInv, TempsInv, DistinctInv, RequestInv, MutexInv,
        TypeOK, LoadSteps, HasTemporary
<1>7. CASE ConvertCrashes(w)
  BY <1>7 DEF ConvertCrashes, Restart, IInv, TempsInv, TypeOK, File
<1> QED BY <1>1, <1>2, <1>3, <1>4, <1>5, <1>6, <1>7
      DEF Arrive, WorkerStep, LoadStep, QueryStep

\* Every step keeps the types; a file that is opened, published or reported
\* is a file because of RequestInv, ReservedInv and VisibleInv.
LEMMA TypeStep ==
  ASSUME IInv, NEW w \in Worker, Arrive(w) \/ WorkerStep(w)
  PROVE  TypeOK'
<1>1. CASE RequestLoad(w)
  <2>1. request' \in [Worker -> Requests \cup {NoRequest}]
    <3>1. PICK s \in Source :
            request' = [request EXCEPT ![w] = [op |-> "load", source |-> s]]
      BY <1>1 DEF RequestLoad
    <3> QED BY <3>1 DEF IInv, TypeOK, Requests
  <2>2. load' \in [Worker -> File \cup {NoFile}]
    BY <1>1, RequestLoadCases DEF IInv, TypeOK
  <2>3. pc' \in [Worker -> Steps]
    BY <1>1 DEF RequestLoad, IInv, TypeOK, Steps
  <2>4. visible' \in [Worker -> SUBSET (File \cup {NoFile})]
    BY <1>1 DEF RequestLoad, IInv, TypeOK
  <2>5. /\ UNCHANGED <<active, temps, image, mutex, scheme, handle, result,
                       orphans>>
        /\ issued' \in 0 .. MaxLoads
    BY <1>1, RequestLoadCases DEF RequestLoad, IInv
  <2> QED BY <2>1, <2>2, <2>3, <2>4, <2>5 DEF IInv, TypeOK
<1>2. CASE RequestQuery(w)
  <2>1. request' \in [Worker -> Requests \cup {NoRequest}]
    BY <1>2 DEF RequestQuery, IInv, TypeOK, Requests
  <2>2. visible' \in [Worker -> SUBSET (File \cup {NoFile})]
    BY <1>2 DEF RequestQuery, IInv, TypeOK
  <2>3. pc' \in [Worker -> Steps]
    BY <1>2 DEF RequestQuery, IInv, TypeOK, Steps, QuerySteps
  <2> QED BY <1>2, <2>1, <2>2, <2>3 DEF RequestQuery, IInv, TypeOK
<1>3. CASE RequestHealth(w)
  <2>1. request' \in [Worker -> Requests \cup {NoRequest}]
    BY <1>3 DEF RequestHealth, IInv, TypeOK, Requests
  <2>2. visible' \in [Worker -> SUBSET (File \cup {NoFile})]
    BY <1>3 DEF RequestHealth, IInv, TypeOK
  <2>3. pc' \in [Worker -> Steps]
    BY <1>3 DEF RequestHealth, IInv, TypeOK, Steps, QuerySteps
  <2> QED BY <1>3, <2>1, <2>2, <2>3 DEF RequestHealth, IInv, TypeOK
<1>4. CASE \/ AcquireMutex(w) \/ AcceptSource(w)
           \/ Validate(w) \/ ReleaseMutex(w)
  <2>1. pc' \in [Worker -> Steps]
    BY <1>4 DEF AcquireMutex, AcceptSource, Validate, ReleaseMutex, IInv,
          TypeOK, Steps, LoadSteps, QuerySteps
  <2> QED BY <1>4, <2>1 DEF AcquireMutex, AcceptSource, Validate,
                ReleaseMutex, IInv, TypeOK
<1>5. CASE CheckPasses(w) \/ Dispatch(w)
  <2>1. pc' \in [Worker -> Steps]
    BY <1>5 DEF CheckPasses, Dispatch, IInv, TypeOK,
          Steps, LoadSteps, QuerySteps
  <2> QED BY <1>5, <2>1 DEF CheckPasses, Dispatch, IInv, TypeOK
<1>6. CASE ReadScheme(w)
  <2>1. pc' \in [Worker -> Steps]
    BY <1>6 DEF ReadScheme, IInv, TypeOK, Steps, QuerySteps
  <2> QED BY <1>6, <2>1 DEF ReadScheme, IInv, TypeOK
<1>7. CASE OpenScan(w)
  <2>1. pc' \in [Worker -> Steps]
    BY <1>7 DEF OpenScan, IInv, TypeOK, Steps, QuerySteps
  <2> QED BY <1>7, <2>1 DEF OpenScan, IInv, TypeOK
<1>8. CASE OpenTemporary(w)
  <2>1. load[w] \in File
    BY <1>8, HasFile DEF OpenTemporary
  <2>2. temps' \in SUBSET File
    BY <1>8, <2>1 DEF OpenTemporary, IInv, TypeOK
  <2>3. image' \in [File -> {"none", "partial", "complete"}]
    BY <1>8, <2>1 DEF OpenTemporary, IInv, TypeOK
  <2>4. pc' \in [Worker -> Steps]
    BY <1>8 DEF OpenTemporary, IInv, TypeOK, Steps, LoadSteps
  <2> QED BY <1>8, <2>2, <2>3, <2>4 DEF OpenTemporary, IInv, TypeOK
<1>9. CASE Rename(w)
  <2>1. load[w] \in File
    BY <1>9, HasFile DEF Rename, HasTemporary
  <2>2. visible' \in [Worker -> SUBSET (File \cup {NoFile})]
    BY <1>9, <2>1 DEF Rename, IInv, TypeOK
  <2>3. active' \in File /\ temps' \in SUBSET File
    BY <1>9, <2>1 DEF Rename, IInv, TypeOK
  <2>4. pc' \in [Worker -> Steps]
    BY <1>9 DEF Rename, IInv, TypeOK, Steps, LoadSteps
  <2> QED BY <1>9, <2>2, <2>3, <2>4 DEF Rename, IInv, TypeOK
<1>10. CASE Report(w)
  <2>1. active \in File
    BY <1>10 DEF Report, IInv, TypeOK, RequestInv, ReservedInv
  <2>2. result' \in [Worker -> Results \cup {NoResult}]
    BY <1>10, <2>1 DEF Report, Loaded, Results, IInv, TypeOK
  <2>3. pc' \in [Worker -> Steps]
    BY <1>10 DEF Report, IInv, TypeOK, Steps, LoadSteps
  <2> QED BY <1>10, <2>2, <2>3 DEF Report, IInv, TypeOK
<1>11. CASE Execute(w)
  <2>1. handle[w] \in File
    BY <1>11 DEF Execute, IInv, TypeOK, VisibleInv
  <2>2. result' \in [Worker -> Results \cup {NoResult}]
    BY <1>11, <2>1 DEF Execute, Rows, Results, IInv, TypeOK
  <2>3. pc' \in [Worker -> Steps]
    BY <1>11 DEF Execute, IInv, TypeOK, Steps
  <2> QED BY <1>11, <2>2, <2>3 DEF Execute, IInv, TypeOK
<1>12. CASE \/ RejectSource(w) \/ OpenFails(w) \/ ConvertThrows(w)
            \/ ValidateThrows(w) \/ RenameFails(w) \/ ReportThrows(w)
            \/ RejectQueryId(w) \/ OpenFailsInQuery(w)
  <2>1. /\ pc' \in [Worker -> Steps]
        /\ \E e \in Errors : SetResult(w, Failed(e))
    BY <1>12 DEF RejectSource, OpenFails, ConvertThrows, ValidateThrows,
          RenameFails, ReportThrows, RejectQueryId, OpenFailsInQuery,
          IInv, TypeOK, Errors, Steps, LoadSteps
  <2>2. result' \in [Worker -> Results \cup {NoResult}]
    BY <2>1 DEF Failed, Results, IInv, TypeOK
  <2> QED BY <1>12, <2>1, <2>2 DEF RejectSource, OpenFails, ConvertThrows,
        ValidateThrows, RenameFails, ReportThrows, RejectQueryId,
        OpenFailsInQuery, IInv, TypeOK
<1>13. CASE Convert(w) \/ CleanUp(w)
  <2>1. pc' \in [Worker -> Steps]
    BY <1>13 DEF Convert, CleanUp, IInv, TypeOK, Steps, LoadSteps
  <2> QED BY <1>13, <2>1 DEF Convert, CleanUp, IInv, TypeOK
<1>14. CASE ConvertCrashes(w)
  BY <1>14 DEF ConvertCrashes, Restart, IInv, TypeOK, Steps
<1>15. CASE CheckFails(w) \/ GetStatus(w)
  <2>1. pc' \in [Worker -> Steps]
    BY <1>15 DEF CheckFails, GetStatus, IInv, TypeOK, Steps
  <2>2. PICK r \in Results : SetResult(w, r)
    BY <1>15 DEF CheckFails, GetStatus, NotLoaded, Health, Results
  <2>3. result' \in [Worker -> Results \cup {NoResult}]
    BY <2>2 DEF IInv, TypeOK
  <2> QED BY <1>15, <2>1, <2>3 DEF CheckFails, GetStatus, IInv, TypeOK
<1>16. CASE Respond(w)
  BY <1>16 DEF Respond, IInv, TypeOK, Steps
<1> QED BY <1>1, <1>2, <1>3, <1>4, <1>5, <1>6, <1>7, <1>8, <1>9, <1>10, <1>11,
      <1>12, <1>13, <1>14, <1>15, <1>16 DEF Arrive, WorkerStep,
      LoadStep, QueryStep

\* A restart forgets all calls; what it keeps is finished or orphaned.
LEMMA RestartStep ==
  ASSUME IInv, Restart
  PROVE  IInv'
<1>1. TypeOK'
  BY DEF IInv, Restart, TypeOK, Steps
<1>2. MutexInv'
  BY DEF IInv, Restart, MutexInv, LoadSteps
<1>3. RequestInv'
  BY DEF IInv, Restart, RequestInv, LoadSteps, QuerySteps, HasTemporary
<1>4. ResultInv'
  BY DEF IInv, Restart, ResultInv, NoResult
<1>5. IssueInv'
  BY DEF IInv, Restart, IssueInv, TypeOK, File
<1>6. DistinctInv'
  BY DEF IInv, Restart, DistinctInv
<1>7. ReservedInv'
  BY DEF IInv, Restart, ReservedInv, BeforeRename
<1>8. ReadersSeeFinishedFiles'
  BY DEF IInv, Restart, ReadersSeeFinishedFiles, TypeOK
<1>9. TempsInv'
  BY DEF IInv, Restart, TempsInv, TypeOK, File
<1>10. VisibleInv'
  BY DEF IInv, Restart, VisibleInv
<1>11. LoadReportsItsOwnFile'
  BY DEF IInv, Restart, LoadReportsItsOwnFile, NoResult
<1>12. AnswersAreCurrent'
  BY DEF IInv, Restart, AnswersAreCurrent, NoResult
<1> QED BY <1>1, <1>2, <1>3, <1>4, <1>5, <1>6, <1>7, <1>8, <1>9, <1>10, <1>11,
      <1>12 DEF IInv

LEMMA StutterStep ==
  ASSUME IInv, UNCHANGED vars
  PROVE  IInv'
BY DEF vars, IInv, TypeOK, MutexInv, RequestInv, ResultInv, IssueInv,
      DistinctInv, ReservedInv, ReadersSeeFinishedFiles, TempsInv, VisibleInv,
      LoadReportsItsOwnFile, AnswersAreCurrent

LEMMA InitIInv ==
  ASSUME Init
  PROVE  IInv
<1>1. TypeOK
  BY DEF Init, TypeOK, Steps, File
<1>2. MutexInv
  BY DEF Init, MutexInv, LoadSteps
<1>3. RequestInv
  BY DEF Init, RequestInv, LoadSteps, QuerySteps, HasTemporary
<1>4. ResultInv
  BY DEF Init, ResultInv, NoResult
<1>5. IssueInv
  BY DEF Init, IssueInv
<1>6. DistinctInv
  BY DEF Init, DistinctInv
<1>7. ReservedInv
  BY DEF Init, ReservedInv, BeforeRename
<1>8. ReadersSeeFinishedFiles
  BY DEF Init, ReadersSeeFinishedFiles
<1>9. TempsInv
  BY DEF Init, TempsInv
<1>10. VisibleInv
  BY DEF Init, VisibleInv
<1>11. LoadReportsItsOwnFile
  BY DEF Init, LoadReportsItsOwnFile, NoResult
<1>12. AnswersAreCurrent
  BY DEF Init, AnswersAreCurrent, NoResult
<1> QED BY <1>1, <1>2, <1>3, <1>4, <1>5, <1>6, <1>7, <1>8, <1>9, <1>10, <1>11,
      <1>12 DEF IInv

LEMMA NextStep ==
  ASSUME IInv, Next
  PROVE  IInv'
<1>1. CASE Kill
  BY <1>1, RestartStep DEF Kill
<1>2. ASSUME NEW w \in Worker, Arrive(w) \/ WorkerStep(w)
      PROVE  IInv'
  BY <1>2, TypeStep, MutexStep, RequestStep, ResultStep, IssueStep,
     DistinctStep, ReservedStep, ReadersStep, TempsStep, VisibleStep,
     OwnFileStep, CurrentStep DEF IInv
<1> QED BY <1>1, <1>2 DEF Next

LEMMA Inductive == Spec => []IInv
<1>1. Init => IInv
  BY InitIInv
<1>2. IInv /\ [Next]_vars => IInv'
  BY NextStep, StutterStep
<1> QED BY <1>1, <1>2, PTL DEF Spec

-----------------------------------------------------------------------------
\* Every variable keeps its type.
THEOREM TypeCorrect == Spec => []TypeOK
BY Inductive, PTL DEF IInv

\* active.egg, and every file that a query has open, is one that a load
\* converted to the end, whatever fails or dies in between.
THEOREM ReadersAreSafe == Spec => []ReadersSeeFinishedFiles
BY Inductive, PTL DEF IInv

\* A load reports the size of the file that it activated itself.
THEOREM ReportsAreExact == Spec => []LoadReportsItsOwnFile
BY Inductive, PTL DEF IInv

\* Rows come from a dataset that was active during the query.
THEOREM AnswersAreFresh == Spec => []AnswersAreCurrent
BY Inductive, PTL DEF IInv

\* When the mutex is free, every temporary file is that of a process that
\* died: by TempsInv a live one needs a load that holds the mutex.
THEOREM LoadsCleanUp == Spec => []FailedLoadsCleanUp
<1>1. ASSUME IInv, mutex = NoWorker
      PROVE  temps = orphans
  <2>1. \A w \in Worker : pc[w] \notin HasTemporary
    BY <1>1 DEF IInv, MutexInv, HasTemporary, LoadSteps
  <2>2. temps \ orphans = {} /\ orphans \subseteq temps
    BY <1>1, <2>1 DEF IInv, TempsInv
  <2> QED BY <2>2
<1>2. IInv => FailedLoadsCleanUp
  BY <1>1 DEF FailedLoadsCleanUp
<1> QED BY <1>2, Inductive, PTL

\* No step takes the dataset away: only a rename changes active.egg, and it
\* puts a file there.
THEOREM DatasetStays == Spec => LoadedForGood
<1>1. ASSUME IInv, [Next]_vars
      PROVE  [active # NoFile => active' # NoFile]_active
  <2>1. CASE Kill
    BY <2>1 DEF Kill, Restart
  <2>2. ASSUME NEW w \in Worker, Rename(w)
        PROVE  active' # NoFile
    BY <1>1, <2>2, HasFile, FileNat DEF Rename, HasTemporary
  <2>3. ASSUME NEW w \in Worker, Arrive(w) \/ WorkerStep(w), ~Rename(w)
        PROVE  active' = active
    BY <2>3 DEF Arrive, RequestLoad, RequestQuery, RequestHealth, WorkerStep,
          LoadStep, AcquireMutex, RejectSource, AcceptSource, OpenTemporary,
          OpenFails, Convert, ConvertThrows, ConvertCrashes, Restart,
          Validate, ValidateThrows, RenameFails, Report, ReportThrows,
          CleanUp, ReleaseMutex, QueryStep, CheckFails, CheckPasses,
          RejectQueryId, Dispatch, ReadScheme, OpenFailsInQuery, OpenScan,
          Execute, GetStatus, Respond
  <2>4. CASE UNCHANGED vars
    BY <2>4 DEF vars
  <2> QED BY <1>1, <2>1, <2>2, <2>3, <2>4 DEF Next
<1> QED BY <1>1, Inductive, PTL DEF Spec, LoadedForGood

\* If file_size never fails, an error answer means that the load did not
\* touch active.egg: every earlier failure precedes the rename, and later
\* renames are of other files.
THEOREM ErrorsChangeNothing ==
  ASSUME StatFault = FALSE
  PROVE  Spec => []FailedLoadChangesNothing
<1> DEFINE ErrorInv == \A w \in Worker :
                         result[w].kind = "error" /\ load[w] # NoFile
                           => load[w] # active
<1>1. ASSUME Init
      PROVE  ErrorInv
  BY <1>1 DEF Init
<1>2. ASSUME IInv, ErrorInv, Next
      PROVE  ErrorInv'
  <2>1. CASE Kill
    BY <2>1 DEF Kill, Restart
  <2>2. ASSUME NEW w \in Worker, Arrive(w)
        PROVE  ErrorInv'
    BY <1>2, <2>2, SMTT(30) DEF Arrive, RequestLoad, RequestQuery,
          RequestHealth, IInv, TypeOK, File, ResultInv, IssueInv, NoResult
  <2>3. ASSUME NEW w \in Worker, LoadStep(w)
        PROVE  ErrorInv'
    BY <1>2, <2>3, SMTT(30) DEF LoadStep, AcquireMutex, RejectSource,
          AcceptSource, OpenTemporary, OpenFails, Convert, ConvertThrows,
          ConvertCrashes, Restart, Validate, ValidateThrows, Rename,
          RenameFails, Report, ReportThrows, CleanUp, ReleaseMutex, IInv,
          TypeOK, DistinctInv, ReservedInv, RequestInv, ResultInv,
          BeforeRename, NoResult, Failed, Loaded, LoadSteps
  <2>4. ASSUME NEW w \in Worker, QueryStep(w) \/ GetStatus(w) \/ Respond(w)
        PROVE  ErrorInv'
    BY <1>2, <2>4, SMTT(30) DEF QueryStep, CheckFails, CheckPasses,
          RejectQueryId, Dispatch, ReadScheme, OpenFailsInQuery, OpenScan,
          Execute, GetStatus, Respond, IInv, TypeOK, RequestInv, QuerySteps,
          NoResult, Failed, Rows, NotLoaded, Health
  <2> QED BY <1>2, <2>1, <2>2, <2>3, <2>4 DEF Next, WorkerStep
<1>3. ASSUME ErrorInv, UNCHANGED vars
      PROVE  ErrorInv'
  BY <1>3 DEF vars
<1>4. ErrorInv => FailedLoadChangesNothing
  BY DEF FailedLoadChangesNothing
<1> QED BY <1>1, <1>2, <1>3, <1>4, Inductive, PTL DEF Spec

-----------------------------------------------------------------------------
\* What a status says is what happened.

\* The result of a load tells where it came from.
LoadOutcome(w) ==
  /\ result[w].kind \in {"loaded", "error"}
  /\ result[w].kind = "loaded" =>
       image[load[w]] = "complete" /\ load[w] \notin temps
  /\ result[w].kind = "error" /\ result[w].error # "runtime_error" =>
       SourceFate(w) \in {"escapes", "malformed"}
  /\ SourceFate(w) = "escapes" => result[w] = Failed("invalid_argument")
  /\ SourceFate(w) = "missing" => result[w] = Failed("runtime_error")

\* So does that of a query.
QueryOutcome(w) ==
  /\ result[w].kind \in {"rows", "not_loaded", "error"}
  /\ result[w].kind = "rows" => request[w].id = "known_id"
  /\ result[w].kind = "error" =>
       (result[w].error = "invalid_argument" <=> request[w].id = "unknown_id")
  /\ visible[w] = {NoFile} => result[w].kind = "not_loaded"

\* Up to its response a worker has the request it serves, and a query that got
\* past its first look has seen a dataset.
OutcomeOf(w) ==
  /\ pc[w] \in {"cleanup", "unlock"} => LoadOutcome(w)
  /\ pc[w] = "done" =>
       \/ request[w] \in [op : {"load"}, source : Source] /\ LoadOutcome(w)
       \/ request[w] \in [op : {"query"}, id : QueryIds] /\ QueryOutcome(w)
       \/ request[w].op = "health"
  /\ pc[w] = "status" => request[w].op = "health"
  /\ pc[w] \in {"scheme", "scan", "execute"} => request[w].id = "known_id"
  /\ pc[w] \in QuerySteps \ {"check"} => visible[w] # {NoFile}

OutcomeInv == \A w \in Worker : OutcomeOf(w)

\* A step leaves what other workers say true: a load writes the file of no other.
LEMMA OthersOutcome ==
  ASSUME IInv, NEW w \in Worker, Arrive(w) \/ WorkerStep(w),
         ~ConvertCrashes(w), NEW v \in Worker, v # w, OutcomeOf(v)
  PROVE  OutcomeOf(v)'
<1>1. /\ pc'[v] = pc[v] /\ result'[v] = result[v]
      /\ load'[v] = load[v] /\ request'[v] = request[v]
  BY DEF Arrive, RequestLoad, RequestQuery, RequestHealth, WorkerStep,
        LoadStep, AcquireMutex, RejectSource, AcceptSource, OpenTemporary,
        OpenFails, Convert, ConvertThrows, Validate, ValidateThrows, Rename,
        RenameFails, Report, ReportThrows, CleanUp, ReleaseMutex, QueryStep,
        CheckFails, CheckPasses, RejectQueryId, Dispatch, ReadScheme,
        OpenFailsInQuery, OpenScan, Execute, GetStatus, Respond, IInv, TypeOK
<1>2. pc[v] # "idle" /\ visible[v] # {NoFile} => visible'[v] # {NoFile}
  <2>1. CASE Rename(w)
    <3>1. load[w] \in File
      BY <2>1, HasFile DEF Rename, HasTemporary
    <3> QED BY <2>1, <3>1, FileNat DEF Rename, IInv, TypeOK
  <2>2. CASE ~Rename(w)
    BY <2>2 DEF Arrive, RequestLoad, RequestQuery, RequestHealth, WorkerStep,
          LoadStep, AcquireMutex, RejectSource, AcceptSource, OpenTemporary,
          OpenFails, Convert, ConvertThrows, Validate, ValidateThrows,
          RenameFails, Report, ReportThrows, CleanUp, ReleaseMutex, QueryStep,
          CheckFails, CheckPasses, RejectQueryId, Dispatch, ReadScheme,
          OpenFailsInQuery, OpenScan, Execute, GetStatus, Respond, IInv,
          TypeOK
  <2> QED BY <2>1, <2>2
<1>3. result[v].kind = "loaded" => load[v] \in File
  BY DEF IInv, TypeOK, LoadReportsItsOwnFile, Results, NoResult
<1>4. /\ load[v] \in File /\ image[load[v]] = "complete"
      /\ load[v] \notin temps
      => image'[load[v]] = "complete" /\ load[v] \notin temps'
  <2>1. CASE OpenTemporary(w) \/ Convert(w)
    <3>1. load[w] \in File
      BY <2>1, HasFile DEF OpenTemporary, Convert, HasTemporary
    <3>2. load[w] # load[v]
      BY <3>1, FileNat DEF IInv, DistinctInv
    <3> QED BY <2>1, <3>1, <3>2 DEF OpenTemporary, Convert, IInv, TypeOK
  <2>2. CASE Rename(w) \/ CleanUp(w)
    BY <2>2 DEF Rename, CleanUp
  <2>3. CASE ~(OpenTemporary(w) \/ Convert(w) \/ Rename(w) \/ CleanUp(w))
    BY <2>3 DEF Arrive, RequestLoad, RequestQuery, RequestHealth, WorkerStep,
          LoadStep, AcquireMutex, RejectSource, AcceptSource, OpenFails,
          ConvertThrows, Validate, ValidateThrows, RenameFails, Report,
          ReportThrows, ReleaseMutex, QueryStep, CheckFails, CheckPasses,
          RejectQueryId, Dispatch, ReadScheme, OpenFailsInQuery, OpenScan,
          Execute, GetStatus, Respond
  <2> QED BY <2>1, <2>2, <2>3
<1>5. LoadOutcome(v) => LoadOutcome(v)'
  BY <1>1, <1>3, <1>4 DEF LoadOutcome, SourceFate
<1>6. pc[v] # "idle" /\ QueryOutcome(v) => QueryOutcome(v)'
  BY <1>1, <1>2 DEF QueryOutcome
<1> QED BY <1>1, <1>2, <1>5, <1>6 DEF OutcomeOf, QuerySteps

\* A worker's own step that gives a load its result.
LEMMA LoadGetsOutcome ==
  ASSUME IInv, NEW w \in Worker, LoadStep(w), ~ConvertCrashes(w), OutcomeOf(w)
  PROVE  OutcomeOf(w)'
<1>1. request[w] \in [op : {"load"}, source : Source] /\ request' = request
  BY DEF LoadStep, AcquireMutex, RejectSource, AcceptSource, OpenTemporary,
        OpenFails, Convert, ConvertThrows, Validate, ValidateThrows, Rename,
        RenameFails, Report, ReportThrows, CleanUp, ReleaseMutex, IInv,
        RequestInv, LoadSteps
<1>2. CASE AcquireMutex(w) \/ AcceptSource(w) \/ OpenTemporary(w)
             \/ Convert(w) \/ Validate(w) \/ Rename(w)
  BY <1>2 DEF AcquireMutex, AcceptSource, OpenTemporary, Convert, Validate,
        Rename, OutcomeOf, IInv, TypeOK, QuerySteps
<1>3. CASE RejectSource(w)
  <2>1. pc'[w] = "unlock" /\ SourceFate(w)' = SourceFate(w)
    BY <1>1, <1>3 DEF RejectSource, IInv, TypeOK, SourceFate
  <2>2. \/ SourceFate(w) = "escapes" /\ result'[w] = Failed("invalid_argument")
        \/ SourceFate(w) = "missing" /\ result'[w] = Failed("runtime_error")
    BY <1>3 DEF RejectSource, IInv, TypeOK
  <2>3. LoadOutcome(w)'
    BY <2>1, <2>2 DEF LoadOutcome, Failed
  <2> QED BY <2>1, <2>3 DEF OutcomeOf, QuerySteps
<1>4. CASE OpenFails(w) \/ ConvertThrows(w) \/ ValidateThrows(w)
             \/ RenameFails(w) \/ ReportThrows(w)
  <2>1. pc'[w] \in {"cleanup", "unlock"} /\ SourceFate(w)' = SourceFate(w)
    BY <1>1, <1>4 DEF OpenFails, ConvertThrows, ValidateThrows, RenameFails,
          ReportThrows, IInv, TypeOK, SourceFate
  <2>2. \E e \in Errors : /\ result'[w] = Failed(e)
                          /\ e = "runtime_error" \/ SourceFate(w) = "malformed"
    BY <1>4 DEF OpenFails, ConvertThrows, ValidateThrows, RenameFails,
          ReportThrows, IInv, TypeOK, Errors
  <2>3. SourceFate(w) \notin Rejected
    BY <1>4 DEF OpenFails, ConvertThrows, ValidateThrows, RenameFails,
          ReportThrows, IInv, RequestInv, LoadSteps, HasTemporary, SourceFate
  <2>4. LoadOutcome(w)'
    BY <2>1, <2>2, <2>3 DEF LoadOutcome, Failed, Rejected
  <2> QED BY <2>1, <2>4 DEF OutcomeOf, QuerySteps
<1>5. CASE Report(w)
  <2>1. pc'[w] = "unlock" /\ SourceFate(w)' = SourceFate(w)
    BY <1>1, <1>5 DEF Report, IInv, TypeOK, SourceFate
  <2>2. SourceFate(w) \notin Rejected /\ load[w] # NoFile /\ active = load[w]
    BY <1>5 DEF Report, IInv, RequestInv, ReservedInv, LoadSteps, SourceFate
  <2>3. image[load[w]] = "complete" /\ load[w] \notin temps
    BY <2>2 DEF IInv, ReadersSeeFinishedFiles
  <2>4. result'[w] = Loaded(active)
    BY <1>5 DEF Report, IInv, TypeOK
  <2>5. LoadOutcome(w)'
    BY <1>5, <2>1, <2>2, <2>3, <2>4
    DEF Report, LoadOutcome, Loaded, Rejected
  <2> QED BY <2>1, <2>5 DEF OutcomeOf, QuerySteps
<1>6. CASE CleanUp(w) \/ ReleaseMutex(w)
  <2>1. /\ pc[w] \in {"cleanup", "unlock"} /\ pc'[w] \in {"unlock", "done"}
        /\ SourceFate(w)' = SourceFate(w) /\ result' = result
        /\ image' = image /\ load' = load /\ temps' \subseteq temps
    BY <1>1, <1>6 DEF CleanUp, ReleaseMutex, IInv, TypeOK, SourceFate
  <2>2. LoadOutcome(w)
    BY <2>1 DEF OutcomeOf
  <2>3. LoadOutcome(w)'
    BY <2>1, <2>2 DEF LoadOutcome
  <2> QED BY <1>1, <2>1, <2>3 DEF OutcomeOf, QuerySteps
<1> QED BY <1>2, <1>3, <1>4, <1>5, <1>6 DEF LoadStep

\* A query looks at the id only behind its first look at the dataset.
LEMMA QueryGetsOutcome ==
  ASSUME IInv, NEW w \in Worker, QueryStep(w), OutcomeOf(w)
  PROVE  OutcomeOf(w)'
<1>1. /\ request[w] \in [op : {"query"}, id : QueryIds]
      /\ request' = request /\ visible' = visible
      /\ active \in visible[w]
  BY DEF QueryStep, CheckFails, CheckPasses, RejectQueryId, Dispatch,
        ReadScheme, OpenFailsInQuery, OpenScan, Execute, IInv, RequestInv,
        VisibleInv, QuerySteps
<1>2. CASE CheckPasses(w) \/ Dispatch(w) \/ ReadScheme(w) \/ OpenScan(w)
  BY <1>1, <1>2 DEF CheckPasses, Dispatch, ReadScheme, OpenScan, OutcomeOf,
        IInv, TypeOK, QuerySteps
<1>3. CASE CheckFails(w) \/ RejectQueryId(w) \/ OpenFailsInQuery(w)
             \/ Execute(w)
  <2>1. pc'[w] = "done"
    BY <1>3 DEF CheckFails, RejectQueryId, OpenFailsInQuery, Execute, IInv,
          TypeOK
  <2>2. QueryOutcome(w)'
    BY <1>1, <1>3 DEF CheckFails, RejectQueryId, OpenFailsInQuery, Execute,
          QueryOutcome, OutcomeOf, IInv, TypeOK, QuerySteps, QueryIds,
          NotLoaded, Failed, Rows
  <2> QED BY <1>1, <2>1, <2>2 DEF OutcomeOf, QuerySteps
<1> QED BY <1>2, <1>3 DEF QueryStep

\* A client can rely on the status of its answer, for any number of threads,
\* loads, failures and crashes: it tells a source that is to blame from a
\* service that failed, although only the class of an exception decides.
THEOREM StatusesAreTrue == Spec => []StatusesTellWhatHappened
<1>1. ASSUME Init
      PROVE  OutcomeInv
  BY <1>1 DEF Init, OutcomeInv, OutcomeOf, QuerySteps
<1>2. ASSUME IInv, OutcomeInv, Next
      PROVE  OutcomeInv'
  <2>1. CASE Restart
    BY <2>1 DEF Restart, OutcomeInv, OutcomeOf, QuerySteps
  <2>2. ASSUME NEW w \in Worker, Arrive(w) \/ WorkerStep(w),
               ~ConvertCrashes(w), NEW v \in Worker
        PROVE  OutcomeOf(v)'
    <3>1. CASE v # w
      BY <1>2, <2>2, <3>1, OthersOutcome DEF OutcomeInv
    <3>2. CASE v = w /\ Arrive(w)
      BY <1>2, <3>2 DEF Arrive, RequestLoad, RequestQuery, RequestHealth,
            OutcomeOf, IInv, TypeOK, QuerySteps
    <3>3. CASE v = w /\ LoadStep(w)
      BY <1>2, <2>2, <3>3, LoadGetsOutcome DEF OutcomeInv
    <3>4. CASE v = w /\ QueryStep(w)
      BY <1>2, <3>4, QueryGetsOutcome DEF OutcomeInv
    <3>5. CASE v = w /\ GetStatus(w)
      BY <1>2, <3>5 DEF GetStatus, OutcomeInv, OutcomeOf, IInv, TypeOK,
            QuerySteps
    <3>6. CASE v = w /\ Respond(w)
      BY <1>2, <3>6 DEF Respond, OutcomeOf, IInv, TypeOK, QuerySteps
    <3> QED BY <2>2, <3>1, <3>2, <3>3, <3>4, <3>5, <3>6 DEF WorkerStep
  <2>3. ASSUME NEW w \in Worker, ConvertCrashes(w)
        PROVE  Restart
    BY <2>3 DEF ConvertCrashes
  <2> QED BY <1>2, <2>1, <2>2, <2>3 DEF Next, Kill, OutcomeInv
<1>3. ASSUME OutcomeInv, UNCHANGED vars
      PROVE  OutcomeInv'
  BY <1>3 DEF vars, OutcomeInv, OutcomeOf, LoadOutcome, QueryOutcome,
        SourceFate
<1>4. ASSUME IInv, OutcomeInv
      PROVE  StatusesTellWhatHappened
  <2> SUFFICES ASSUME NEW w \in Worker, pc[w] = "done"
               PROVE  LET status == StatusOf(request[w].op, result[w])
                      IN /\ request[w].op = "load" =>
                              /\ status = 200 => /\ image[load[w]] = "complete"
                                                 /\ load[w] \notin temps
                              /\ status \in {400, 500} =>
                                   SourceFate(w) \in {"escapes", "malformed"}
                              /\ SourceFate(w) = "escapes" => status = 400
                              /\ SourceFate(w) = "missing" => status = 422
                         /\ request[w].op = "query" =>
                              /\ status = 409 => NoFile \in visible[w]
                              /\ visible[w] = {NoFile} => status = 409
                              /\ status = 404 => request[w].id = "unknown_id"
                              /\ request[w].id = "unknown_id" =>
                                   status \in {404, 409}
    BY DEF StatusesTellWhatHappened
  <2>1. CASE request[w] \in [op : {"load"}, source : Source] /\ LoadOutcome(w)
    BY <2>1 DEF LoadOutcome, StatusOf, StatusOfError, Failed
  <2>2. CASE request[w] \in [op : {"query"}, id : QueryIds] /\ QueryOutcome(w)
    BY <1>4, <2>2 DEF QueryOutcome, StatusOf, QueryIds, IInv,
          AnswersAreCurrent
  <2>3. CASE request[w].op = "health"
    BY <2>3
  <2> QED BY <1>4, <2>1, <2>2, <2>3 DEF OutcomeInv, OutcomeOf
<1> QED BY <1>1, <1>2, <1>3, <1>4, Inductive, PTL DEF Spec

-----------------------------------------------------------------------------
\* The service implements DatasetStore.

\* A step of one worker leaves the calls of the others as they are.
LEMMA OthersKeep ==
  ASSUME IInv, NEW w \in Worker, Arrive(w) \/ WorkerStep(w),
         ~ConvertCrashes(w), NEW v \in Worker, v # w
  PROVE  Phase(v)' = Phase(v) /\ Decided(v)' = Decided(v)
<1>1. /\ pc'[v] = pc[v] /\ result'[v] = result[v]
      /\ load'[v] = load[v] /\ handle'[v] = handle[v]
  BY DEF Arrive, RequestLoad, RequestQuery, RequestHealth, WorkerStep,
        LoadStep, AcquireMutex, RejectSource, AcceptSource, OpenTemporary,
        OpenFails, Convert, ConvertThrows, Validate, ValidateThrows, Rename,
        RenameFails, Report, ReportThrows, CleanUp, ReleaseMutex, QueryStep,
        CheckFails, CheckPasses, RejectQueryId, Dispatch, ReadScheme,
        OpenFailsInQuery, OpenScan, Execute, GetStatus, Respond, IInv, TypeOK
<1> QED BY <1>1 DEF Phase, Decided

\* Hence the step changes the abstract state only at w.
LEMMA OneClientChanges ==
  ASSUME IInv, NEW w \in Worker, Arrive(w) \/ WorkerStep(w),
         ~ConvertCrashes(w), NEW p, NEW a, Phase(w)' = p, Decided(w)' = a
  PROVE  /\ [v \in Worker |-> Phase(v)]'
              = [[v \in Worker |-> Phase(v)] EXCEPT ![w] = p]
         /\ [v \in Worker |-> Decided(v)]'
              = [[v \in Worker |-> Decided(v)] EXCEPT ![w] = a]
BY OthersKeep

\* A request that arrives is a call.
LEMMA ArriveIsCall ==
  ASSUME IInv, NEW w \in Worker, Arrive(w)
  PROVE  Store!Call(w)
<1>1. /\ pc[w] = "idle" /\ pc'[w] \in {"lock", "check", "status"}
      /\ result' = result /\ active' = active
  BY DEF Arrive, RequestLoad, RequestQuery, RequestHealth, IInv, TypeOK
<1>2. result[w] = NoResult
  BY <1>1 DEF IInv, ResultInv
<1>3. /\ Phase(w) = "idle" /\ Phase(w)' = "called"
      /\ Decided(w) = NoResult /\ Decided(w)' = NoResult
  BY <1>1, <1>2 DEF Phase, Decided
<1>4. ~ConvertCrashes(w)
  BY <1>1 DEF ConvertCrashes
<1>5. [v \in Worker |-> Decided(v)]' = [v \in Worker |-> Decided(v)]
  BY <1>3, <1>4, OthersKeep
<1> QED BY <1>1, <1>3, <1>4, <1>5, OneClientChanges DEF Store!Call

\* The steps at which nothing is decided yet, or which carry out what was.
Silent(w) ==
  \/ AcquireMutex(w) \/ AcceptSource(w) \/ OpenTemporary(w) \/ Convert(w)
  \/ Validate(w) \/ Report(w) \/ CleanUp(w) \/ ReleaseMutex(w)
  \/ CheckPasses(w) \/ Dispatch(w) \/ ReadScheme(w) \/ Execute(w)

LEMMA SilentStutters ==
  ASSUME IInv, NEW w \in Worker, Silent(w)
  PROVE  UNCHANGED Store!vars
<1>1. active' = active /\ Phase(w)' = Phase(w) /\ Decided(w)' = Decided(w)
  <2>1. CASE Report(w)
    BY <2>1 DEF Report, Phase, Decided, IInv, TypeOK, ReservedInv, Loaded,
          NoResult
  <2>2. CASE Execute(w)
    BY <2>2 DEF Execute, Phase, Decided, IInv, TypeOK, Rows, NoResult
  <2>3. CASE /\ ~Report(w) /\ ~Execute(w)
    <3>1. /\ active' = active /\ result' = result
          /\ pc[w] # "idle" /\ pc'[w] # "idle"
          /\ pc[w] \notin {"report", "execute"}
          /\ pc'[w] \notin {"report", "execute"}
      BY <2>3 DEF Silent, AcquireMutex, AcceptSource, OpenTemporary, Convert,
            Validate, CleanUp, ReleaseMutex, CheckPasses, Dispatch,
            ReadScheme, IInv, TypeOK
    <3> QED BY <3>1 DEF Phase, Decided
  <2> QED BY <2>1, <2>2, <2>3
<1>2. WorkerStep(w)
  BY DEF Silent, WorkerStep, LoadStep, QueryStep
<1>3. pc'[w] # "idle"
  BY DEF Silent, AcquireMutex, AcceptSource, OpenTemporary, Convert,
        Validate, Report, CleanUp, ReleaseMutex, CheckPasses, Dispatch,
        ReadScheme, Execute, IInv, TypeOK
<1>4. ~ConvertCrashes(w)
  BY <1>3 DEF ConvertCrashes, Restart
<1>5. /\ [v \in Worker |-> Phase(v)]' = [v \in Worker |-> Phase(v)]
      /\ [v \in Worker |-> Decided(v)]' = [v \in Worker |-> Decided(v)]
  BY <1>1, <1>2, <1>4, OthersKeep
<1> QED BY <1>1, <1>5 DEF Store!vars

\* A rename is where a load takes effect: it puts a new dataset in place.
LEMMA RenameIsLoad ==
  ASSUME IInv, NEW w \in Worker, Rename(w)
  PROVE  Store!Load(w, load[w]) /\ load[w] \in File
<1>1. load[w] \in File /\ load[w] # active
  <2>1. pc[w] = "rename"
    BY DEF Rename
  <2>2. load[w] \in File
    BY <2>1, HasFile DEF HasTemporary
  <2> QED BY <2>1, <2>2, FileNat DEF IInv, ReservedInv, BeforeRename
<1>2. /\ pc[w] = "rename" /\ pc'[w] = "report"
      /\ active' = load[w] /\ load' = load /\ result' = result
  BY DEF Rename, IInv, TypeOK
<1>3. result[w] = NoResult
  BY <1>2 DEF IInv, ResultInv
<1>4. Phase(w) = "called"
  BY <1>2, <1>3 DEF Phase, Decided
<1>5. Decided(w)' = [kind |-> "loaded", file |-> load[w]]
  BY <1>2 DEF Decided, Loaded
<1>6. Phase(w)' = "answered"
  BY <1>2, <1>5 DEF Phase, NoResult
<1>7. ~ConvertCrashes(w) /\ WorkerStep(w)
  BY <1>2 DEF ConvertCrashes, WorkerStep, LoadStep
<1> QED
  BY <1>1, <1>2, <1>4, <1>5, <1>6, <1>7, OneClientChanges
  DEF Store!Load, Store!TakeEffect

\* Opening active.egg for the scan is where a query takes effect.
LEMMA OpenScanIsQuery ==
  ASSUME IInv, NEW w \in Worker, OpenScan(w)
  PROVE  Store!Query(w)
<1>1. /\ pc[w] = "scan" /\ pc'[w] = "execute"
      /\ active' = active /\ handle'[w] = active /\ result' = result
  BY DEF OpenScan, IInv, TypeOK
<1>2. result[w] = NoResult /\ active # NoFile
  BY <1>1 DEF IInv, ResultInv, VisibleInv
<1>3. Phase(w) = "called"
  BY <1>1, <1>2 DEF Phase, Decided
<1>4. Decided(w)' = [kind |-> "rows", file |-> active]
  BY <1>1 DEF Decided, Rows
<1>5. Phase(w)' = "answered"
  BY <1>1, <1>4 DEF Phase, NoResult
<1>6. ~ConvertCrashes(w) /\ WorkerStep(w)
  BY <1>1 DEF ConvertCrashes, WorkerStep, QueryStep
<1> QED
  BY <1>1, <1>2, <1>3, <1>4, <1>5, <1>6, OneClientChanges
  DEF Store!Query, Store!TakeEffect

\* The steps that fix an answer which has no effect on the dataset.
Answers(w) ==
  \/ RejectSource(w) \/ OpenFails(w) \/ ConvertThrows(w)
  \/ ValidateThrows(w) \/ RenameFails(w)
  \/ CheckFails(w) \/ RejectQueryId(w) \/ OpenFailsInQuery(w) \/ GetStatus(w)

LEMMA AnswersTakeEffect ==
  ASSUME IInv, NEW w \in Worker, Answers(w)
  PROVE  /\ Store!TakeEffect(w, result'[w])
         /\ active' = active
         /\ \/ \E e \in Errors : result'[w] = Failed(e)
            \/ result'[w] = NotLoaded /\ active = NoFile
            \/ result'[w] = Health(active # NoFile)
<1>1. /\ pc[w] \in {"resolve", "open", "convert", "validate", "rename",
                    "check", "dispatch", "scheme", "scan", "status"}
      /\ pc'[w] \in {"unlock", "cleanup", "done"}
      /\ active' = active
  BY DEF Answers, RejectSource, OpenFails, ConvertThrows, ValidateThrows,
        RenameFails, CheckFails, RejectQueryId, OpenFailsInQuery, GetStatus,
        IInv, TypeOK
<1>2. \/ \E e \in Errors : result'[w] = Failed(e)
      \/ result'[w] = NotLoaded /\ active = NoFile
      \/ result'[w] = Health(active # NoFile)
  BY DEF Answers, RejectSource, OpenFails, ConvertThrows, ValidateThrows,
        RenameFails, CheckFails, RejectQueryId, OpenFailsInQuery, GetStatus,
        IInv, TypeOK, Errors
<1>3. result[w] = NoResult
  BY <1>1 DEF IInv, ResultInv
<1>4. Phase(w) = "called"
  BY <1>1, <1>3 DEF Phase, Decided
<1>5. Decided(w)' = result'[w]
  BY <1>1 DEF Decided
<1>6. result'[w] # NoResult
  <2>1. /\ \A e : Failed(e) # NoResult
        /\ \A b : Health(b) # NoResult
        /\ NotLoaded # NoResult
    <3>1. \A e : Failed(e).kind = "error"
      BY DEF Failed
    <3>2. \A b : Health(b).kind = "health"
      BY DEF Health
    <3>3. NotLoaded.kind = "not_loaded" /\ NoResult.kind = "none"
      BY DEF NotLoaded, NoResult
    <3> QED BY <3>1, <3>2, <3>3
  <2> QED BY <1>2, <2>1, Zenon
<1>7. Phase(w)' = "answered"
  BY <1>1, <1>5, <1>6 DEF Phase
<1>8. ~ConvertCrashes(w)
  BY <1>1 DEF ConvertCrashes, Restart
<1>9. WorkerStep(w)
  BY DEF Answers, WorkerStep, LoadStep, QueryStep
<1> QED
  BY <1>1, <1>2, <1>4, <1>5, <1>7, <1>8, <1>9, OneClientChanges
  DEF Store!TakeEffect

\* The response ends the call.
LEMMA RespondIsReturn ==
  ASSUME IInv, NEW w \in Worker, Respond(w)
  PROVE  Store!Return(w)
<1>1. /\ pc[w] = "done" /\ pc'[w] = "idle"
      /\ active' = active /\ result'[w] = NoResult
  BY DEF Respond, IInv, TypeOK
<1>2. result[w] # NoResult
  BY <1>1 DEF IInv, ResultInv
<1>3. /\ Phase(w) = "answered" /\ Phase(w)' = "idle"
      /\ Decided(w)' = NoResult
  BY <1>1, <1>2 DEF Phase, Decided
<1>4. ~ConvertCrashes(w) /\ WorkerStep(w)
  BY <1>1 DEF ConvertCrashes, WorkerStep
<1> QED BY <1>1, <1>3, <1>4, OneClientChanges
        DEF Store!Return, Store!NoAnswer, NoResult

LEMMA RestartIsRestart ==
  ASSUME Restart
  PROVE  Store!Restart
BY DEF Restart, Store!Restart, Phase, Decided, Store!NoAnswer, NoResult

\* Every behaviour of the service is one of the abstract store, as long as
\* file_size does not fail after a rename: loads, queries and health checks
\* are atomic there.
THEOREM ServiceImplementsStore ==
  ASSUME StatFault = FALSE
  PROVE  Spec => ImplementsStore
<1>1. ASSUME Init
      PROVE  Store!Init
  BY <1>1 DEF Init, Store!Init, Phase, Decided, Store!NoAnswer, NoResult
<1>2. ASSUME IInv, [Next]_vars
      PROVE  [Store!Next]_Store!vars
  <2>1. CASE Kill
    BY <2>1, RestartIsRestart DEF Kill, Store!Next
  <2>2. ASSUME NEW w \in Worker, Arrive(w)
        PROVE  Store!Next
    BY <1>2, <2>2, ArriveIsCall DEF Store!Next, Store!Step
  <2>3. ASSUME NEW w \in Worker, WorkerStep(w)
        PROVE  [Store!Next]_Store!vars
    <3>1. CASE Silent(w)
      BY <1>2, <3>1, SilentStutters
    <3>2. CASE Rename(w)
      BY <1>2, <3>2, RenameIsLoad DEF Store!Next, Store!Step
    <3>3. CASE OpenScan(w)
      BY <1>2, <3>3, OpenScanIsQuery DEF Store!Next, Store!Step
    <3>4. CASE Answers(w)
      <4>1. /\ Store!TakeEffect(w, result'[w])
            /\ active' = active
            /\ \/ \E e \in Errors : result'[w] = Failed(e)
               \/ result'[w] = NotLoaded /\ active = NoFile
               \/ result'[w] = Health(active # NoFile)
        BY <1>2, <3>4, AnswersTakeEffect
      <4>2. \/ \E e \in Errors : Store!Fail(w, e)
            \/ Store!Refuse(w)
            \/ Store!Health(w)
        BY <4>1 DEF Store!Fail, Store!Refuse, Store!Health, Failed,
              NotLoaded, Health
      <4> QED BY <4>2 DEF Store!Next, Store!Step
    <3>5. CASE Respond(w)
      BY <1>2, <3>5, RespondIsReturn DEF Store!Next, Store!Step
    <3>6. CASE ConvertCrashes(w)
      BY <3>6, RestartIsRestart DEF ConvertCrashes, Store!Next
    <3>7. ~ReportThrows(w)
      BY DEF ReportThrows
    <3> QED
      BY <2>3, <3>1, <3>2, <3>3, <3>4, <3>5, <3>6, <3>7
      DEF WorkerStep, LoadStep, QueryStep, Silent, Answers
  <2>4. CASE UNCHANGED vars
    BY <2>4 DEF vars, Store!vars, Phase, Decided
  <2> QED BY <1>2, <2>1, <2>2, <2>3, <2>4 DEF Next
<1> QED BY <1>1, <1>2, Inductive, PTL DEF Spec, ImplementsStore, Store!Spec

=============================================================================

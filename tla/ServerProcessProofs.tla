------------------------ MODULE ServerProcessProofs ------------------------
(***************************************************************************)
(* Proofs about the process and its metrics, for any number of workers and *)
(* requests.  The metrics are compared with the cardinalities of sets of   *)
(* workers, which each step of a worker changes by that worker or not at   *)
(* all; what main and the signal thread may conclude from each other's     *)
(* flags is said in SignalInv and StopInv.                                 *)
(***************************************************************************)
EXTENDS ServerProcess, FiniteSetTheorems, TLAPS

USE RequestsAssumption, ShutdownAssumption

-----------------------------------------------------------------------------
\* Whatever wakes the signal thread is a signal from outside, or a wake-up by
\* main behind its flag.
SignalInv ==
  /\ to_process => asked
  /\ main \in {"kill", "join"} => cancel_signal_wait
  /\ to_waiter => cancel_signal_wait
  /\ waiter = "check" => asked \/ cancel_signal_wait
  /\ reported => asked

\* The signal thread goes to stop the server only behind a reported signal or a
\* failed wait, and the socket is closed by it alone.
StopInv ==
  /\ waiter \in {"wait", "stop"} => reported \/ signal_wait_error
  /\ socket = "closed" => reported \/ signal_wait_error
  /\ listen_result = "success" => socket = "closed"
  /\ exit = "success" => /\ main = "exited" /\ waiter = "done"
                         /\ ~signal_wait_error /\ listen_result = "success"

ProcessInv == ProcessTypeOK /\ SignalInv /\ StopInv

\* The invariant holds at the start, and implies what is said of the signals
\* and of the exit code.
LEMMA ProcessInitially == ProcessInit => ProcessInv
  BY DEF ProcessInit, ProcessInv, ProcessTypeOK, SignalInv, StopInv

LEMMA ProcessConclusions ==
  ProcessInv => ReportsOnlyRealSignals /\ CleanExitIsAnOrder
  BY DEF ProcessInv, SignalInv, StopInv, ReportsOnlyRealSignals, CleanExitIsAnOrder

\* Steps of main.
LEMMA MainKeepsProcess ==
  ASSUME ProcessInv, Main
  PROVE  ProcessInv'
<1> USE DEF ProcessInv, ProcessTypeOK, SignalInv, StopInv, Step,
            threads, http, flags, pending
<1>1. CASE BlockShutdownSignals
  BY <1>1 DEF BlockShutdownSignals
<1>2. CASE BindToPort
  BY <1>2 DEF BindToPort
<1>3. CASE BindFails
  BY <1>3 DEF BindFails
<1>4. CASE SpawnThread
  BY <1>4 DEF SpawnThread
<1>5. CASE ListenAfterBind
  BY <1>5 DEF ListenAfterBind
<1>6. CASE ListenReturns
  BY <1>6 DEF ListenReturns
<1>7. CASE CancelWait
  BY <1>7 DEF CancelWait
<1>8. CASE KillThread
  BY <1>8 DEF KillThread
<1>9. CASE Join
  BY <1>9 DEF Join, ExitCode
<1> QED
  BY <1>1, <1>2, <1>3, <1>4, <1>5, <1>6, <1>7, <1>8, <1>9 DEF Main

\* Steps of the signal thread.
LEMMA WaiterKeepsProcess ==
  ASSUME ProcessInv, Waiter
  PROVE  ProcessInv'
<1> USE DEF ProcessInv, ProcessTypeOK, SignalInv, StopInv, Step,
            threads, http, flags, pending
<1>1. CASE SigWait
  <2>1. /\ waiter = "sigwait" /\ waiter' = "check"
        /\ UNCHANGED <<main, server, socket, cancel_signal_wait, signal_wait_error,
                       listen_result, asked, reported, exit>>
    BY <1>1 DEF SigWait
  <2>2. to_process \in BOOLEAN /\ to_waiter \in BOOLEAN
    OBVIOUS
  <2>3. /\ to_process' \in BOOLEAN /\ to_waiter' \in BOOLEAN
        /\ to_process' => to_process
        /\ to_waiter' => to_waiter
        /\ to_process \/ to_waiter
    <3> HIDE DEF ProcessInv
    <3>1. CASE to_process /\ to_process' = FALSE /\ UNCHANGED to_waiter
      BY <2>2, <3>1
    <3>2. CASE to_waiter /\ to_waiter' = FALSE /\ UNCHANGED to_process
      BY <2>2, <3>2
    <3> QED
      BY <1>1, <3>1, <3>2, Zenon DEF SigWait
  <2> QED
    BY <2>1, <2>3
<1>2. CASE Cancelled
  BY <1>2 DEF Cancelled
<1>3. CASE ReportSignal
  BY <1>3 DEF ReportSignal
<1>4. CASE WaitUntilReady
  BY <1>4 DEF WaitUntilReady
<1>5. CASE Stop
  BY <1>5 DEF Stop
<1> QED
  BY <1>1, <1>2, <1>3, <1>4, <1>5 DEF Waiter

\* What happens to the threads.
LEMMA EnvironmentKeepsProcess ==
  ASSUME ProcessInv, Environment
  PROVE  ProcessInv'
<1> USE DEF ProcessInv, ProcessTypeOK, SignalInv, StopInv, Step,
            threads, http, flags, pending
<1>1. CASE Signal
  BY <1>1 DEF Signal
<1>2. CASE Killed
  BY <1>2 DEF Killed
<1>3. CASE NetworkError
  BY <1>3 DEF NetworkError
<1>4. CASE ListenThrows
  BY <1>4 DEF ListenThrows
<1>5. CASE SigWaitFails
  BY <1>5 DEF SigWaitFails
<1> QED
  BY <1>1, <1>2, <1>3, <1>4, <1>5 DEF Environment

-----------------------------------------------------------------------------
Stages == {"idle", "started", "answered", "left", "counted", "unobserved", "shown"}

\* The types of what the workers keep; the bounds of gauge and shown follow.
KeptInv ==
  /\ stage \in [Workers -> Stages]
  /\ route \in [Workers -> Routes]
  /\ status \in [Workers -> Statuses \cup {0}]
  /\ \A w \in Workers : stage[w] \in {"answered", "left", "counted"} => status[w] \in Statuses
  /\ totals \in [Routes -> [Outcomes -> Nat]]
  /\ durations \in [Routes -> Nat]
  /\ answers \in [Routes -> [Statuses -> Nat]]
  /\ requests \in 0 .. MaxRequests

ShownInv == shown \in 0 .. Cardinality(Workers) - 1

RequestsInv ==
  KeptInv /\ ShownInv /\ GaugeCountsOpenRequests /\ AnswersAreCounted /\ DurationsFollowTotals

\* A set of workers that gains or loses one of them.
LEMMA OneMore ==
  ASSUME NEW S \in SUBSET Workers, NEW T \in SUBSET Workers, NEW w \in Workers,
         w \notin S, T = S \cup {w}
  PROVE  Cardinality(S) \in Nat /\ Cardinality(T) = Cardinality(S) + 1
  BY FS_Subset, FS_AddElement, FS_CardinalityType DEF RequestsAssumption

LEMMA OneLess ==
  ASSUME NEW S \in SUBSET Workers, NEW T \in SUBSET Workers, NEW w \in Workers,
         w \in S, T = S \ {w}
  PROVE  Cardinality(T) \in Nat /\ Cardinality(T) = Cardinality(S) - 1
<1>1. S = T \cup {w} /\ w \notin T
  OBVIOUS
<1>2. Cardinality(T) \in Nat /\ Cardinality(S) = Cardinality(T) + 1
  BY <1>1, OneMore
<1> QED
  BY <1>2

\* A set of workers without one of them is smaller than all.
LEMMA SomeLess ==
  ASSUME NEW S \in SUBSET Workers, NEW w \in Workers, w \notin S
  PROVE  Cardinality(S) \in 0 .. Cardinality(Workers) - 1
<1>1. Cardinality(S \cup {w}) = Cardinality(S) + 1 /\ Cardinality(S) \in Nat
  BY OneMore
<1>2. Cardinality(S \cup {w}) <= Cardinality(Workers) /\ Cardinality(Workers) \in Nat
  BY FS_Subset, FS_CardinalityType DEF RequestsAssumption
<1> QED
  BY <1>1, <1>2

LEMMA AnyAmount ==
  ASSUME NEW S \in SUBSET Workers
  PROVE  Cardinality(S) \in 0 .. Cardinality(Workers)
  BY FS_Subset, FS_CardinalityType DEF RequestsAssumption

\* All that TypeOK says of the requests follows.
LEMMA RequestsConclusions == RequestsInv => RequestsTypeOK
<1> SUFFICES ASSUME RequestsInv PROVE RequestsTypeOK
  OBVIOUS
<1>1. gauge \in 0 .. Cardinality(Workers)
  BY AnyAmount DEF RequestsInv, GaugeCountsOpenRequests, Open
<1> QED
  BY <1>1 DEF RequestsInv, KeptInv, ShownInv, RequestsTypeOK, Stages

LEMMA RequestsInitially == RequestsInit => RequestsInv
<1> SUFFICES ASSUME RequestsInit PROVE RequestsInv
  OBVIOUS
<1>1. Cardinality({}) = 0
  BY FS_EmptySet
<1>2. KeptInv
  BY DEF RequestsInit, KeptInv, Stages, Routes, Statuses, Outcomes, RequestsAssumption
<1>3. ShownInv
  <2>1. PICK w \in Workers : TRUE
    BY DEF RequestsAssumption
  <2> QED
    BY <2>1, SomeLess, <1>1 DEF RequestsInit, ShownInv
<1>4. Open = {} /\ \A r \in Routes : Unobserved(r) = {}
  BY DEF RequestsInit, Open, Unobserved
<1>5. \A r \in Routes, o \in Outcomes : Uncounted(r, o) = {} /\ AnswersOf(r, o) = 0
  BY DEF RequestsInit, Uncounted, AnswersOf, Outcomes, Statuses
<1>6. \A r \in Routes, o \in Outcomes : totals[r][o] = 0 /\ durations[r] = 0
  BY DEF RequestsInit
<1>7. GaugeCountsOpenRequests
  BY <1>1, <1>4 DEF RequestsInit, GaugeCountsOpenRequests
<1>8. AnswersAreCounted
  <2> SUFFICES ASSUME NEW r \in Routes, NEW o \in Outcomes
               PROVE  totals[r][o] + Cardinality(Uncounted(r, o)) = AnswersOf(r, o)
    BY DEF AnswersAreCounted
  <2>1. Cardinality(Uncounted(r, o)) = 0
    BY <1>1, <1>5
  <2>2. totals[r][o] = 0 /\ AnswersOf(r, o) = 0
    BY <1>5, <1>6
  <2> QED
    BY <2>1, <2>2
<1>9. DurationsFollowTotals
  BY <1>1, <1>4, <1>6 DEF DurationsFollowTotals, Outcomes
<1> QED
  BY <1>2, <1>3, <1>7, <1>8, <1>9 DEF RequestsInv

-----------------------------------------------------------------------------
\* Steps that leave the sets and what is compared with them alone.
LEMMA SameAnswers ==
  ASSUME AnswersAreCounted, UNCHANGED <<totals, answers>>,
         \A r \in Routes, o \in Outcomes : Uncounted(r, o)' = Uncounted(r, o)
  PROVE  AnswersAreCounted'
<1> SUFFICES ASSUME NEW r \in Routes, NEW o \in Outcomes
             PROVE  totals'[r][o] + Cardinality(Uncounted(r, o)') = AnswersOf(r, o)'
  BY DEF AnswersAreCounted
<1>1. AnswersOf(r, o)' = AnswersOf(r, o)
  BY DEF AnswersOf
<1>2. totals[r][o] + Cardinality(Uncounted(r, o)) = AnswersOf(r, o)
  BY DEF AnswersAreCounted
<1> QED
  BY <1>1, <1>2

LEMMA SameDurations ==
  ASSUME DurationsFollowTotals, UNCHANGED <<totals, durations>>,
         \A r \in Routes : Unobserved(r)' = Unobserved(r)
  PROVE  DurationsFollowTotals'
  BY DEF DurationsFollowTotals

\* The classes of the statuses are those that GetHttpOutcome tells apart.
LEMMA ClassesAreOutcomes ==
  ASSUME NEW s \in Statuses
  PROVE  /\ GetHttpOutcome(s) \in Outcomes
         /\ \A o \in Outcomes : s \in Class[o] <=> o = GetHttpOutcome(s)
  BY DEF Statuses, Outcomes, Class, GetHttpOutcome

\* Each handler answers with one of the statuses.
LEMMA HandlersAnswer ==
  ASSUME NEW r \in Routes, NEW cause \in DOMAIN StatusOf(r)
  PROVE  StatusOf(r)[cause] \in Statuses
<1>1. CASE r = "/data/load"
  BY <1>1 DEF StatusOf, LoadStatus, Statuses
<1>2. CASE r = "/queries/:id/run"
  BY <1>2 DEF StatusOf, QueryStatus, Statuses
<1>3. CASE r = "/health"
  BY <1>3 DEF StatusOf, HealthStatus, Statuses
<1>4. CASE r = "unmatched"
  BY <1>4 DEF StatusOf, UnmatchedStatus, Statuses
<1> QED
  BY <1>1, <1>2, <1>3, <1>4 DEF Routes

\* One more answer is one more of its class, and of no other.
LEMMA AnswersGrow ==
  ASSUME KeptInv, NEW q \in Routes, NEW s \in Statuses,
         answers' = [answers EXCEPT ![q][s] = @ + 1],
         NEW r \in Routes, NEW o \in Outcomes
  PROVE  /\ AnswersOf(r, o) \in Nat
         /\ AnswersOf(r, o)' =
              IF r = q /\ s \in Class[o] THEN AnswersOf(r, o) + 1 ELSE AnswersOf(r, o)
<1>1. \A t \in Statuses : answers[r][t] \in Nat
  BY DEF KeptInv
<1>2. \A t \in Statuses : answers'[r][t] =
        IF r = q /\ t = s THEN answers[r][t] + 1 ELSE answers[r][t]
  BY <1>1 DEF KeptInv
<1>3. CASE o = "success"
  BY <1>1, <1>2, <1>3 DEF AnswersOf, Class, Statuses
<1>4. CASE o = "server_error"
  BY <1>1, <1>2, <1>4 DEF AnswersOf, Class, Statuses
<1>5. CASE o = "client_error"
  BY <1>1, <1>2, <1>5 DEF AnswersOf, Class, Statuses
<1> QED
  BY <1>3, <1>4, <1>5 DEF Outcomes

-----------------------------------------------------------------------------
\* One lemma for each step of a worker.
LEMMA StartKeepsRequests ==
  ASSUME RequestsInv, NEW w \in Workers, HttpRequestStarted(w)
  PROVE  RequestsInv'
<1> USE DEF RequestsInv
<1>1. KeptInv' /\ ShownInv'
  BY DEF HttpRequestStarted, Move, KeptInv, ShownInv, Stages
<1>2. GaugeCountsOpenRequests'
  <2>1. w \notin Open /\ Open' = Open \cup {w}
    BY DEF HttpRequestStarted, Move, Open, KeptInv
  <2>2. Cardinality(Open') = Cardinality(Open) + 1
    BY <2>1, OneMore DEF Open
  <2> QED
    BY <2>2 DEF HttpRequestStarted, GaugeCountsOpenRequests
<1>3. AnswersAreCounted'
  <2>1. \A r \in Routes, o \in Outcomes : Uncounted(r, o)' = Uncounted(r, o)
    BY DEF HttpRequestStarted, Move, Uncounted, KeptInv
  <2> QED
    BY <2>1, SameAnswers DEF HttpRequestStarted
<1>4. DurationsFollowTotals'
  <2>1. \A r \in Routes : Unobserved(r)' = Unobserved(r)
    BY DEF HttpRequestStarted, Move, Unobserved, KeptInv
  <2> QED
    BY <2>1, SameDurations DEF HttpRequestStarted
<1> QED
  BY <1>1, <1>2, <1>3, <1>4

LEMMA MetricsKeepRequests ==
  ASSUME RequestsInv, NEW w \in Workers,
         MetricsRequested(w) \/ Serialize(w) \/ PassUnobserved(w)
  PROVE  RequestsInv'
<1> USE DEF RequestsInv, metrics
<1>1. KeptInv'
  <2>1. CASE MetricsRequested(w)
    BY <2>1 DEF MetricsRequested, Move, KeptInv, Stages, Statuses
  <2>2. CASE Serialize(w)
    BY <2>2 DEF Serialize, Move, KeptInv, Stages, Statuses
  <2>3. CASE PassUnobserved(w)
    BY <2>3 DEF PassUnobserved, Move, KeptInv, Stages, Statuses
  <2> QED
    BY <2>1, <2>2, <2>3
<1>2. ShownInv'
  <2>1. CASE Serialize(w)
    <3>1. w \notin Open
      BY <2>1 DEF Serialize, Move, Open
    <3>2. gauge \in 0 .. Cardinality(Workers) - 1
      BY <3>1, SomeLess DEF Open, GaugeCountsOpenRequests
    <3> QED
      BY <2>1, <3>2 DEF Serialize, ShownInv
  <2> QED
    BY <2>1 DEF MetricsRequested, PassUnobserved, ShownInv
<1>3. GaugeCountsOpenRequests'
  <2>1. Open' = Open
    BY DEF MetricsRequested, Serialize, PassUnobserved, Move, Open, KeptInv
  <2> QED
    BY <2>1 DEF MetricsRequested, Serialize, PassUnobserved, GaugeCountsOpenRequests
<1>4. AnswersAreCounted'
  <2>1. \A r \in Routes, o \in Outcomes : Uncounted(r, o)' = Uncounted(r, o)
    BY DEF MetricsRequested, Serialize, PassUnobserved, Move, Uncounted, KeptInv
  <2> QED
    BY <2>1, SameAnswers DEF MetricsRequested, Serialize, PassUnobserved
<1>5. DurationsFollowTotals'
  <2>1. \A r \in Routes : Unobserved(r)' = Unobserved(r)
    BY DEF MetricsRequested, Serialize, PassUnobserved, Move, Unobserved, KeptInv
  <2> QED
    BY <2>1, SameDurations DEF MetricsRequested, Serialize, PassUnobserved
<1> QED
  BY <1>1, <1>2, <1>3, <1>4, <1>5

LEMMA HandleKeepsRequests ==
  ASSUME RequestsInv, NEW w \in Workers, Handle(w)
  PROVE  RequestsInv'
<1> USE DEF RequestsInv, metrics
<1> DEFINE q == route[w]
<1>1. q \in Routes
  BY DEF KeptInv
<1>2. PICK cause \in DOMAIN StatusOf(q) :
        /\ status' = [status EXCEPT ![w] = StatusOf(q)[cause]]
        /\ answers' = [answers EXCEPT ![q][StatusOf(q)[cause]] = @ + 1]
  BY DEF Handle
<1> DEFINE s == StatusOf(q)[cause]
<1>3. s \in Statuses
  BY <1>1, HandlersAnswer
<1> HIDE DEF q, s
<1>4. /\ stage[w] = "started" /\ stage' = [stage EXCEPT ![w] = "answered"]
      /\ status' = [status EXCEPT ![w] = s] /\ q = route[w]
      /\ answers' = [answers EXCEPT ![q][s] = @ + 1]
      /\ UNCHANGED <<route, gauge, totals, durations, shown, requests>>
  BY <1>2 DEF Handle, Move, q, s
<1>5. KeptInv' /\ ShownInv'
  BY <1>1, <1>3, <1>4 DEF KeptInv, ShownInv, Stages
<1>6. GaugeCountsOpenRequests'
  <2>1. Open' = Open
    BY <1>4 DEF Open, KeptInv
  <2> QED
    BY <1>4, <2>1 DEF GaugeCountsOpenRequests
<1>7. AnswersAreCounted'
  <2> SUFFICES ASSUME NEW r \in Routes, NEW o \in Outcomes
               PROVE  totals'[r][o] + Cardinality(Uncounted(r, o)') = AnswersOf(r, o)'
    BY DEF AnswersAreCounted
  <2>1. totals[r][o] \in Nat /\ totals[r][o] + Cardinality(Uncounted(r, o)) = AnswersOf(r, o)
    BY DEF KeptInv, AnswersAreCounted
  <2>2. w \notin Uncounted(r, o)
    BY <1>4 DEF Uncounted
  <2>3. CASE r = q /\ s \in Class[o]
    <3>1. Uncounted(r, o)' = Uncounted(r, o) \cup {w}
      BY <1>4, <2>3 DEF Uncounted, KeptInv
    <3>2. /\ Cardinality(Uncounted(r, o)) \in Nat
          /\ Cardinality(Uncounted(r, o)') = Cardinality(Uncounted(r, o)) + 1
      BY <2>2, <3>1, OneMore DEF Uncounted
    <3>3. AnswersOf(r, o)' = AnswersOf(r, o) + 1
      BY <1>1, <1>3, <1>4, <2>3, AnswersGrow
    <3> QED
      BY <1>4, <2>1, <3>2, <3>3
  <2>4. CASE ~(r = q /\ s \in Class[o])
    <3>1. Uncounted(r, o)' = Uncounted(r, o)
      BY <1>4, <2>4 DEF Uncounted, KeptInv
    <3>2. AnswersOf(r, o)' = AnswersOf(r, o)
      BY <1>1, <1>3, <1>4, <2>4, AnswersGrow
    <3> QED
      BY <1>4, <2>1, <3>1, <3>2
  <2> QED
    BY <2>3, <2>4
<1>8. DurationsFollowTotals'
  <2>1. \A r \in Routes : Unobserved(r)' = Unobserved(r)
    BY <1>4 DEF Unobserved, KeptInv
  <2> QED
    BY <1>4, <2>1, SameDurations
<1> QED
  BY <1>5, <1>6, <1>7, <1>8

LEMMA DecrementKeepsRequests ==
  ASSUME RequestsInv, NEW w \in Workers, Decrement(w)
  PROVE  RequestsInv'
<1> USE DEF RequestsInv
<1>1. KeptInv' /\ ShownInv'
  BY DEF Decrement, Move, KeptInv, ShownInv, Stages
<1>2. GaugeCountsOpenRequests'
  <2>1. w \in Open /\ Open' = Open \ {w}
    BY DEF Decrement, Move, Open, KeptInv
  <2>2. Cardinality(Open') = Cardinality(Open) - 1
    BY <2>1, OneLess DEF Open
  <2> QED
    BY <2>2 DEF Decrement, GaugeCountsOpenRequests
<1>3. AnswersAreCounted'
  <2>1. \A r \in Routes, o \in Outcomes : Uncounted(r, o)' = Uncounted(r, o)
    BY DEF Decrement, Move, Uncounted, KeptInv
  <2> QED
    BY <2>1, SameAnswers DEF Decrement
<1>4. DurationsFollowTotals'
  <2>1. \A r \in Routes : Unobserved(r)' = Unobserved(r)
    BY DEF Decrement, Move, Unobserved, KeptInv
  <2> QED
    BY <2>1, SameDurations DEF Decrement
<1> QED
  BY <1>1, <1>2, <1>3, <1>4

LEMMA CountKeepsRequests ==
  ASSUME RequestsInv, NEW w \in Workers, Count(w)
  PROVE  RequestsInv'
<1> USE DEF RequestsInv
<1> DEFINE q == route[w]
           p == GetHttpOutcome(status[w])
<1>1. q \in Routes /\ status[w] \in Statuses
  BY DEF Count, Move, KeptInv
<1>2. p \in Outcomes /\ \A o \in Outcomes : status[w] \in Class[o] <=> o = p
  BY <1>1, ClassesAreOutcomes
<1> HIDE DEF q, p
<1>3. /\ stage[w] = "left" /\ stage' = [stage EXCEPT ![w] = "counted"] /\ q = route[w]
      /\ totals' = [totals EXCEPT ![q][p] = @ + 1]
      /\ UNCHANGED <<route, status, gauge, durations, shown, answers, requests>>
  BY DEF Count, Move, q, p
<1>4. KeptInv' /\ ShownInv'
  BY <1>1, <1>2, <1>3 DEF KeptInv, ShownInv, Stages
<1>5. GaugeCountsOpenRequests'
  <2>1. Open' = Open
    BY <1>3 DEF Open, KeptInv
  <2> QED
    BY <1>3, <2>1 DEF GaugeCountsOpenRequests
<1>6. \A r \in Routes, o \in Outcomes :
        /\ totals[r][o] \in Nat
        /\ totals'[r][o] = IF r = q /\ o = p THEN totals[r][o] + 1 ELSE totals[r][o]
  BY <1>1, <1>2, <1>3 DEF KeptInv
<1>7. AnswersAreCounted'
  <2> SUFFICES ASSUME NEW r \in Routes, NEW o \in Outcomes
               PROVE  totals'[r][o] + Cardinality(Uncounted(r, o)') = AnswersOf(r, o)'
    BY DEF AnswersAreCounted
  <2>1. totals[r][o] + Cardinality(Uncounted(r, o)) = AnswersOf(r, o)
    BY DEF AnswersAreCounted
  <2>2. AnswersOf(r, o)' = AnswersOf(r, o)
    BY <1>3 DEF AnswersOf
  <2>3. CASE r = q /\ o = p
    <3>1. w \in Uncounted(r, o) /\ Uncounted(r, o)' = Uncounted(r, o) \ {w}
      BY <1>2, <1>3, <2>3 DEF Uncounted, KeptInv
    <3>2. /\ Cardinality(Uncounted(r, o)') \in Nat
          /\ Cardinality(Uncounted(r, o)') = Cardinality(Uncounted(r, o)) - 1
          /\ Cardinality(Uncounted(r, o)) \in Nat
      BY <3>1, OneLess, AnyAmount DEF Uncounted
    <3> QED
      BY <1>6, <2>1, <2>2, <2>3, <3>2
  <2>4. CASE ~(r = q /\ o = p)
    <3>1. Uncounted(r, o)' = Uncounted(r, o)
      BY <1>2, <1>3, <2>4 DEF Uncounted, KeptInv
    <3> QED
      BY <1>6, <2>1, <2>2, <2>4, <3>1
  <2> QED
    BY <2>3, <2>4
<1>8. DurationsFollowTotals'
  <2> SUFFICES ASSUME NEW r \in Routes
               PROVE  durations'[r] + Cardinality(Unobserved(r)')
                        = totals'[r]["success"] + totals'[r]["client_error"]
                            + totals'[r]["server_error"]
    BY DEF DurationsFollowTotals
  <2>1. durations[r] + Cardinality(Unobserved(r))
          = totals[r]["success"] + totals[r]["client_error"] + totals[r]["server_error"]
    BY DEF DurationsFollowTotals
  <2>2. durations[r] \in Nat /\ durations' = durations
    BY <1>3 DEF KeptInv
  <2>3. CASE r = q
    <3>1. w \notin Unobserved(r) /\ Unobserved(r)' = Unobserved(r) \cup {w}
      BY <1>3, <2>3 DEF Unobserved, KeptInv
    <3>2. /\ Cardinality(Unobserved(r)) \in Nat
          /\ Cardinality(Unobserved(r)') = Cardinality(Unobserved(r)) + 1
      BY <3>1, OneMore DEF Unobserved
    <3> QED
      BY <1>2, <1>6, <2>1, <2>2, <2>3, <3>2 DEF Outcomes
  <2>4. CASE r # q
    <3>1. Unobserved(r)' = Unobserved(r)
      BY <1>3, <2>4 DEF Unobserved, KeptInv
    <3>2. \A o \in Outcomes : totals'[r][o] = totals[r][o]
      BY <1>6, <2>4
    <3> QED
      BY <2>1, <2>2, <3>1, <3>2 DEF Outcomes
  <2> QED
    BY <2>3, <2>4
<1> QED
  BY <1>4, <1>5, <1>7, <1>8

LEMMA ObserveKeepsRequests ==
  ASSUME RequestsInv, NEW w \in Workers, Observe(w)
  PROVE  RequestsInv'
<1> USE DEF RequestsInv
<1>1. KeptInv' /\ ShownInv'
  BY DEF Observe, Move, KeptInv, ShownInv, Stages
<1>2. GaugeCountsOpenRequests'
  <2>1. Open' = Open
    BY DEF Observe, Move, Open, KeptInv
  <2> QED
    BY <2>1 DEF Observe, GaugeCountsOpenRequests
<1>3. AnswersAreCounted'
  <2>1. \A r \in Routes, o \in Outcomes : Uncounted(r, o)' = Uncounted(r, o)
    BY DEF Observe, Move, Uncounted, KeptInv
  <2> QED
    BY <2>1, SameAnswers DEF Observe
<1>4. DurationsFollowTotals'
  <2> SUFFICES ASSUME NEW r \in Routes
               PROVE  durations'[r] + Cardinality(Unobserved(r)')
                        = totals[r]["success"] + totals[r]["client_error"]
                            + totals[r]["server_error"]
    BY DEF DurationsFollowTotals, Observe
  <2>1. durations[r] + Cardinality(Unobserved(r))
          = totals[r]["success"] + totals[r]["client_error"] + totals[r]["server_error"]
    BY DEF DurationsFollowTotals
  <2>2. /\ durations[r] \in Nat
        /\ durations'[r] = IF r = route[w] THEN durations[r] + 1 ELSE durations[r]
    BY DEF Observe, KeptInv
  <2>3. CASE r = route[w]
    <3>1. w \in Unobserved(r) /\ Unobserved(r)' = Unobserved(r) \ {w}
      BY <2>3 DEF Observe, Move, Unobserved, KeptInv
    <3>2. /\ Cardinality(Unobserved(r)') \in Nat /\ Cardinality(Unobserved(r)) \in Nat
          /\ Cardinality(Unobserved(r)') = Cardinality(Unobserved(r)) - 1
      BY <3>1, OneLess, AnyAmount DEF Unobserved
    <3> QED
      BY <2>1, <2>2, <2>3, <3>2
  <2>4. CASE r # route[w]
    <3>1. Unobserved(r)' = Unobserved(r)
      BY <2>4 DEF Observe, Move, Unobserved, KeptInv
    <3> QED
      BY <2>1, <2>2, <2>4, <3>1
  <2> QED
    BY <2>3, <2>4
<1> QED
  BY <1>1, <1>2, <1>3, <1>4

\* A step that is none of a worker.
LEMMA StutterKeepsRequests ==
  ASSUME RequestsInv, UNCHANGED requestVars
  PROVE  RequestsInv'
<1> USE DEF RequestsInv, requestVars, request, metrics
<1>1. KeptInv' /\ ShownInv'
  BY DEF KeptInv, ShownInv
<1>2. GaugeCountsOpenRequests'
  BY DEF GaugeCountsOpenRequests, Open
<1>3. AnswersAreCounted'
  <2>1. \A r \in Routes, o \in Outcomes : Uncounted(r, o)' = Uncounted(r, o)
    BY DEF Uncounted
  <2> QED
    BY <2>1, SameAnswers
<1>4. DurationsFollowTotals'
  <2>1. \A r \in Routes : Unobserved(r)' = Unobserved(r)
    BY DEF Unobserved
  <2> QED
    BY <2>1, SameDurations
<1> QED
  BY <1>1, <1>2, <1>3, <1>4

LEMMA StutterKeepsProcess ==
  ASSUME ProcessInv, UNCHANGED processVars
  PROVE  ProcessInv'
  BY DEF ProcessInv, ProcessTypeOK, SignalInv, StopInv, processVars, threads, http,
         flags, pending

-----------------------------------------------------------------------------
LEMMA Inductive == Spec => [](RequestsInv /\ ProcessInv)
<1>1. Init => RequestsInv /\ ProcessInv
  BY RequestsInitially, ProcessInitially DEF Init
<1>2. RequestsInv /\ ProcessInv /\ [Next]_vars => (RequestsInv /\ ProcessInv)'
  <2> SUFFICES ASSUME RequestsInv, ProcessInv, [Next]_vars
               PROVE  RequestsInv' /\ ProcessInv'
    OBVIOUS
  <2>1. CASE \E w \in Workers : TakeRequest(w)
    BY <2>1, StartKeepsRequests, MetricsKeepRequests, StutterKeepsProcess
       DEF TakeRequest, ReadRequest
  <2>2. CASE \E w \in Workers : Work(w)
    BY <2>2, MetricsKeepRequests, HandleKeepsRequests, DecrementKeepsRequests,
       CountKeepsRequests, ObserveKeepsRequests, StutterKeepsProcess DEF Work, WorkOn
  <2>3. CASE MainStep
    BY <2>3, MainKeepsProcess, StutterKeepsRequests DEF MainStep
  <2>4. CASE WaiterStep
    BY <2>4, WaiterKeepsProcess, StutterKeepsRequests DEF WaiterStep
  <2>5. CASE EnvironmentStep
    BY <2>5, EnvironmentKeepsProcess, StutterKeepsRequests DEF EnvironmentStep
  <2>6. CASE UNCHANGED vars
    BY <2>6, StutterKeepsProcess, StutterKeepsRequests DEF vars
  <2> QED
    BY <2>1, <2>2, <2>3, <2>4, <2>5, <2>6 DEF Next
<1> QED
  BY <1>1, <1>2, PTL DEF Spec

\* The variables of the requests and of the process keep their types, the gauge
\* and what is shown of it their bounds.
THEOREM ProcessTypeCorrect == Spec => []TypeOK
<1>1. RequestsInv /\ ProcessInv => TypeOK
  BY RequestsConclusions DEF TypeOK, ProcessInv
<1> QED
  BY <1>1, Inductive, PTL

\* requests_in_progress is the number of requests between the two hooks.
THEOREM GaugeIsExact == Spec => []GaugeCountsOpenRequests
<1>1. RequestsInv => GaugeCountsOpenRequests
  BY DEF RequestsInv
<1> QED
  BY <1>1, Inductive, PTL

\* The counters account for every answer, whatever its route and status.
THEOREM CountersAreExact == Spec => []AnswersAreCounted
<1>1. RequestsInv => AnswersAreCounted
  BY DEF RequestsInv
<1> QED
  BY <1>1, Inductive, PTL

\* Counters and histograms are of the same requests.
THEOREM HistogramsAgree == Spec => []DurationsFollowTotals
<1>1. RequestsInv => DurationsFollowTotals
  BY DEF RequestsInv
<1> QED
  BY <1>1, Inductive, PTL

\* The signal thread reports no signal but those from outside.
THEOREM ReportsAreReal == Spec => []ReportsOnlyRealSignals
  BY ProcessConclusions, Inductive, PTL

\* Exit code 0 means an order to stop that was carried out.
THEOREM CleanExitIsOrdered == Spec => []CleanExitIsAnOrder
  BY ProcessConclusions, Inductive, PTL

=============================================================================

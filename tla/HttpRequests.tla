---------------------------- MODULE HttpRequests ----------------------------
(***************************************************************************)
(* The worker threads of the HTTP server and the metrics they keep: the    *)
(* hook before routing counts a request as in progress, a handler answers  *)
(* it, and the hook behind it updates gauge, counter and histogram one     *)
(* after the other.  Requests for the metrics themselves are not counted.  *)
(***************************************************************************)
EXTENDS Integers, FiniteSets

CONSTANTS
  Workers,       \* the threads of the server
  MaxRequests    \* bound: the number of requests

ASSUME RequestsAssumption ==
  IsFiniteSet(Workers) /\ Workers # {} /\ MaxRequests \in Nat

Routes == {"/health", "/data/load", "/queries/:id/run", "unmatched"}
Outcomes == {"success", "client_error", "server_error"}
Statuses == {200, 400, 404, 409, 413, 415, 422, 500}

VARIABLES
  stage,       \* of each worker
  route,       \* of the request of each worker
  status,      \* of the answer of each worker, 0 before
  gauge,       \* requests_in_progress_
  totals,      \* request_totals_
  durations,   \* request_durations_: how many were observed
  shown,       \* the gauge in the last answer to a request for the metrics
  answers,     \* history: how many answers were given, by route and status
  requests     \* history: how many came

request == <<stage, route, status>>
metrics == <<gauge, totals, durations>>
requestVars == <<request, metrics, shown, answers, requests>>

\* What the handlers answer: behind their own checks of the request, what the
\* service returns or throws.
LoadStatus ==
  [unsupported_media_type |-> 415, invalid_json |-> 400, invalid_source |-> 400,
   loaded |-> 200, invalid_argument |-> 400, runtime_error |-> 422,
   exception |-> 500]
QueryStatus ==
  [invalid_query_id |-> 400, executed |-> 200, not_loaded |-> 409,
   invalid_argument |-> 404, exception |-> 500]
HealthStatus == [ok |-> 200, exception |-> 500]
UnmatchedStatus == [no_route |-> 404, too_large |-> 413]

StatusOf(r) ==
  CASE r = "/data/load" -> LoadStatus
    [] r = "/queries/:id/run" -> QueryStatus
    [] r = "/health" -> HealthStatus
    [] r = "unmatched" -> UnmatchedStatus

\* WRONG: 400 itself is left out of the client's errors.
GetHttpOutcomeAbove(s) ==
  IF s >= 200 /\ s < 400 THEN "success"
  ELSE IF s > 400 /\ s < 500 THEN "client_error"
  ELSE "server_error"

GetHttpOutcome(s) ==
  IF s >= 200 /\ s < 400 THEN "success"
  ELSE IF s >= 400 /\ s < 500 THEN "client_error"
  ELSE "server_error"

-----------------------------------------------------------------------------
RequestsInit ==
  /\ stage = [w \in Workers |-> "idle"]
  /\ route = [w \in Workers |-> "unmatched"]
  /\ status = [w \in Workers |-> 0]
  /\ gauge = 0
  /\ totals = [r \in Routes |-> [o \in Outcomes |-> 0]]
  /\ durations = [r \in Routes |-> 0]
  /\ shown = 0
  /\ answers = [r \in Routes |-> [s \in Statuses |-> 0]]
  /\ requests = 0

Move(w, from, to) == stage[w] = from /\ stage' = [stage EXCEPT ![w] = to]

\* The hook before routing.  The route is known only behind it.
HttpRequestStarted(w) ==
  /\ Move(w, "idle", "started")
  /\ requests < MaxRequests /\ requests' = requests + 1
  /\ \E r \in Routes : route' = [route EXCEPT ![w] = r]
  /\ status' = [status EXCEPT ![w] = 0]
  /\ gauge' = gauge + 1
  /\ UNCHANGED <<totals, durations, shown, answers>>

MetricsRequested(w) ==
  /\ Move(w, "idle", "unobserved")
  /\ requests < MaxRequests /\ requests' = requests + 1
  /\ status' = [status EXCEPT ![w] = 0]
  /\ UNCHANGED <<route, metrics, shown, answers>>

\* The handler of the route, or httplib where there is none.
Handle(w) ==
  /\ Move(w, "started", "answered")
  /\ \E cause \in DOMAIN StatusOf(route[w]) :
       LET s == StatusOf(route[w])[cause]
       IN /\ status' = [status EXCEPT ![w] = s]
          /\ answers' = [answers EXCEPT ![route[w]][s] = @ + 1]
  /\ UNCHANGED <<route, metrics, shown, requests>>

Serialize(w) ==
  /\ Move(w, "unobserved", "shown")
  /\ status' = [status EXCEPT ![w] = 200]
  /\ shown' = gauge
  /\ UNCHANGED <<route, metrics, answers, requests>>

\* WRONG: the hook behind routing lowers the gauge for every request.
DecrementUnobserved(w) ==
  /\ Move(w, "shown", "idle")
  /\ gauge' = gauge - 1
  /\ UNCHANGED <<route, status, totals, durations, shown, answers, requests>>

\* The hook behind routing finds no observation.
PassUnobserved(w) ==
  /\ Move(w, "shown", "idle")
  /\ UNCHANGED <<route, status, metrics, shown, answers, requests>>

\* HttpRequestFinished: three steps, between which other threads run.
\* WRONG: only requests that have a route are taken off the gauge.
DecrementMatched(w) ==
  /\ Move(w, "answered", "left")
  /\ gauge' = IF route[w] = "unmatched" THEN gauge ELSE gauge - 1
  /\ UNCHANGED <<route, status, totals, durations, shown, answers, requests>>

Decrement(w) ==
  /\ Move(w, "answered", "left")
  /\ gauge' = gauge - 1
  /\ UNCHANGED <<route, status, totals, durations, shown, answers, requests>>

Count(w) ==
  /\ Move(w, "left", "counted")
  /\ totals' = [totals EXCEPT ![route[w]][GetHttpOutcome(status[w])] = @ + 1]
  /\ UNCHANGED <<route, status, gauge, durations, shown, answers, requests>>

\* WRONG: the durations of errors are not observed.
ObserveSuccess(w) ==
  /\ Move(w, "counted", "idle")
  /\ durations' = [durations EXCEPT ![route[w]] =
       IF GetHttpOutcome(status[w]) = "success" THEN @ + 1 ELSE @]
  /\ UNCHANGED <<route, status, gauge, totals, shown, answers, requests>>

Observe(w) ==
  /\ Move(w, "counted", "idle")
  /\ durations' = [durations EXCEPT ![route[w]] = @ + 1]
  /\ UNCHANGED <<route, status, gauge, totals, shown, answers, requests>>

\* The steps of a worker that has a request.
WorkOn(w) ==
  \/ Handle(w)
  \/ Serialize(w)
  \/ PassUnobserved(w)
  \/ Decrement(w)
  \/ Count(w)
  \/ Observe(w)

ReadRequest(w) == HttpRequestStarted(w) \/ MetricsRequested(w)

-----------------------------------------------------------------------------
\* Every variable has its type; what the metrics show is never negative and
\* never more than the workers that are left beside the one that shows it.
RequestsTypeOK ==
  /\ stage \in [Workers -> {"idle", "started", "answered", "left", "counted",
                            "unobserved", "shown"}]
  /\ route \in [Workers -> Routes]
  /\ status \in [Workers -> Statuses \cup {0}]
  /\ gauge \in 0 .. Cardinality(Workers)
  /\ totals \in [Routes -> [Outcomes -> Nat]]
  /\ durations \in [Routes -> Nat]
  /\ shown \in 0 .. Cardinality(Workers) - 1
  /\ answers \in [Routes -> [Statuses -> Nat]]
  /\ requests \in 0 .. MaxRequests

\* The workers between the two hooks.
Open == {w \in Workers : stage[w] \in {"started", "answered"}}

\* The gauge is the number of requests between the two hooks, whatever their
\* route and their answer, so that it is zero when the server is idle.
GaugeCountsOpenRequests == gauge = Cardinality(Open)

\* The answers to the requests of a route by the class of their status, and the
\* workers that have given one and not counted it yet.
Class == [success |-> {200}, client_error |-> {400, 404, 409, 413, 415, 422},
          server_error |-> {500}]
AnswersOf(r, o) ==
  CASE o = "success" -> answers[r][200]
    [] o = "client_error" -> answers[r][400] + answers[r][404] + answers[r][409]
                               + answers[r][413] + answers[r][415] + answers[r][422]
    [] o = "server_error" -> answers[r][500]
Uncounted(r, o) ==
  {w \in Workers : stage[w] \in {"answered", "left"} /\ route[w] = r
                     /\ status[w] \in Class[o]}

\* Every answer is counted once, under its route and under the class of its
\* status, or is still on its way there.
AnswersAreCounted ==
  \A r \in Routes, o \in Outcomes :
    totals[r][o] + Cardinality(Uncounted(r, o)) = AnswersOf(r, o)

\* The workers that have counted an answer and not observed its duration.
Unobserved(r) == {w \in Workers : stage[w] = "counted" /\ route[w] = r}

\* Counter and histogram of a route agree on the number of its requests, but
\* for those between the two: rates and latencies are of the same requests.
DurationsFollowTotals ==
  \A r \in Routes :
    durations[r] + Cardinality(Unobserved(r))
      = totals[r]["success"] + totals[r]["client_error"] + totals[r]["server_error"]

=============================================================================

--------------------------- MODULE ServerProcess ---------------------------
(***************************************************************************)
(* The process as a whole: the requests on the worker threads of the HTTP  *)
(* server, and main and its signal thread, which stop it.  A worker takes  *)
(* a request only while the server listens, and listening is over only     *)
(* when no worker has a request left: a load or a query under way delays   *)
(* the end of the process, and is answered and counted before it.          *)
(***************************************************************************)
EXTENDS HttpRequests, Shutdown

vars == <<requestVars, processVars>>

Init == RequestsInit /\ ProcessInit

TakeRequest(w) ==
  /\ server = "running" /\ socket = "open"
  /\ ReadRequest(w)
  /\ UNCHANGED processVars

Work(w) == WorkOn(w) /\ UNCHANGED processVars

AllIdle == \A w \in Workers : stage[w] = "idle"

\* However listening ends, its workers are joined before.
JoinsWorkers == listen_result' # listen_result => AllIdle

MainStep == Main /\ JoinsWorkers /\ UNCHANGED requestVars

WaiterStep == Waiter /\ UNCHANGED requestVars

EnvironmentStep == Environment /\ JoinsWorkers /\ UNCHANGED requestVars

Next ==
  \/ \E w \in Workers : TakeRequest(w)
  \/ \E w \in Workers : Work(w)
  \/ MainStep
  \/ WaiterStep
  \/ EnvironmentStep

\* Every thread runs: the scheduler lets none of them wait for ever.  Nothing
\* is assumed of clients, signals, the network and failures.
Fairness == WF_vars(MainStep) /\ WF_vars(WaiterStep)
              /\ \A w \in Workers : WF_vars(Work(w))

Spec == Init /\ [][Next]_vars /\ Fairness

-----------------------------------------------------------------------------
\* The variables of both parts have their types.
TypeOK == RequestsTypeOK /\ ProcessTypeOK

=============================================================================

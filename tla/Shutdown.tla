------------------------------ MODULE Shutdown ------------------------------
(***************************************************************************)
(* How the process starts and ends: main listens, a second thread waits    *)
(* for SIGINT or SIGTERM and stops the server, and main, once listening is *)
(* over for whatever reason, wakes that thread with a flag and a signal of *)
(* its own, and joins it.                                                  *)
(***************************************************************************)
EXTENDS Naturals

CONSTANTS
  ListenMayThrow,   \* whether listening may end by an exception
  WaitMayFail       \* whether sigwait may fail

ASSUME ShutdownAssumption ==
  ListenMayThrow \in BOOLEAN /\ WaitMayFail \in BOOLEAN

VARIABLES
  main,                \* where main is
  waiter,              \* where shutdown_thread is
  server,              \* "bound", "running", "decommissioned" or "over"
  socket,              \* of the server: "open", "closed" by Stop, or "broken"
  cancel_signal_wait,
  signal_wait_error,
  to_process,          \* a signal is pending for the process
  to_waiter,           \* a signal is pending for shutdown_thread
  listen_result,       \* "none", or how listening ended
  asked,               \* history: a signal came from outside
  reported,            \* history: shutdown_thread has reported a signal
  exit                 \* "none", or how the process ended

threads == <<main, waiter>>
http == <<server, socket>>
flags == <<cancel_signal_wait, signal_wait_error>>
pending == <<to_process, to_waiter>>
processVars == <<threads, http, flags, pending, listen_result, asked, reported, exit>>

ProcessInit ==
  /\ main = "start" /\ waiter = "none"
  /\ server = "bound" /\ socket = "open"
  /\ cancel_signal_wait = FALSE /\ signal_wait_error = FALSE
  /\ to_process = FALSE /\ to_waiter = FALSE
  /\ listen_result = "none"
  /\ asked = FALSE /\ reported = FALSE
  /\ exit = "none"

Step(thread, from, to) == thread = from /\ thread' = to

-----------------------------------------------------------------------------
\* SIGINT or SIGTERM from outside.  Once main has blocked them, they wait for
\* a sigwait: the mask is inherited by all threads.
Signal ==
  /\ exit = "none" /\ main # "start"
  /\ to_process' = TRUE
  /\ asked' = TRUE
  /\ UNCHANGED <<threads, http, flags, to_waiter, listen_result, reported, exit>>

Killed ==
  /\ Step(main, "start", "exited")
  /\ exit' = "killed"
  /\ UNCHANGED <<waiter, http, flags, pending, listen_result, asked, reported>>

\* The error of select or accept: listening ends, and the server knows it.
NetworkError ==
  /\ server = "running" /\ socket = "open"
  /\ socket' = "broken"
  /\ UNCHANGED <<threads, server, flags, pending, listen_result, asked, reported, exit>>

-----------------------------------------------------------------------------
BlockShutdownSignals ==
  /\ Step(main, "start", "bind")
  /\ UNCHANGED <<waiter, http, flags, pending, listen_result, asked, reported, exit>>

BindToPort ==
  /\ Step(main, "bind", "spawn")
  /\ UNCHANGED <<waiter, http, flags, pending, listen_result, asked, reported, exit>>

BindFails ==
  /\ Step(main, "bind", "exited")
  /\ exit' = "failure"
  /\ UNCHANGED <<waiter, http, flags, pending, listen_result, asked, reported>>

SpawnThread ==
  /\ Step(main, "spawn", "listen")
  /\ Step(waiter, "none", "sigwait")
  /\ UNCHANGED <<http, flags, pending, listen_result, asked, reported, exit>>

ListenAfterBind ==
  /\ Step(main, "listen", "serve")
  /\ server' = "running"
  /\ UNCHANGED <<waiter, socket, flags, pending, listen_result, asked, reported, exit>>

\* Listening ends when its socket is closed or broken.
ListenReturns ==
  /\ Step(main, "serve", "cancel")
  /\ \/ socket = "closed" /\ listen_result' = "success" /\ server' = "over"
     \/ socket = "broken" /\ listen_result' = "failure" /\ server' = "decommissioned"
  /\ UNCHANGED <<waiter, socket, flags, pending, asked, reported, exit>>

\* The catch clause takes the same steps, and throws again behind them.
ListenThrows ==
  /\ ListenMayThrow
  /\ Step(main, "serve", "cancel")
  /\ listen_result' = "exception" /\ server' = "over"
  /\ UNCHANGED <<waiter, socket, flags, pending, asked, reported, exit>>

\* WRONG: the thread is woken before the flag is set.
KillBeforeCancel ==
  /\ Step(main, "cancel", "kill")
  /\ to_waiter' = TRUE
  /\ UNCHANGED <<waiter, http, flags, to_process, listen_result, asked, reported, exit>>

CancelWait ==
  /\ Step(main, "cancel", "kill")
  /\ cancel_signal_wait' = TRUE
  /\ UNCHANGED <<waiter, http, signal_wait_error, pending, listen_result, asked,
                 reported, exit>>

\* WRONG: the thread is expected to see the flag by itself.
NoKill ==
  /\ Step(main, "kill", "join")
  /\ UNCHANGED <<waiter, http, flags, pending, listen_result, asked, reported, exit>>

KillThread ==
  /\ Step(main, "kill", "join")
  /\ to_waiter' = (waiter # "done")
  /\ UNCHANGED <<waiter, http, flags, to_process, listen_result, asked, reported, exit>>

\* WRONG: the result of listening is not looked at.
ExitCodeOfWait == IF signal_wait_error THEN "failure" ELSE "success"

ExitCode ==
  IF signal_wait_error \/ listen_result # "success" THEN "failure" ELSE "success"

Join ==
  /\ waiter = "done"
  /\ Step(main, "join", "exited")
  /\ exit' = ExitCode
  /\ UNCHANGED <<waiter, http, flags, pending, listen_result, asked, reported>>

-----------------------------------------------------------------------------
\* One of the pending signals is taken.
SigWait ==
  /\ Step(waiter, "sigwait", "check")
  /\ \/ to_process /\ to_process' = FALSE /\ UNCHANGED to_waiter
     \/ to_waiter /\ to_waiter' = FALSE /\ UNCHANGED to_process
  /\ UNCHANGED <<main, http, flags, listen_result, asked, reported, exit>>

SigWaitFails ==
  /\ WaitMayFail
  /\ Step(waiter, "sigwait", "wait")
  /\ signal_wait_error' = TRUE
  /\ UNCHANGED <<main, http, cancel_signal_wait, pending, listen_result, asked,
                 reported, exit>>

Cancelled ==
  /\ cancel_signal_wait
  /\ Step(waiter, "check", "done")
  /\ UNCHANGED <<main, http, flags, pending, listen_result, asked, reported, exit>>

ReportSignal ==
  /\ ~cancel_signal_wait
  /\ Step(waiter, "check", "wait")
  /\ reported' = TRUE
  /\ UNCHANGED <<main, http, flags, pending, listen_result, asked, exit>>

\* WRONG: the thread stops a server that is not there yet.
StopAtOnce ==
  /\ Step(waiter, "wait", "stop")
  /\ UNCHANGED <<main, http, flags, pending, listen_result, asked, reported, exit>>

\* The thread sleeps until the server runs, or will not run any more.
WaitUntilReady ==
  /\ server \in {"running", "decommissioned"}
  /\ Step(waiter, "wait", "stop")
  /\ UNCHANGED <<main, http, flags, pending, listen_result, asked, reported, exit>>

Stop ==
  /\ Step(waiter, "stop", "done")
  /\ socket' = IF server = "running" /\ socket = "open" THEN "closed" ELSE socket
  /\ server' = IF server = "decommissioned" THEN "over" ELSE server
  /\ UNCHANGED <<main, flags, pending, listen_result, asked, reported, exit>>

-----------------------------------------------------------------------------
Main ==
  \/ BlockShutdownSignals
  \/ BindToPort
  \/ BindFails
  \/ SpawnThread
  \/ ListenAfterBind
  \/ ListenReturns
  \/ CancelWait
  \/ KillThread
  \/ Join

Waiter ==
  \/ SigWait
  \/ Cancelled
  \/ ReportSignal
  \/ WaitUntilReady
  \/ Stop

\* What may happen to the threads, or never.
Environment ==
  \/ Signal
  \/ Killed
  \/ NetworkError
  \/ ListenThrows
  \/ SigWaitFails

-----------------------------------------------------------------------------
\* Every variable has its type, and the process has an exit code at its end.
ProcessTypeOK ==
  /\ main \in {"start", "bind", "spawn", "listen", "serve", "cancel", "kill",
               "join", "exited"}
  /\ waiter \in {"none", "sigwait", "check", "wait", "stop", "done"}
  /\ server \in {"bound", "running", "decommissioned", "over"}
  /\ socket \in {"open", "closed", "broken"}
  /\ cancel_signal_wait \in BOOLEAN /\ signal_wait_error \in BOOLEAN
  /\ to_process \in BOOLEAN /\ to_waiter \in BOOLEAN
  /\ asked \in BOOLEAN /\ reported \in BOOLEAN
  /\ listen_result \in {"none", "success", "failure", "exception"}
  /\ exit \in {"none", "success", "failure", "killed"}
  /\ (main = "exited") <=> (exit # "none")

\* The thread reports a shutdown signal only if one came from outside: the
\* signal by which main wakes it is never taken for one.
ReportsOnlyRealSignals == reported => asked

\* The process ends with code 0 only if it was asked to and listening ended by
\* Stop; whoever starts it again tells an order from a network error by this.
CleanExitIsAnOrder == exit = "success" => asked /\ reported /\ socket = "closed"

\* main waits for a thread that waits for a server that will not run any more:
\* listening ended by an exception after the thread had left sigwait.
Stranded == listen_result = "exception" /\ waiter = "wait"

\* A signal from outside ends the process, at whatever moment it comes.
SignalStopsService == asked ~> main = "exited" \/ Stranded

\* So does the failure of the network, without any signal.
FailureEndsProcess == socket = "broken" ~> main = "exited" \/ Stranded

=============================================================================

------------------------------- MODULE Dates -------------------------------
(***************************************************************************)
(* FormatDate and FormatTimestamp on several threads.  std::localtime      *)
(* fills one std::tm that the whole process shares, under a lock of its    *)
(* own, and returns a pointer to it; the caller copies the fields behind   *)
(* the lock.  Queries and loads format dates on the worker threads of the  *)
(* HTTP server: cells, group keys, results, and the statistics of a group. *)
(***************************************************************************)
EXTENDS Integers

CONSTANTS
  Threads,
  Fields,      \* the fields of std::tm that the format shows
  Values,      \* of a field
  MaxCalls,    \* bound: the calls of each thread
  Nobody       \* holds the lock of localtime

Date == [Fields -> Values]

VARIABLES
  tm,       \* the std::tm of localtime
  lock,     \* the thread that fills it
  stage,    \* of each thread
  value,    \* what each thread formats
  rest,     \* the fields that it has still to fill or to copy
  local,    \* its copy of the std::tm
  calls

vars == <<tm, lock, stage, value, rest, local, calls>>

Init ==
  /\ tm \in Date
  /\ lock = Nobody
  /\ stage = [t \in Threads |-> "idle"]
  /\ value = [t \in Threads |-> tm]
  /\ rest = [t \in Threads |-> {}]
  /\ local = [t \in Threads |-> tm]
  /\ calls = [t \in Threads |-> 0]

Move(t, from, to) == stage[t] = from /\ stage' = [stage EXCEPT ![t] = to]

-----------------------------------------------------------------------------
FormatDate(t) ==
  /\ stage[t] \in {"idle", "done"} /\ stage' = [stage EXCEPT ![t] = "called"]
  /\ calls[t] < MaxCalls /\ calls' = [calls EXCEPT ![t] = @ + 1]
  /\ \E d \in Date : value' = [value EXCEPT ![t] = d]
  /\ UNCHANGED <<tm, lock, rest, local>>

EnterLocaltime(t) ==
  /\ Move(t, "called", "fill")
  /\ lock = Nobody /\ lock' = t
  /\ rest' = [rest EXCEPT ![t] = Fields]
  /\ UNCHANGED <<tm, value, local, calls>>

FillField(t) ==
  /\ stage[t] = "fill"
  /\ \E f \in rest[t] :
       /\ tm' = [tm EXCEPT ![f] = value[t][f]]
       /\ rest' = [rest EXCEPT ![t] = @ \ {f}]
  /\ UNCHANGED <<lock, stage, value, local, calls>>

LeaveLocaltime(t) ==
  /\ rest[t] = {}
  /\ Move(t, "fill", "copy")
  /\ lock' = Nobody
  /\ rest' = [rest EXCEPT ![t] = Fields]
  /\ UNCHANGED <<tm, value, local, calls>>

CopyField(t) ==
  /\ stage[t] = "copy"
  /\ \E f \in rest[t] :
       /\ local' = [local EXCEPT ![t][f] = tm[f]]
       /\ rest' = [rest EXCEPT ![t] = @ \ {f}]
  /\ UNCHANGED <<tm, lock, stage, value, calls>>

Return(t) ==
  /\ rest[t] = {}
  /\ Move(t, "copy", "done")
  /\ UNCHANGED <<tm, lock, value, rest, local, calls>>

Next == \E t \in Threads :
  \/ FormatDate(t)
  \/ EnterLocaltime(t)
  \/ FillField(t)
  \/ LeaveLocaltime(t)
  \/ CopyField(t)
  \/ Return(t)

Spec == Init /\ [][Next]_vars

-----------------------------------------------------------------------------
\* What FormatDate returns is the date that it was given, whatever was
\* formatted before and whoever else formats a date.
FormatDateIsExact == \A t \in Threads : stage[t] = "done" => local[t] = value[t]

=============================================================================

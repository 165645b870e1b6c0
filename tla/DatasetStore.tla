---------------------------- MODULE DatasetStore ----------------------------
(***************************************************************************)
(* What the benchmark service promises about its dataset, with no files,   *)
(* no mutex and no program counters.  There is one current dataset.  A     *)
(* client calls; at one instant between its call and its return the        *)
(* operation takes effect: a load replaces the dataset as a whole or       *)
(* leaves it alone, a query reads it as a whole, and the answer says       *)
(* which of these happened.  The process may die at any time: it forgets   *)
(* the pending calls and keeps the dataset.                                *)
(***************************************************************************)
CONSTANTS
  Client,       \* those who may have one call pending each
  Dataset,      \* every dataset a load may ever produce
  NoDataset,    \* the store before its first load; not a Dataset
  Error         \* the ways an operation may fail without any effect

VARIABLES
  current,      \* the dataset that queries read
  phase,        \* of each client: "idle", "called" or "answered"
  answer        \* of each client that is "answered": what it will be told

vars == <<current, phase, answer>>

NoAnswer == [kind |-> "none"]

Answer ==
       [kind : {"loaded"}, file : Dataset]
  \cup [kind : {"rows"}, file : Dataset]
  \cup [kind : {"health"}, loaded : BOOLEAN]
  \cup [kind : {"not_loaded"}]
  \cup [kind : {"error"}, error : Error]

TypeOK ==
  /\ current \in Dataset \cup {NoDataset}
  /\ phase \in [Client -> {"idle", "called", "answered"}]
  /\ answer \in [Client -> Answer \cup {NoAnswer}]

Init ==
  /\ current \in Dataset \cup {NoDataset}
  /\ phase = [c \in Client |-> "idle"]
  /\ answer = [c \in Client |-> NoAnswer]

Call(c) ==
  /\ phase[c] = "idle"
  /\ phase' = [phase EXCEPT ![c] = "called"]
  /\ UNCHANGED <<current, answer>>

\* The operation of client c takes effect, and what it will return is fixed.
TakeEffect(c, a) ==
  /\ phase[c] = "called"
  /\ phase' = [phase EXCEPT ![c] = "answered"]
  /\ answer' = [answer EXCEPT ![c] = a]

Load(c, d) ==
  /\ TakeEffect(c, [kind |-> "loaded", file |-> d])
  /\ d # current
  /\ current' = d

Query(c) ==
  /\ current # NoDataset
  /\ TakeEffect(c, [kind |-> "rows", file |-> current])
  /\ UNCHANGED current

Refuse(c) ==
  /\ current = NoDataset
  /\ TakeEffect(c, [kind |-> "not_loaded"])
  /\ UNCHANGED current

Health(c) ==
  /\ TakeEffect(c, [kind |-> "health", loaded |-> current # NoDataset])
  /\ UNCHANGED current

Fail(c, e) ==
  /\ TakeEffect(c, [kind |-> "error", error |-> e])
  /\ UNCHANGED current

Return(c) ==
  /\ phase[c] = "answered"
  /\ phase' = [phase EXCEPT ![c] = "idle"]
  /\ answer' = [answer EXCEPT ![c] = NoAnswer]
  /\ UNCHANGED current

Restart ==
  /\ phase' = [c \in Client |-> "idle"]
  /\ answer' = [c \in Client |-> NoAnswer]
  /\ UNCHANGED current

Step(c) ==
  \/ Call(c)
  \/ \E d \in Dataset : Load(c, d)
  \/ Query(c)
  \/ Refuse(c)
  \/ Health(c)
  \/ \E e \in Error : Fail(c, e)
  \/ Return(c)

Next == Restart \/ \E c \in Client : Step(c)

Spec == Init /\ [][Next]_vars

=============================================================================

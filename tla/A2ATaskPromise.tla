--------------------------- MODULE A2ATaskPromise ---------------------------
(***************************************************************************)
(* What the A2A task store promises, whatever interleaving, replica or     *)
(* restart produced its content: a message of a principal belongs to one   *)
(* task; a task keeps its owner; a terminal task never changes again; an   *)
(* execution pushes its artifact once, and a canceled one pushes none.     *)
(* A2AMemoryStore and A2AFileStore implement this module.                  *)
(***************************************************************************)
EXTENDS A2ATasks

VARIABLE store

\* How one handler may leave the task of an execution: still working, ended
\* with the artifact its outcome carries, or canceled.
Ended(artifacts, task) ==
  \/ task.state = "WORKING"                 /\ task.artifacts = artifacts
  \/ task.state \in {"COMPLETED", "REJECTED"} /\ task.artifacts = artifacts + 1
  \/ task.state = "FAILED"                  /\ task.artifacts = artifacts

\* Task t is new in `to`: it holds one message, and that message had no task.
Created(from, to, t) ==
  \E p \in Principal, m \in MessageId :
    /\ from[t] = None
    /\ Indexed(from, p, m) = {}
    /\ to[t] \in StoredTask
    /\ to[t].owner = p /\ to[t].history = {m}
    /\ Ended(0, to[t])

\* A message without a task joins the open, idle task t.
Continued(from, to, t) ==
  \E m \in MessageId :
    /\ from[t] # None
    /\ from[t].state \notin TERMINAL_TASK_STATES \cup {"WORKING"}
    /\ Indexed(from, from[t].owner, m) = {}
    /\ to[t] \in StoredTask
    /\ to[t].owner = from[t].owner /\ to[t].history = from[t].history \cup {m}
    /\ Ended(from[t].artifacts, to[t])

\* The working task t ends, with the artifact of its execution.
Settled(from, to, t) ==
  /\ from[t] # None
  /\ from[t].state = "WORKING"
  /\ to[t] \in StoredTask
  /\ to[t].owner = from[t].owner /\ to[t].history = from[t].history
  /\ Ended(from[t].artifacts, to[t])

\* The open task t is canceled; nothing else of it changes.
Canceled(from, to, t) ==
  /\ from[t] # None
  /\ from[t].state \notin TERMINAL_TASK_STATES
  /\ to[t] = [from[t] EXCEPT !.state = "CANCELED"]

\* One handler changes at most one task.
Promised(from, to) ==
  \E t \in TaskId :
    /\ to = [from EXCEPT ![t] = to[t]]
    /\ \/ Created(from, to, t)
       \/ Continued(from, to, t)
       \/ Settled(from, to, t)
       \/ Canceled(from, to, t)

\* A store starts empty or with open tasks another producer of the snapshot
\* format wrote, one message to a task.
Init ==
  /\ store \in Store
  /\ \A t \in TaskId : store[t] # None =>
       /\ store[t].state \notin TERMINAL_TASK_STATES \cup {"WORKING"}
       /\ \A m \in store[t].history : Indexed(store, store[t].owner, m) = {t}

Next == Promised(store, store')

Spec == Init /\ [][Next]_store
=============================================================================

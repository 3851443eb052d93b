--------------------------- MODULE A2AMemoryStore ---------------------------
(***************************************************************************)
(* The A2A task store without T2C_A2A_TASK_STORE: one process, the module- *)
(* level map `tasks`, no lock.  A handler runs without interruption up to  *)
(* the await of executeAction, and other calls run while it awaits.        *)
(***************************************************************************)
EXTENDS A2ATasks

CONSTANTS Requests        \* the requests clients make in this instance

ASSUME RequestsAssumption == Requests \subseteq Request

VARIABLES tasks,    \* the map `tasks`
          request,  \* the request of each call, None before it arrives
          phase,    \* where each call is
          reply,    \* what the client of each call was told
          started   \* (principal, message) -> executions started for it

vars == <<tasks, request, phase, reply, started>>

\* "awaiting": executeMessage awaits the action and the client awaits its
\* reply; "scheduled" and "background": the client has its reply and the
\* execution waits in setImmediate, or awaits the action.
Phase == {"idle", "awaiting", "scheduled", "background", "done"}

Key == Principal \X MessageId

TypeOK ==
  /\ tasks \in Store
  /\ request \in [Call -> Requests \cup {None}]
  /\ phase \in [Call -> Phase]
  /\ reply \in [Call -> Reply]
  /\ started \in [Key -> Nat]

Init ==
  /\ tasks = EmptyStore
  /\ request = [c \in Call |-> None]
  /\ phase = [c \in Call |-> "idle"]
  /\ reply = [c \in Call |-> None]
  /\ started = [k \in Key |-> 0]

-----------------------------------------------------------------------------
Answer(c, view) == reply' = [reply EXCEPT ![c] = view]

Goto(c, where) == phase' = [phase EXCEPT ![c] = where]

Start(r) == started' = [started EXCEPT ![<<r.principal, r.message>>] = @ + 1]

Arrive(c, r, methods) ==
  /\ phase[c] = "idle"
  /\ r.method \in methods
  /\ request' = [request EXCEPT ![c] = r]

\* Mutant: the index is not asked.
Fresh_Unindexed(r) == r.task = None \/ Continuable(tasks, r)

\* prepareTask goes on to execute: the message has no task and is not refused.
Fresh(r) == Indexed(tasks, r.principal, r.message) = {} /\ ~Refused(tasks, r)

\* SendMessage of a message that has a task already: the task is returned and
\* nothing is executed.
SendKnown(c, r) ==
  /\ Arrive(c, r, {"SendMessage"})
  /\ \E t \in Indexed(tasks, r.principal, r.message) : Answer(c, taskView(tasks, t))
  /\ Goto(c, "done")
  /\ UNCHANGED <<tasks, started>>

\* prepareTask throws: the client gets the error and nothing changes.
SendRefused(c, r) ==
  /\ Arrive(c, r, {"SendMessage"})
  /\ Refused(tasks, r)
  /\ Answer(c, Error)
  /\ Goto(c, "done")
  /\ UNCHANGED <<tasks, started>>

\* A new task, or a new message of an open one, executed while the client waits.
SendAndWait(c, r) ==
  /\ Arrive(c, r, {"SendMessage"})
  /\ ~r.returnImmediately
  /\ Fresh(r)
  /\ tasks' = prepareTask(tasks, c, r)
  /\ Start(r)
  /\ Goto(c, "awaiting")
  /\ UNCHANGED reply

\* Mutant: the execution is not scheduled.
SendAndReturn_Unscheduled(c, r) ==
  /\ Arrive(c, r, {"SendMessage"})
  /\ r.returnImmediately
  /\ Fresh(r)
  /\ tasks' = prepareTask(tasks, c, r)
  /\ Answer(c, taskView(tasks', Target(c, r)))
  /\ Goto(c, "done")
  /\ UNCHANGED started

\* With returnImmediately the client gets the working task at once and
\* scheduleTaskExecution queues the execution.
SendAndReturn(c, r) ==
  /\ Arrive(c, r, {"SendMessage"})
  /\ r.returnImmediately
  /\ Fresh(r)
  /\ tasks' = prepareTask(tasks, c, r)
  /\ Answer(c, taskView(tasks', Target(c, r)))
  /\ Goto(c, "scheduled")
  /\ UNCHANGED started

\* The setImmediate callback: executeMessage returns at once when the task has
\* left WORKING meanwhile.
RunScheduled(c) ==
  /\ phase[c] = "scheduled"
  /\ IF tasks[Target(c, request[c])].state = "WORKING"
       THEN Goto(c, "background") /\ Start(request[c])
       ELSE Goto(c, "done") /\ UNCHANGED started
  /\ UNCHANGED <<tasks, request, reply>>

\* The awaited action returns or throws.
Finish(c, outcome) ==
  /\ phase[c] \in {"awaiting", "background"}
  /\ tasks' = settle(tasks, Target(c, request[c]), outcome)
  /\ IF phase[c] = "awaiting"
       THEN Answer(c, taskView(tasks', Target(c, request[c])))
       ELSE UNCHANGED reply
  /\ Goto(c, "done")
  /\ UNCHANGED <<request, started>>

Get(c, r) ==
  /\ Arrive(c, r, {"GetTask"})
  /\ Answer(c, IF Owns(tasks, r.task, r.principal) THEN taskView(tasks, r.task) ELSE Error)
  /\ Goto(c, "done")
  /\ UNCHANGED <<tasks, started>>

Cancel(c, r) ==
  /\ Arrive(c, r, {"CancelTask"})
  /\ Cancelable(tasks, r)
  /\ tasks' = cancelTask(tasks, r.task)
  /\ Answer(c, taskView(tasks', r.task))
  /\ Goto(c, "done")
  /\ UNCHANGED started

\* Unknown or another principal's task (-32001), or a task that ended (-32002).
CancelRefused(c, r) ==
  /\ Arrive(c, r, {"CancelTask"})
  /\ ~Cancelable(tasks, r)
  /\ Answer(c, Error)
  /\ Goto(c, "done")
  /\ UNCHANGED <<tasks, started>>

\* Nothing runs.
Idle == (\A c \in Call : phase[c] \in {"idle", "done"}) /\ UNCHANGED vars

Next ==
  \/ \E c \in Call :
       \/ \E r \in Requests :
            \/ SendKnown(c, r)   \/ SendRefused(c, r) \/ SendAndWait(c, r)
            \/ SendAndReturn(c, r) \/ Get(c, r) \/ Cancel(c, r) \/ CancelRefused(c, r)
       \/ RunScheduled(c)
       \/ \E outcome \in Outcomes : Finish(c, outcome)
  \/ Idle

\* setImmediate callbacks run, and actions end (executeAction resolves or throws).
Fairness ==
  \A c \in Call : /\ WF_vars(RunScheduled(c))
                  /\ WF_vars(\E outcome \in Outcomes : Finish(c, outcome))

Spec == Init /\ [][Next]_vars /\ Fairness

-----------------------------------------------------------------------------
(* Properties *)

\* A message gets one task and is executed at most once per principal, however
\* often it is sent and whatever runs at the await.
ExecutedOnce ==
  \A p \in Principal, m \in MessageId :
    /\ Cardinality(Indexed(tasks, p, m)) <= 1
    /\ started[<<p, m>>] <= Cardinality(Indexed(tasks, p, m))

\* A client that was told a task is over was told the truth for good: the state
\* it saw is the state of its own task from then on (the check for CANCELED
\* after the await in executeMessage).
AnswerStands ==
  \A c \in Call : reply[c] \notin {None, Error} =>
    /\ Owns(tasks, reply[c].task, request[c].principal)
    /\ reply[c].state \in TERMINAL_TASK_STATES => tasks[reply[c].task].state = reply[c].state

\* The map only ever changes as A2ATaskPromise says: a cancellation wins over a
\* result that comes later, and an execution pushes one artifact.
Promise == INSTANCE A2ATaskPromise WITH store <- tasks
PromiseKept == Promise!Spec

\* Every task is settled in the end, and every client that waits is answered.
TasksSettle ==
  /\ \A t \in TaskId : InState(tasks, t, {"WORKING"})
                          ~> InState(tasks, t, TERMINAL_TASK_STATES)
  /\ \A c \in Call : phase[c] = "awaiting" ~> reply[c] # None
=============================================================================

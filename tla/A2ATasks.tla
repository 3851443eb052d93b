------------------------------ MODULE A2ATasks ------------------------------
(***************************************************************************)
(* The task records of the A2A interface (interfaces/a2a-task-store.ts):   *)
(* what a stored task is and what the request handlers do to one.  The     *)
(* modules A2AMemoryStore and A2AFileStore interleave these operations.    *)
(*                                                                         *)
(* Message parts, artifact bodies, contexts and timestamps are left out: a *)
(* task is its owner, its state, the ids of the user messages in its       *)
(* history and the number of artifacts its executions have pushed.  The    *)
(* index messageTaskIndex always holds exactly the user messages of the    *)
(* tasks in the map (createTask, continueTask and restoreTask keep it so), *)
(* so it is not a separate piece of state.                                 *)
(***************************************************************************)
EXTENDS Integers, FiniteSets

CONSTANTS Principal,  \* hashed bearer tokens, or "public"
          MessageId,  \* the message ids clients choose
          Call,       \* calls of the JSON-RPC endpoint
          None        \* absence: of a task, of a taskId, of a reply

\* A call creates at most one task, so the randomUUID of a task is the call.
TaskId == Call

TASK_STATES == {"SUBMITTED", "WORKING", "COMPLETED", "FAILED", "CANCELED",
                "INPUT_REQUIRED", "REJECTED", "AUTH_REQUIRED"}

TERMINAL_TASK_STATES == {"COMPLETED", "FAILED", "CANCELED", "REJECTED"}

StoredTask == [owner     : Principal,
               state     : TASK_STATES,
               history   : SUBSET MessageId,
               artifacts : Nat]

\* The map `tasks`, and the snapshot: an id without a task is mapped to None.
Store == [TaskId -> StoredTask \cup {None}]

EmptyStore == [t \in TaskId |-> None]

\* `context`: does message.contextId agree with the context of the task?
Request ==
  [method : {"SendMessage"}, principal : Principal, message : MessageId,
   task : TaskId \cup {None}, context : BOOLEAN, returnImmediately : BOOLEAN]
    \cup
  [method : {"GetTask", "CancelTask"}, principal : Principal, task : TaskId]

NoneAssumption == /\ None \notin StoredTask
                  /\ None \notin TaskId
                  /\ None \notin Request
ASSUME NoneAssumption

-----------------------------------------------------------------------------
(* Lookup *)

InState(store, t, states) == store[t] # None /\ store[t].state \in states

Owns(store, t, p) == store[t] # None /\ store[t].owner = p

\* taskForMessage: the tasks the index can name for (principal, messageId).
Indexed(store, p, m) == {t \in TaskId : Owns(store, t, p) /\ m \in store[t].history}

\* continueTask accepts the message: the task is the caller's, in the context
\* the message names, and neither terminal nor working.
Continuable(store, r) ==
  /\ r.task # None
  /\ Owns(store, r.task, r.principal)
  /\ r.context
  /\ store[r.task].state \notin TERMINAL_TASK_STATES \cup {"WORKING"}

\* prepareTask throws: -32001, -32602 or -32004 from continueTask.
Refused(store, r) ==
  /\ Indexed(store, r.principal, r.message) = {}
  /\ r.task # None
  /\ ~Continuable(store, r)

\* The task a SendMessage call executes when prepareTask says shouldExecute.
Target(c, r) == IF r.task = None THEN c ELSE r.task

-----------------------------------------------------------------------------
(* Updates *)

createTask(store, c, r) ==
  [store EXCEPT ![c] = [owner |-> r.principal, state |-> "WORKING",
                        history |-> {r.message}, artifacts |-> 0]]

continueTask(store, r) ==
  [store EXCEPT ![r.task].history = @ \cup {r.message},
                ![r.task].state = "WORKING"]

\* prepareTask, of a message that is neither indexed nor refused.
prepareTask(store, c, r) ==
  IF r.task = None THEN createTask(store, c, r) ELSE continueTask(store, r)

\* Mutant: the result is stored without a look at the state after the await.
settle_Unchecked(store, t, outcome) ==
  [store EXCEPT ![t].state = outcome,
                ![t].artifacts = @ + (IF outcome = "FAILED" THEN 0 ELSE 1)]

\* Mutant: a failed execution leaves an artifact too.
settle_FailedArtifact(store, t, outcome) ==
  IF store[t].state = "CANCELED" THEN store
  ELSE [store EXCEPT ![t].state = outcome, ![t].artifacts = @ + 1]

\* The code after the await in executeMessage: a task canceled meanwhile keeps
\* its state, otherwise completeTask, rejectTask or failTask ends it; the first
\* two push an artifact.
settle(store, t, outcome) ==
  IF store[t].state = "CANCELED" THEN store
  ELSE [store EXCEPT ![t].state = outcome,
                     ![t].artifacts = @ + (IF outcome = "FAILED" THEN 0 ELSE 1)]

\* Mutant: a task that ended may be canceled.
Cancelable_Ended(store, r) == Owns(store, r.task, r.principal)

\* cancelTask, of an owned task that is canceled already or still open.
Cancelable(store, r) ==
  /\ Owns(store, r.task, r.principal)
  /\ store[r.task].state \notin TERMINAL_TASK_STATES \ {"CANCELED"}

\* Mutant: another spelling of the state.
cancelTask_Misspelt(store, t) == [store EXCEPT ![t].state = "CANCELLED"]

cancelTask(store, t) == [store EXCEPT ![t].state = "CANCELED"]

Outcomes == {"COMPLETED", "REJECTED", "FAILED"}

-----------------------------------------------------------------------------
(* Replies *)

\* What a reply tells the client of a task (taskView).
View == [task : TaskId, state : TASK_STATES]

taskView(store, t) == [task |-> t, state |-> store[t].state]

\* The JSON-RPC error response.
Error == [task |-> None, state |-> "ERROR"]

Reply == View \cup {None, Error}
=============================================================================

---------------------------- MODULE A2AFileStore ----------------------------
(***************************************************************************)
(* The A2A task store with T2C_A2A_TASK_STORE: replicas share a snapshot   *)
(* file and a lock directory beside it.  withTaskStore takes the lock,     *)
(* loads the snapshot into the map of the process, runs the handler and    *)
(* the awaited action, writes the snapshot and removes the lock.  An       *)
(* execution of returnImmediately is a second transaction, a job, in the   *)
(* same process.  A lock directory older than thirty minutes is removed by *)
(* any waiter; a process may crash and come back at any point.             *)
(***************************************************************************)
EXTENDS A2ATasks

CONSTANTS Requests,       \* the requests clients make in this instance
          Replica,        \* the processes that serve calls
          ForeignStates,  \* states of a task in a snapshot this code did not write
          Faults,         \* what may go wrong in this instance
          MaxCrashes      \* bound on the number of crashes

\* "crash": a process stops.  "timeout": a waiter gives up after five minutes.
\* "unsaved": reading or writing the snapshot fails.  "stale": a lock whose holder is gone
\* ages beyond thirty minutes.  "slow": so does one whose holder still runs.
FaultKinds == {"crash", "timeout", "unsaved", "stale", "slow"}

\* The two transactions of a call: answering the request, and the job that
\* scheduleTaskExecution starts.
Actor == Call \X {"rpc", "job"}

rpc(c) == <<c, "rpc">>
job(c) == <<c, "job">>

StoreAssumption ==
  /\ Requests \subseteq Request
  /\ ForeignStates \subseteq {"SUBMITTED", "INPUT_REQUIRED", "AUTH_REQUIRED"}
  /\ Faults \subseteq FaultKinds
  /\ MaxCrashes \in Nat
  /\ None \notin Replica \cup Actor
ASSUME StoreAssumption

VARIABLES disk,     \* the snapshot file
          lock,     \* the actor that made the lock directory, None without one
          aged,     \* is the lock directory older than thirty minutes
          tasks,    \* the map `tasks` of each replica
          request,  \* the request of each call, None before it arrives
          home,     \* the replica that serves each call, None before it arrives
          phase,    \* where each actor is
          detached, \* executing actors whose task object left the map
          reply,    \* the result of each call, delivered when its rpc is done
          started,  \* (principal, message) -> executions started for it
          crashes   \* crashes so far

vars == <<disk, lock, aged, tasks, request, home, phase, detached, reply, started, crashes>>

\* In the order withTaskStore goes through them; "stat" is between the stat
\* and the rmdir of removeStaleLock.
Phase == {"idle", "acquire", "stat", "load", "execute", "save", "release", "done", "dead"}

\* Inside the lock, by the code's own account.
Holding == {"load", "execute", "save", "release"}

Key == Principal \X MessageId

TypeOK ==
  /\ disk \in Store
  /\ lock \in Actor \cup {None}
  /\ aged \in BOOLEAN
  /\ tasks \in [Replica -> Store]
  /\ request \in [Call -> Requests \cup {None}]
  /\ home \in [Call -> Replica \cup {None}]
  /\ phase \in [Actor -> Phase]
  /\ detached \subseteq Actor
  /\ reply \in [Call -> Reply]
  /\ started \in [Key -> Nat]
  /\ crashes \in 0 .. MaxCrashes

\* No snapshot yet, or one with an open task of another producer.
InitialDisks ==
  {EmptyStore} \cup
  {[EmptyStore EXCEPT ![t] = [owner |-> p, state |-> s, history |-> {m}, artifacts |-> 0]] :
     t \in TaskId, p \in Principal, s \in ForeignStates, m \in MessageId}

Init ==
  /\ disk \in InitialDisks
  /\ lock = None
  /\ aged = FALSE
  /\ tasks = [r \in Replica |-> EmptyStore]
  /\ request = [c \in Call |-> None]
  /\ home = [c \in Call |-> None]
  /\ phase = [a \in Actor |-> "idle"]
  /\ detached = {}
  /\ reply = [c \in Call |-> None]
  /\ started = [k \in Key |-> 0]
  /\ crashes = 0

-----------------------------------------------------------------------------
(* The lock directory *)

Goto(a, where) == phase' = [phase EXCEPT ![a] = where]

transaction == <<tasks, request, home, detached, reply, started>>

\* A request reaches a replica.  A task created by a call takes the call's
\* name, which no task of the snapshot has (randomUUID).
Arrive(c, r, p) ==
  /\ phase[rpc(c)] = "idle"
  /\ disk[c] = None
  /\ request' = [request EXCEPT ![c] = r]
  /\ home' = [home EXCEPT ![c] = p]
  /\ Goto(rpc(c), "acquire")
  /\ UNCHANGED <<disk, lock, aged, tasks, detached, reply, started, crashes>>

\* mkdir succeeds.
Acquire(a) ==
  /\ phase[a] = "acquire"
  /\ lock = None
  /\ lock' = a
  /\ aged' = FALSE
  /\ Goto(a, "load")
  /\ UNCHANGED <<disk, transaction, crashes>>

\* mkdir finds a directory and stat finds it too old.
FindStale(a) ==
  /\ phase[a] = "acquire"
  /\ lock # None
  /\ aged
  /\ Goto(a, "stat")
  /\ UNCHANGED <<disk, lock, aged, transaction, crashes>>

\* Mutant: a stale directory is reported as removed and left there.
BreakLock_NoRemoval(a) ==
  /\ phase[a] = "stat"
  /\ Goto(a, "acquire")
  /\ UNCHANGED <<disk, lock, aged, transaction, crashes>>

\* rmdir: of whatever directory is there by now; ENOENT counts as removed.
BreakLock(a) ==
  /\ phase[a] = "stat"
  /\ lock' = None
  /\ aged' = FALSE
  /\ Goto(a, "acquire")
  /\ UNCHANGED <<disk, transaction, crashes>>

\* Mutant: after the deadline the waiter goes on without the lock.
GiveUp_Proceed(a) ==
  /\ "timeout" \in Faults
  /\ phase[a] = "acquire"
  /\ lock # None
  /\ ~aged
  /\ Goto(a, "load")
  /\ UNCHANGED <<disk, lock, aged, transaction, crashes>>

\* Five minutes of waiting: the client gets an error, a job is only logged.
GiveUp(a) ==
  /\ "timeout" \in Faults
  /\ phase[a] = "acquire"
  /\ lock # None
  /\ ~aged
  /\ reply' = IF a = rpc(a[1]) THEN [reply EXCEPT ![a[1]] = Error] ELSE reply
  /\ Goto(a, "done")
  /\ UNCHANGED <<disk, lock, aged, tasks, request, home, detached, started, crashes>>

\* removeLock: whoever made the directory, it is removed.
Release(a) ==
  /\ phase[a] = "release"
  /\ lock' = None
  /\ aged' = FALSE
  /\ Goto(a, "done")
  /\ UNCHANGED <<disk, transaction, crashes>>

\* Thirty minutes pass: nobody refreshes the mtime of the directory.
Age ==
  /\ lock # None
  /\ ~aged
  /\ IF phase[lock] = "dead" THEN "stale" \in Faults ELSE "slow" \in Faults
  /\ aged' = TRUE
  /\ UNCHANGED <<disk, lock, transaction, phase, crashes>>

-----------------------------------------------------------------------------
(* Inside the lock: loadTaskStore and the handler up to its first await *)

\* Actors of replica p whose task object is replaced when a load refills the map.
Executing(p) == {a \in Actor : phase[a] = "execute" /\ home[a[1]] = p}

Load(c, methods) ==
  /\ phase[rpc(c)] = "load"
  /\ request[c].method \in methods
  /\ detached' = detached \cup Executing(home[c])
  /\ UNCHANGED <<disk, lock, aged, request, home, crashes>>

\* The map holds store once the handler reaches its await or returns.
Keep(c, store) == tasks' = [tasks EXCEPT ![home[c]] = store]

Answer(c, view) == reply' = [reply EXCEPT ![c] = view]

Start(r) == started' = [started EXCEPT ![<<r.principal, r.message>>] = @ + 1]

\* The handler returns a view of the task t in the map it leaves.
Return(c, store, t) ==
  /\ Keep(c, store)
  /\ Answer(c, taskView(store, t))
  /\ UNCHANGED started

\* The handler throws: withTaskStore skips the save.
Fail(c) ==
  /\ Keep(c, disk)
  /\ Answer(c, Error)
  /\ Goto(rpc(c), "release")
  /\ UNCHANGED started

\* Mutant: the index is not asked.
Fresh_Unindexed(r) == r.task = None \/ Continuable(disk, r)

Fresh(r) == Indexed(disk, r.principal, r.message) = {} /\ ~Refused(disk, r)

SendKnown(c) ==
  /\ Load(c, {"SendMessage"})
  /\ \E t \in Indexed(disk, request[c].principal, request[c].message) : Return(c, disk, t)
  /\ Goto(rpc(c), "save")

SendRefused(c) ==
  /\ Load(c, {"SendMessage"})
  /\ Refused(disk, request[c])
  /\ Fail(c)

SendAndWait(c) ==
  /\ Load(c, {"SendMessage"})
  /\ ~request[c].returnImmediately
  /\ Fresh(request[c])
  /\ Keep(c, prepareTask(disk, c, request[c]))
  /\ Start(request[c])
  /\ Goto(rpc(c), "execute")
  /\ UNCHANGED reply

\* Mutant: the execution is not scheduled.
SendAndReturn_Unscheduled(c) ==
  /\ Load(c, {"SendMessage"})
  /\ request[c].returnImmediately
  /\ Fresh(request[c])
  /\ Return(c, prepareTask(disk, c, request[c]), Target(c, request[c]))
  /\ Goto(rpc(c), "save")

\* The job joins the waiters of the lock its own request still holds.
SendAndReturn(c) ==
  /\ Load(c, {"SendMessage"})
  /\ request[c].returnImmediately
  /\ Fresh(request[c])
  /\ Return(c, prepareTask(disk, c, request[c]), Target(c, request[c]))
  /\ phase' = [phase EXCEPT ![rpc(c)] = "save", ![job(c)] = "acquire"]

\* A read writes the snapshot back like any other handler.
Get(c) ==
  /\ Load(c, {"GetTask"})
  /\ Owns(disk, request[c].task, request[c].principal)
  /\ Return(c, disk, request[c].task)
  /\ Goto(rpc(c), "save")

Cancel(c) ==
  /\ Load(c, {"CancelTask"})
  /\ Cancelable(disk, request[c])
  /\ Return(c, cancelTask(disk, request[c].task), request[c].task)
  /\ Goto(rpc(c), "save")

Denied(c) ==
  /\ Load(c, {"GetTask", "CancelTask"})
  /\ IF request[c].method = "GetTask"
       THEN ~Owns(disk, request[c].task, request[c].principal)
       ELSE ~Cancelable(disk, request[c])
  /\ Fail(c)

\* Mutant: the job executes whatever the state of its task.
RunJob_AnyState(c) ==
  /\ phase[job(c)] = "load"
  /\ disk[Target(c, request[c])] # None
  /\ detached' = detached \cup Executing(home[c])
  /\ Keep(c, disk)
  /\ Goto(job(c), "execute") /\ Start(request[c])
  /\ UNCHANGED <<disk, lock, aged, request, home, reply, crashes>>

\* The job loads too; it executes only a task that is still there and WORKING.
RunJob(c) ==
  LET t == Target(c, request[c]) IN
  /\ phase[job(c)] = "load"
  /\ detached' = detached \cup Executing(home[c])
  /\ Keep(c, disk)
  /\ IF InState(disk, t, {"WORKING"})
       THEN Goto(job(c), "execute") /\ Start(request[c])
       ELSE Goto(job(c), "save") /\ UNCHANGED started
  /\ UNCHANGED <<disk, lock, aged, request, home, reply, crashes>>

-----------------------------------------------------------------------------
(* The rest of the transaction *)

\* The awaited action ends.  A task object that is no longer the map's takes
\* the result with it.
Finish(a, outcome) ==
  LET c == a[1]
      t == Target(c, request[c])
      ended == settle(tasks[home[c]], t, outcome)
  IN
  /\ phase[a] = "execute"
  /\ IF a \in detached THEN UNCHANGED tasks ELSE Keep(c, ended)
  /\ IF a # rpc(c) THEN UNCHANGED reply
     ELSE Answer(c, IF a \in detached THEN [task |-> t, state |-> outcome] ELSE taskView(ended, t))
  /\ detached' = detached \ {a}
  /\ Goto(a, "save")
  /\ UNCHANGED <<disk, lock, aged, request, home, started, crashes>>

\* Temporary file and rename: the snapshot changes at once or not at all.
Save(a) ==
  /\ phase[a] = "save"
  /\ disk' = tasks[home[a[1]]]
  /\ Goto(a, "release")
  /\ UNCHANGED <<lock, aged, transaction, crashes>>

\* Mutant: the error of the write is swallowed.
StoreFails_Silently(a) ==
  /\ "unsaved" \in Faults
  /\ phase[a] = "save"
  /\ Goto(a, "release")
  /\ UNCHANGED <<disk, lock, aged, transaction, crashes>>

\* The snapshot cannot be read (before the map is cleared) or written: the client
\* gets an error, the job is only logged.
StoreFails(a) ==
  /\ "unsaved" \in Faults
  /\ phase[a] \in {"load", "save"}
  /\ reply' = IF a = rpc(a[1]) THEN [reply EXCEPT ![a[1]] = Error] ELSE reply
  /\ Goto(a, "release")
  /\ UNCHANGED <<disk, lock, aged, tasks, request, home, detached, started, crashes>>

\* A process stops and starts again: its map is empty, its transactions are
\* gone, the lock directory stays.
Crash(p) ==
  /\ "crash" \in Faults
  /\ crashes < MaxCrashes
  /\ crashes' = crashes + 1
  /\ phase' = [a \in Actor |-> IF home[a[1]] = p /\ phase[a] \notin {"idle", "done"}
                               THEN "dead" ELSE phase[a]]
  /\ tasks' = [tasks EXCEPT ![p] = EmptyStore]
  /\ detached' = {a \in detached : home[a[1]] # p}
  /\ UNCHANGED <<disk, lock, aged, request, home, reply, started>>

\* No transaction is under way.
Idle == (\A a \in Actor : phase[a] \in {"idle", "done", "dead"}) /\ UNCHANGED vars

Handler(c) ==
  \/ SendKnown(c) \/ SendRefused(c) \/ SendAndWait(c) \/ SendAndReturn(c)
  \/ Get(c) \/ Cancel(c) \/ Denied(c) \/ RunJob(c)

Transaction(a) ==
  \/ Acquire(a) \/ FindStale(a) \/ BreakLock(a) \/ GiveUp(a) \/ Release(a)
  \/ Save(a) \/ StoreFails(a)
  \/ \E outcome \in Outcomes : Finish(a, outcome)

Next ==
  \/ \E c \in Call, r \in Requests, p \in Replica : Arrive(c, r, p)
  \/ \E c \in Call : Handler(c)
  \/ \E a \in Actor : Transaction(a)
  \/ \E p \in Replica : Crash(p)
  \/ Age
  \/ Idle

\* A process that runs takes its steps and time passes for the lock of a dead
\* one; nothing makes a call arrive or a process crash.
Fairness ==
  /\ \A c \in Call : WF_vars(Handler(c))
  /\ \A a \in Actor : WF_vars(Transaction(a))
  /\ WF_vars(Age)

Spec == Init /\ [][Next]_vars /\ Fairness

-----------------------------------------------------------------------------
(* Properties *)

\* The directory lock admits one transaction at a time, and the directory that
\* exists is the one that transaction made (acquireTaskStoreLock, removeLock).
MutualExclusion ==
  \A a \in Actor : phase[a] \in Holding =>
     lock = a /\ \A b \in Actor : phase[b] \in Holding => b = a

\* What a client was told of a task outlives every later handler, replica and
\* crash: the task is in the snapshot, is the client's, holds the message that
\* was sent, and a terminal state is still the same (the reply is delivered
\* after saveTaskStore and release).
AnswerIsDurable ==
  \A c \in Call :
    LET view == reply[c] IN
    (phase[rpc(c)] = "done" /\ view # Error) =>
       /\ Owns(disk, view.task, request[c].principal)
       /\ request[c].method = "SendMessage" => request[c].message \in disk[view.task].history
       /\ view.state \in TERMINAL_TASK_STATES => disk[view.task].state = view.state

\* The message of a task that is settled in the snapshot is never executed
\* again, by any replica, after any restart (prepareTask, executeMessage).
SettledNotRerun ==
  [][\A p \in Principal, m \in MessageId :
       started'[<<p, m>>] # started[<<p, m>>] =>
         \A t \in Indexed(disk, p, m) : disk[t].state = "WORKING"]_vars

\* Replicas that neither crash nor fail to save execute a message at most once,
\* however many of them receive it, and however often.
ExecutedOnce == \A k \in Key : started[k] <= 1

\* A task the snapshot shows as WORKING has a transaction that will settle it:
\* a job that waits for the lock or runs.
WorkingIsAttended ==
  \A t \in TaskId : InState(disk, t, {"WORKING"}) =>
    \E c \in Call :
      /\ request[c] # None /\ request[c].method = "SendMessage" /\ Target(c, request[c]) = t
      /\ phase[job(c)] \in {"acquire", "stat", "load", "execute", "save"}

\* The snapshot only ever changes as A2ATaskPromise says: one task per message,
\* one task per transaction, terminal tasks final, one artifact per execution.
Promise == INSTANCE A2ATaskPromise WITH store <- disk
PromiseKept == Promise!Spec

\* Every call that arrives is answered, unless its process crashed: a lock left
\* by a crash delays the others and does not stop them.
CallsEnd == \A c \in Call :
  phase[rpc(c)] = "acquire" ~> phase[rpc(c)] \in {"done", "dead"}

\* Every task in the snapshot is settled in the end.
TasksSettle == \A t \in TaskId :
  InState(disk, t, {"WORKING"}) ~> InState(disk, t, TERMINAL_TASK_STATES)
=============================================================================

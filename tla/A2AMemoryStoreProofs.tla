------------------------ MODULE A2AMemoryStoreProofs ------------------------
(***************************************************************************)
(* Theorems about A2AMemoryStore, for any number of calls, principals and  *)
(* messages: a message runs once, an answer stands, and the map of tasks   *)
(* implements A2ATaskPromise.                                              *)
(***************************************************************************)
EXTENDS A2AMemoryStore, A2ATasksProofs, FiniteSetTheorems

-----------------------------------------------------------------------------
(* The inductive invariant *)

Active == {"awaiting", "scheduled", "background"}

Goal(c) == Target(c, request[c])

\* One task answers for a message of a principal.
IndexInv ==
  \A p \in Principal, m \in MessageId : \A t, u \in Indexed(tasks, p, m) : t = u

\* An execution, ahead or under way, is the only one of its task, which holds
\* the message and has not ended otherwise than by a cancellation.
ActiveInv ==
  \A c \in Call : phase[c] \in Active =>
    /\ request[c] \in Requests /\ request[c].method = "SendMessage"
    /\ Goal(c) \in Indexed(tasks, request[c].principal, request[c].message)
    /\ tasks[Goal(c)].state \in {"WORKING", "CANCELED"}
    /\ \A d \in Call : phase[d] \in Active /\ Goal(d) = Goal(c) => d = c

\* A message starts at most once, with a task, and not before its callback runs.
StartInv ==
  /\ \A p \in Principal, m \in MessageId :
       \/ started[<<p, m>>] = 0
       \/ started[<<p, m>>] = 1 /\ Indexed(tasks, p, m) # {}
  /\ \A c \in Call : phase[c] = "scheduled" =>
       started[<<request[c].principal, request[c].message>>] = 0

\* Before a call arrives it has no task and no reply; a client that waits has none.
IdleInv ==
  \A c \in Call : /\ phase[c] = "idle" => tasks[c] = None
                  /\ phase[c] \in {"idle", "awaiting"} => reply[c] = None

IInv == TypeOK /\ IndexInv /\ ActiveInv /\ StartInv /\ IdleInv

-----------------------------------------------------------------------------
(* The invariant is inductive *)

\* Nothing has arrived and there is no task.
LEMMA InitInv == Init => IInv
<1> SUFFICES ASSUME Init PROVE IInv
  OBVIOUS
<1>1. TypeOK
  BY DEF Init, TypeOK, Store, EmptyStore, Phase, Reply
<1>2. \A p \in Principal, m \in MessageId : Indexed(tasks, p, m) = {}
  BY DEF Init, EmptyStore, Indexed, Owns
<1> QED
  BY <1>1, <1>2 DEF Init, EmptyStore, IInv, IndexInv, ActiveInv, StartInv, IdleInv, Active, TaskId, Key

\* A call that is answered as it arrives, with the tasks as they are.
LEMMA AnswerStep ==
  ASSUME IInv, NEW c \in Call, NEW r \in Requests, phase[c] = "idle",
         request' = [request EXCEPT ![c] = r], phase' = [phase EXCEPT ![c] = "done"],
         \E v \in Reply : reply' = [reply EXCEPT ![c] = v],
         UNCHANGED <<tasks, started>>
  PROVE  IInv'
<1>1. TypeOK'
  BY DEF IInv, TypeOK, Phase
<1>2. \A d \in Call : /\ d # c => phase'[d] = phase[d] /\ request'[d] = request[d] /\ reply'[d] = reply[d]
                      /\ phase'[c] = "done"
  BY DEF IInv, TypeOK
<1>3. \A d \in Call : phase'[d] \in Active => d # c
  BY <1>2 DEF Active
<1>4. ActiveInv'
  BY <1>2, <1>3 DEF IInv, ActiveInv, Goal, Target, Indexed, Owns
<1>5. StartInv'
  BY <1>2 DEF IInv, StartInv, Indexed, Owns
<1>6. IndexInv' /\ IdleInv'
  BY <1>2 DEF IInv, IndexInv, IdleInv, Indexed, Owns
<1> QED
  BY <1>1, <1>4, <1>5, <1>6 DEF IInv

\* A message that is executed: c has the only execution of its task from now on.
LEMMA ExecuteStep ==
  ASSUME IInv, NEW c \in Call, NEW r \in Requests,
         Arrive(c, r, {"SendMessage"}), Fresh(r), tasks' = prepareTask(tasks, c, r),
         \/ Start(r) /\ Goto(c, "awaiting") /\ UNCHANGED reply
         \/ Goto(c, "scheduled") /\ Answer(c, taskView(tasks', Target(c, r))) /\ UNCHANGED started
  PROVE  IInv'
<1> DEFINE t == Target(c, r)
           k == <<r.principal, r.message>>
<1>1. /\ r \in Request /\ r.method = "SendMessage" /\ phase[c] = "idle"
      /\ r.principal \in Principal /\ r.message \in MessageId
  BY RequestsAssumption, RequestFields DEF Arrive
<1>2. tasks \in Store /\ tasks[c] = None /\ reply[c] = None
  BY <1>1 DEF IInv, TypeOK, IdleInv
<1>3. Indexed(tasks, r.principal, r.message) = {} /\ ~Refused(tasks, r)
  BY DEF Fresh
<1>4. /\ tasks' \in Store /\ t \in TaskId /\ tasks'[t] # None /\ tasks'[t].state = "WORKING"
      /\ \A u \in TaskId : u # t => tasks'[u] = tasks[u]
      /\ t = c \/ (tasks[t] # None /\ tasks[t].state \notin TERMINAL_TASK_STATES \cup {"WORKING"})
      /\ Indexed(tasks', r.principal, r.message) = {t}
      /\ \A p \in Principal, m \in MessageId :
           <<p, m>> # k => Indexed(tasks', p, m) = Indexed(tasks, p, m)
  BY <1>1, <1>2, <1>3, PrepareEffect
<1> HIDE DEF t
<1>5. /\ phase'[c] \in {"awaiting", "scheduled"} /\ phase' \in [Call -> Phase]
      /\ request'[c] = r /\ request' \in [Call -> Requests \cup {None}]
      /\ \A d \in Call : d # c => phase'[d] = phase[d] /\ request'[d] = request[d] /\ reply'[d] = reply[d]
  BY DEF IInv, TypeOK, Arrive, Goto, Answer, Phase
<1>6. started[k] = 0
  <2>1. ~(started[k] = 1 /\ Indexed(tasks, r.principal, r.message) # {})
    BY <1>3
  <2> QED
    BY <1>1, <2>1 DEF IInv, StartInv
<1>7. TypeOK'
  <2>1. reply' \in [Call -> Reply]
    BY <1>4, ViewType DEF IInv, TypeOK, Answer, t
  <2>2. started' \in [Key -> Nat]
    BY <1>1 DEF IInv, TypeOK, Start, Key
  <2> QED
    BY <1>4, <1>5, <2>1, <2>2 DEF TypeOK
<1>8. IndexInv'
  <2> SUFFICES ASSUME NEW p \in Principal, NEW m \in MessageId,
                      NEW u \in Indexed(tasks', p, m), NEW v \in Indexed(tasks', p, m)
               PROVE  u = v
    BY DEF IndexInv
  <2>1. CASE <<p, m>> = k
    BY <1>4, <2>1
  <2>2. CASE <<p, m>> # k
    BY <1>4, <2>2 DEF IInv, IndexInv
  <2> QED
    BY <2>1, <2>2
<1>9. Goal(c)' = t /\ \A d \in Call : d # c => Goal(d)' = Goal(d)
  BY <1>5 DEF Goal, Target, t
<1>10. \A d \in Call : d # c /\ phase[d] \in Active =>
         /\ request[d] \in Requests /\ request[d].method = "SendMessage"
         /\ request[d].principal \in Principal /\ request[d].message \in MessageId
         /\ Goal(d) \in TaskId /\ tasks[Goal(d)] # None /\ Goal(d) # t
         /\ <<request[d].principal, request[d].message>> # k
         /\ Goal(d) \in Indexed(tasks', request[d].principal, request[d].message)
  <2> SUFFICES ASSUME NEW d \in Call, d # c, phase[d] \in Active
               PROVE  /\ request[d] \in Requests /\ request[d].method = "SendMessage"
                      /\ request[d].principal \in Principal /\ request[d].message \in MessageId
                      /\ Goal(d) \in TaskId /\ tasks[Goal(d)] # None /\ Goal(d) # t
                      /\ <<request[d].principal, request[d].message>> # k
                      /\ Goal(d) \in Indexed(tasks', request[d].principal, request[d].message)
    OBVIOUS
  <2>1. /\ request[d] \in Requests /\ request[d].method = "SendMessage"
        /\ Goal(d) \in Indexed(tasks, request[d].principal, request[d].message)
        /\ tasks[Goal(d)].state \in {"WORKING", "CANCELED"}
    BY DEF IInv, ActiveInv
  <2>2. request[d].principal \in Principal /\ request[d].message \in MessageId
    BY <2>1, RequestsAssumption, RequestFields
  <2>3. Goal(d) \in TaskId /\ tasks[Goal(d)] # None
    BY <2>1 DEF Indexed, Owns
  <2>4. Goal(d) # t
    BY <1>2, <1>4, <2>1, <2>3 DEF TERMINAL_TASK_STATES
  <2>5. <<request[d].principal, request[d].message>> # k
    BY <1>3, <2>1
  <2> QED
    BY <1>4, <2>1, <2>2, <2>3, <2>4, <2>5
<1>11. ActiveInv'
  <2> SUFFICES ASSUME NEW d \in Call, phase'[d] \in Active
               PROVE  /\ request'[d] \in Requests /\ request'[d].method = "SendMessage"
                      /\ Goal(d)' \in Indexed(tasks', request'[d].principal, request'[d].message)
                      /\ tasks'[Goal(d)'].state \in {"WORKING", "CANCELED"}
                      /\ \A e \in Call : phase'[e] \in Active /\ Goal(e)' = Goal(d)' => e = d
    BY DEF ActiveInv
  <2>1. CASE d = c
    <3>1. \A e \in Call : phase'[e] \in Active /\ Goal(e)' = t => e = c
      BY <1>5, <1>9, <1>10
    <3> QED
      BY <1>1, <1>4, <1>5, <1>9, <2>1, <3>1
  <2>2. CASE d # c
    <3>1. phase[d] \in Active
      BY <1>5, <2>2
    <3>2. tasks'[Goal(d)] = tasks[Goal(d)]
      BY <1>4, <1>10, <2>2, <3>1
    <3>3. \A e \in Call : phase'[e] \in Active /\ Goal(e)' = Goal(d) => e = d
      BY <1>5, <1>9, <1>10, <2>2, <3>1 DEF IInv, ActiveInv
    <3> QED
      BY <1>5, <1>9, <1>10, <2>2, <3>1, <3>2, <3>3 DEF IInv, ActiveInv
  <2> QED
    BY <2>1, <2>2
<1>12. StartInv'
  <2>1. \A p \in Principal, m \in MessageId :
          started'[<<p, m>>] = started[<<p, m>>] \/ (<<p, m>> = k /\ started'[k] = 1)
    BY <1>1, <1>6 DEF IInv, TypeOK, Start, Key
  <2>2. ASSUME NEW p \in Principal, NEW m \in MessageId
        PROVE  \/ started'[<<p, m>>] = 0
               \/ started'[<<p, m>>] = 1 /\ Indexed(tasks', p, m) # {}
    <3>1. CASE <<p, m>> = k
      BY <1>4, <1>6, <2>1, <3>1
    <3>2. CASE <<p, m>> # k
      BY <1>4, <2>1, <3>2 DEF IInv, StartInv
    <3> QED
      BY <3>1, <3>2
  <2>3. ASSUME NEW d \in Call, phase'[d] = "scheduled"
        PROVE  started'[<<request'[d].principal, request'[d].message>>] = 0
    <3>1. CASE d = c
      <4>1. UNCHANGED started
        BY <2>3, <3>1 DEF Goto, IInv, TypeOK
      <4> QED
        BY <1>5, <1>6, <3>1, <4>1
    <3>2. CASE d # c
      <4>1. phase[d] = "scheduled" /\ phase[d] \in Active
        BY <1>5, <2>3, <3>2 DEF Active
      <4> QED
        BY <1>5, <1>10, <2>1, <3>2, <4>1 DEF IInv, StartInv
    <3> QED
      BY <3>1, <3>2
  <2> QED
    BY <2>2, <2>3 DEF StartInv
<1>13. IdleInv'
  <2> SUFFICES ASSUME NEW d \in Call
               PROVE  /\ phase'[d] = "idle" => tasks'[d] = None
                      /\ phase'[d] \in {"idle", "awaiting"} => reply'[d] = None
    BY DEF IdleInv
  <2>1. CASE d = c
    BY <1>2, <1>5, <2>1 DEF Goto, IInv, TypeOK
  <2>2. CASE d # c
    <3>1. phase'[d] = "idle" => d # t /\ tasks[d] = None
      BY <1>4, <1>5, <2>2 DEF IInv, IdleInv
    <3> QED
      BY <1>4, <1>5, <2>2, <3>1 DEF IInv, IdleInv, TaskId
  <2> QED
    BY <2>1, <2>2
<1> QED
  BY <1>7, <1>8, <1>11, <1>12, <1>13 DEF IInv

\* An execution that ends or a task that is canceled: the tasks keep owner and
\* messages, and the other executions find theirs as it was, or canceled.
LEMMA TaskStep ==
  ASSUME IInv, NEW c \in Call, NEW t \in TaskId,
         tasks' \in Store, tasks[t] # None, tasks'[t] # None,
         \A u \in TaskId : u # t => tasks'[u] = tasks[u],
         \A p \in Principal, m \in MessageId : Indexed(tasks', p, m) = Indexed(tasks, p, m),
         tasks'[t].state = "CANCELED" \/ (phase[c] \in Active /\ Goal(c) = t),
         phase' = [phase EXCEPT ![c] = "done"],
         request' \in [Call -> Requests \cup {None}],
         \A d \in Call : d # c => request'[d] = request[d],
         \E v \in Reply : reply' = [reply EXCEPT ![c] = v],
         UNCHANGED started
  PROVE  IInv'
<1>1. TypeOK'
  BY DEF IInv, TypeOK, Phase
<1>2. /\ phase'[c] = "done"
      /\ \A d \in Call : d # c => phase'[d] = phase[d] /\ request'[d] = request[d] /\ reply'[d] = reply[d]
  BY DEF IInv, TypeOK
<1>3. IndexInv'
  BY DEF IInv, IndexInv
<1>4. \A d \in Call : phase'[d] \in Active =>
        /\ d # c /\ phase[d] \in Active /\ Goal(d)' = Goal(d) /\ request'[d] = request[d]
        /\ request[d].principal \in Principal /\ request[d].message \in MessageId
        /\ Goal(d) \in TaskId
  <2> SUFFICES ASSUME NEW d \in Call, phase'[d] \in Active
               PROVE  /\ d # c /\ phase[d] \in Active /\ Goal(d)' = Goal(d) /\ request'[d] = request[d]
                      /\ request[d].principal \in Principal /\ request[d].message \in MessageId
                      /\ Goal(d) \in TaskId
    OBVIOUS
  <2>1. d # c /\ phase[d] \in Active /\ request'[d] = request[d] /\ Goal(d)' = Goal(d)
    BY <1>2 DEF Active, Goal, Target
  <2>2. request[d] \in Requests /\ request[d].method = "SendMessage"
    BY <2>1 DEF IInv, ActiveInv
  <2> QED
    BY <2>1, <2>2, RequestsAssumption, RequestFields, TargetType DEF Goal
<1>5. ActiveInv'
  <2> SUFFICES ASSUME NEW d \in Call, phase'[d] \in Active
               PROVE  /\ request'[d] \in Requests /\ request'[d].method = "SendMessage"
                      /\ Goal(d)' \in Indexed(tasks', request'[d].principal, request'[d].message)
                      /\ tasks'[Goal(d)'].state \in {"WORKING", "CANCELED"}
                      /\ \A e \in Call : phase'[e] \in Active /\ Goal(e)' = Goal(d)' => e = d
    BY DEF ActiveInv
  <2>1. /\ request[d] \in Requests /\ request[d].method = "SendMessage"
        /\ Goal(d) \in Indexed(tasks, request[d].principal, request[d].message)
        /\ tasks[Goal(d)].state \in {"WORKING", "CANCELED"}
        /\ \A e \in Call : phase[e] \in Active /\ Goal(e) = Goal(d) => e = d
    BY <1>4 DEF IInv, ActiveInv
  <2>2. tasks'[Goal(d)].state \in {"WORKING", "CANCELED"}
    <3>1. CASE Goal(d) = t
      BY <1>4, <2>1, <3>1
    <3>2. CASE Goal(d) # t
      BY <1>4, <2>1, <3>2
    <3> QED
      BY <3>1, <3>2
  <2> QED
    BY <1>4, <2>1, <2>2
<1>6. StartInv'
  <2>1. \A d \in Call : phase'[d] = "scheduled" => phase[d] = "scheduled" /\ request'[d] = request[d]
    BY <1>2
  <2> QED
    BY <2>1 DEF IInv, StartInv
<1>7. IdleInv'
  <2> SUFFICES ASSUME NEW d \in Call, phase'[d] \in {"idle", "awaiting"}
               PROVE  /\ phase'[d] = "idle" => tasks'[d] = None
                      /\ reply'[d] = None
    BY DEF IdleInv
  <2>1. d # c /\ phase[d] = phase'[d] /\ reply'[d] = reply[d]
    BY <1>2
  <2>2. phase[d] = "idle" => tasks[d] = None /\ d # t
    BY DEF IInv, IdleInv
  <2> QED
    BY <2>1, <2>2 DEF IInv, IdleInv, TaskId
<1> QED
  BY <1>1, <1>3, <1>5, <1>6, <1>7 DEF IInv

\* The callback starts its execution, or finds its task canceled.
LEMMA ScheduledStep ==
  ASSUME IInv, NEW c \in Call, RunScheduled(c)
  PROVE  IInv'
<1> DEFINE k == <<request[c].principal, request[c].message>>
<1>1. /\ request[c] \in Requests /\ request[c].method = "SendMessage"
      /\ Goal(c) \in Indexed(tasks, request[c].principal, request[c].message)
      /\ started[k] = 0
  BY DEF IInv, ActiveInv, StartInv, RunScheduled, Active
<1>2. request[c].principal \in Principal /\ request[c].message \in MessageId
  BY <1>1, RequestsAssumption, RequestFields
<1>3. /\ phase'[c] \in {"background", "done"}
      /\ phase' \in [Call -> Phase]
      /\ \A d \in Call : d # c => phase'[d] = phase[d]
      /\ started' \in [Key -> Nat]
      /\ \A p \in Principal, m \in MessageId :
           started'[<<p, m>>] = started[<<p, m>>] \/ (<<p, m>> = k /\ started'[k] = 1)
  BY <1>1, <1>2 DEF IInv, TypeOK, RunScheduled, Goto, Start, Phase, Key
<1>4. TypeOK'
  BY <1>3 DEF IInv, TypeOK, RunScheduled
<1>5. IndexInv'
  BY DEF IInv, IndexInv, RunScheduled, Indexed, Owns
<1>6. \A d \in Call : phase'[d] \in Active => phase[d] \in Active
  BY <1>3 DEF RunScheduled, Active
<1>7. ActiveInv'
  <2>1. \A d \in Call : Goal(d)' = Goal(d) /\ request'[d] = request[d]
    BY DEF RunScheduled, Goal, Target
  <2> QED
    BY <1>6, <2>1 DEF IInv, ActiveInv, RunScheduled, Indexed, Owns
<1>8. StartInv'
  <2>1. \A p \in Principal, m \in MessageId :
          \/ started'[<<p, m>>] = 0
          \/ started'[<<p, m>>] = 1 /\ Indexed(tasks, p, m) # {}
    BY <1>1, <1>3 DEF IInv, StartInv
  <2>2. ASSUME NEW d \in Call, phase'[d] = "scheduled"
        PROVE  started'[<<request[d].principal, request[d].message>>] = 0
    <3>1. d # c /\ phase[d] = "scheduled" /\ phase[d] \in Active /\ phase[c] \in Active
      BY <1>3, <2>2 DEF Active, RunScheduled
    <3>2. /\ request[d] \in Requests /\ request[d].method = "SendMessage"
          /\ Goal(d) \in Indexed(tasks, request[d].principal, request[d].message)
          /\ Goal(d) # Goal(c)
      BY <3>1 DEF IInv, ActiveInv
    <3>3. request[d].principal \in Principal /\ request[d].message \in MessageId
      BY <3>2, RequestsAssumption, RequestFields
    <3>4. <<request[d].principal, request[d].message>> # k
      BY <1>1, <1>2, <3>2 DEF IInv, IndexInv
    <3> QED
      BY <1>3, <3>1, <3>3, <3>4 DEF IInv, StartInv
  <2> QED
    BY <2>1, <2>2 DEF StartInv, RunScheduled, Indexed, Owns
<1>9. IdleInv'
  BY <1>3 DEF IInv, IdleInv, RunScheduled
<1> QED
  BY <1>4, <1>5, <1>7, <1>8, <1>9 DEF IInv

\* One step per action.
LEMMA StepInv == IInv /\ [Next]_vars => IInv'
<1> SUFFICES ASSUME IInv, [Next]_vars PROVE IInv'
  OBVIOUS
<1> tasks \in Store /\ request \in [Call -> Requests \cup {None}] /\ reply \in [Call -> Reply]
  BY DEF IInv, TypeOK
<1>1. ASSUME NEW c \in Call, NEW r \in Requests, SendKnown(c, r) PROVE IInv'
  <2>1. r \in Request /\ \A u \in Indexed(tasks, r.principal, r.message) : u \in TaskId /\ tasks[u] # None
    BY RequestsAssumption DEF Indexed, Owns
  <2>2. \E v \in Reply : reply' = [reply EXCEPT ![c] = v]
    BY <1>1, <2>1, ViewType DEF SendKnown, Answer
  <2> QED
    BY <1>1, <2>2, AnswerStep DEF SendKnown, Arrive, Goto
<1>2. ASSUME NEW c \in Call, NEW r \in Requests, SendRefused(c, r) \/ CancelRefused(c, r) PROVE IInv'
  <2>1. \E v \in Reply : reply' = [reply EXCEPT ![c] = v]
    BY <1>2 DEF SendRefused, CancelRefused, Answer, Reply
  <2> QED
    BY <1>2, <2>1, AnswerStep DEF SendRefused, CancelRefused, Arrive, Goto
<1>3. ASSUME NEW c \in Call, NEW r \in Requests, Get(c, r) PROVE IInv'
  <2>1. r.task \in TaskId
    BY <1>3, RequestsAssumption, RequestFields DEF Get, Arrive
  <2>2. \E v \in Reply : reply' = [reply EXCEPT ![c] = v]
    <3>1. CASE Owns(tasks, r.task, r.principal)
      BY <1>3, <2>1, <3>1, ViewType DEF Get, Answer, Owns
    <3>2. CASE ~Owns(tasks, r.task, r.principal)
      BY <1>3, <3>2 DEF Get, Answer, Reply
    <3> QED
      BY <3>1, <3>2
  <2> QED
    BY <1>3, <2>2, AnswerStep DEF Get, Arrive, Goto
<1>4. ASSUME NEW c \in Call, NEW r \in Requests, SendAndWait(c, r) \/ SendAndReturn(c, r) PROVE IInv'
  BY <1>4, ExecuteStep DEF SendAndWait, SendAndReturn
<1>5. ASSUME NEW c \in Call, NEW r \in Requests, Cancel(c, r) PROVE IInv'
  <2>1. r \in Request /\ r.method = "CancelTask" /\ Cancelable(tasks, r) /\ tasks' = cancelTask(tasks, r.task)
    BY <1>5, RequestsAssumption DEF Cancel, Arrive
  <2>2. /\ tasks' \in Store /\ r.task \in TaskId /\ tasks[r.task] # None /\ tasks'[r.task] # None
        /\ \A u \in TaskId : u # r.task => tasks'[u] = tasks[u]
        /\ tasks'[r.task].state = "CANCELED"
        /\ \A p \in Principal, m \in MessageId : Indexed(tasks', p, m) = Indexed(tasks, p, m)
    <3>1. tasks' \in Store
      BY <2>1, CancelType
    <3> QED
      BY <2>1, <3>1, CancelEffect
  <2>3. taskView(tasks', r.task) \in Reply
    BY <2>2, ViewType
  <2>4. \E v \in Reply : reply' = [reply EXCEPT ![c] = v]
    BY <1>5, <2>3 DEF Cancel, Answer
  <2>5. request' \in [Call -> Requests \cup {None}] /\ \A d \in Call : d # c => request'[d] = request[d]
    BY <1>5 DEF Cancel, Arrive
  <2> QED
    BY <1>5, <2>2, <2>4, <2>5, TaskStep DEF Cancel, Goto
<1>6. ASSUME NEW c \in Call, RunScheduled(c) PROVE IInv'
  BY <1>6, ScheduledStep
<1>7. ASSUME NEW c \in Call, NEW outcome \in Outcomes, Finish(c, outcome) PROVE IInv'
  <2>1. phase[c] \in Active /\ Goal(c) \in Indexed(tasks, request[c].principal, request[c].message)
    BY <1>7 DEF Finish, Active, IInv, ActiveInv
  <2>2. Goal(c) \in TaskId /\ tasks[Goal(c)] # None /\ tasks' = settle(tasks, Goal(c), outcome)
    BY <1>7, <2>1 DEF Finish, Goal, Indexed, Owns
  <2>3. /\ tasks' \in Store /\ tasks'[Goal(c)] # None
        /\ \A u \in TaskId : u # Goal(c) => tasks'[u] = tasks[u]
        /\ \A p \in Principal, m \in MessageId : Indexed(tasks', p, m) = Indexed(tasks, p, m)
    BY <2>2, SettleEffect
  <2>4. taskView(tasks', Goal(c)) \in Reply
    BY <2>2, <2>3, ViewType
  <2>5. \E v \in Reply : reply' = [reply EXCEPT ![c] = v]
    <3>1. CASE phase[c] = "awaiting"
      BY <1>7, <2>4, <3>1 DEF Finish, Answer, Goal
    <3>2. CASE phase[c] # "awaiting"
      <4>1. reply' = [reply EXCEPT ![c] = reply[c]] /\ reply[c] \in Reply
        BY <1>7, <3>2 DEF Finish
      <4> QED
        BY <4>1
    <3> QED
      BY <3>1, <3>2
  <2> QED
    BY <1>7, <2>1, <2>2, <2>3, <2>5, TaskStep DEF Finish, Goto
<1>8. CASE UNCHANGED vars
  BY <1>8 DEF vars, IInv, TypeOK, IndexInv, ActiveInv, StartInv, IdleInv, Goal, Target, Indexed, Owns
<1> QED
  BY <1>1, <1>2, <1>3, <1>4, <1>5, <1>6, <1>7, <1>8 DEF Next, Idle

\* What an execution, its end and a cancellation do, in the terms of the promise.
LEMMA ExecuteChange ==
  ASSUME IInv, NEW c \in Call, NEW r \in Requests,
         SendAndWait(c, r) \/ SendAndReturn(c, r)
  PROVE  LET t == Target(c, r)
         IN /\ r.principal \in Principal /\ r.message \in MessageId
            /\ tasks' \in Store /\ t \in TaskId
            /\ tasks'[t] # None /\ tasks'[t].state = "WORKING"
            /\ \A u \in TaskId : u # t => tasks'[u] = tasks[u]
            /\ tasks' = [tasks EXCEPT ![t] = tasks'[t]]
            /\ Indexed(tasks, r.principal, r.message) = {}
            /\ \/ /\ tasks[t] = None /\ tasks'[t].owner = r.principal
                  /\ tasks'[t].history = {r.message} /\ tasks'[t].artifacts = 0
               \/ /\ tasks[t] # None /\ tasks[t].state \notin TERMINAL_TASK_STATES \cup {"WORKING"}
                  /\ tasks[t].owner = r.principal /\ tasks'[t].owner = r.principal
                  /\ tasks'[t].history = tasks[t].history \cup {r.message}
                  /\ tasks'[t].artifacts = tasks[t].artifacts
<1>1. r \in Request /\ r.method = "SendMessage" /\ phase[c] = "idle" /\ Fresh(r)
      /\ tasks' = prepareTask(tasks, c, r)
  BY RequestsAssumption DEF SendAndWait, SendAndReturn, Arrive
<1>2. tasks \in Store /\ tasks[c] = None
  BY <1>1 DEF IInv, TypeOK, IdleInv
<1>3. Indexed(tasks, r.principal, r.message) = {} /\ ~Refused(tasks, r)
  BY <1>1 DEF Fresh
<1> QED
  BY <1>1, <1>2, <1>3, RequestFields, PrepareEffect

\* The end of an execution, whose task is working or was canceled.
LEMMA FinishChange ==
  ASSUME IInv, NEW c \in Call, NEW outcome \in Outcomes, Finish(c, outcome)
  PROVE  /\ Goal(c) \in TaskId /\ tasks[Goal(c)] # None
         /\ Owns(tasks, Goal(c), request[c].principal)
         /\ tasks' \in Store /\ tasks'[Goal(c)] # None
         /\ \A u \in TaskId : u # Goal(c) => tasks'[u] = tasks[u]
         /\ tasks'[Goal(c)].owner = tasks[Goal(c)].owner
         /\ tasks'[Goal(c)].history = tasks[Goal(c)].history
         /\ \/ tasks[Goal(c)].state = "CANCELED" /\ tasks' = tasks
            \/ /\ tasks[Goal(c)].state = "WORKING"
               /\ tasks' = [tasks EXCEPT ![Goal(c)] = tasks'[Goal(c)]]
               /\ tasks'[Goal(c)].state = outcome
               /\ tasks'[Goal(c)].artifacts = tasks[Goal(c)].artifacts + IF outcome = "FAILED" THEN 0 ELSE 1
<1>1. /\ phase[c] \in Active /\ Goal(c) \in Indexed(tasks, request[c].principal, request[c].message)
      /\ tasks[Goal(c)].state \in {"WORKING", "CANCELED"}
  BY DEF Finish, Active, IInv, ActiveInv
<1>2. /\ Goal(c) \in TaskId /\ tasks[Goal(c)] # None /\ Owns(tasks, Goal(c), request[c].principal)
      /\ tasks' = settle(tasks, Goal(c), outcome) /\ tasks \in Store
  BY <1>1 DEF Finish, Goal, Indexed, Owns, IInv, TypeOK
<1> QED
  BY <1>1, <1>2, SettleEffect

\* A cancellation, of an own task that is open or canceled already.
LEMMA CancelChange ==
  ASSUME IInv, NEW c \in Call, NEW r \in Requests, Cancel(c, r)
  PROVE  /\ r.task \in TaskId /\ tasks[r.task] # None
         /\ Owns(tasks, r.task, r.principal)
         /\ tasks' \in Store /\ tasks'[r.task] # None
         /\ \A u \in TaskId : u # r.task => tasks'[u] = tasks[u]
         /\ tasks'[r.task].owner = tasks[r.task].owner
         /\ tasks'[r.task].state = "CANCELED"
         /\ tasks[r.task].state \in TERMINAL_TASK_STATES => tasks[r.task].state = "CANCELED"
         /\ tasks' = [tasks EXCEPT ![r.task] = [tasks[r.task] EXCEPT !.state = "CANCELED"]]
<1>1. /\ r \in Request /\ r.method = "CancelTask" /\ Cancelable(tasks, r)
      /\ tasks' = cancelTask(tasks, r.task) /\ tasks \in Store
  BY RequestsAssumption DEF Cancel, Arrive, IInv, TypeOK
<1>2. tasks' \in Store
  BY <1>1, CancelType
<1>3. Owns(tasks, r.task, r.principal)
  BY <1>1 DEF Cancelable
<1>4. r.task \in TaskId /\ tasks[r.task] # None /\ tasks[r.task] \in StoredTask
  BY <1>1, <1>2, CancelEffect DEF Store
<1>5. tasks' = [tasks EXCEPT ![r.task] = [tasks[r.task] EXCEPT !.state = "CANCELED"]]
  BY <1>1, <1>4 DEF cancelTask, Store
<1> QED
  BY <1>1, <1>2, <1>3, <1>5, CancelEffect

\* No step takes a task away, gives it to another principal or reopens it.
TasksStay ==
  \A t \in TaskId : tasks[t] # None =>
    /\ tasks'[t] # None /\ tasks'[t].owner = tasks[t].owner
    /\ tasks[t].state \in TERMINAL_TASK_STATES => tasks'[t].state = tasks[t].state

\* One step per action that writes a task.
LEMMA StayStep == IInv /\ [Next]_vars => TasksStay
<1> SUFFICES ASSUME IInv, [Next]_vars PROVE TasksStay
  OBVIOUS
<1>1. ASSUME UNCHANGED tasks PROVE TasksStay
  BY <1>1 DEF TasksStay
<1>2. ASSUME NEW c \in Call, NEW r \in Requests, SendAndWait(c, r) \/ SendAndReturn(c, r)
      PROVE  TasksStay
  BY <1>2, ExecuteChange DEF TasksStay
<1>3. ASSUME NEW c \in Call, NEW outcome \in Outcomes, Finish(c, outcome) PROVE TasksStay
  BY <1>3, FinishChange DEF TasksStay, TERMINAL_TASK_STATES
<1>4. ASSUME NEW c \in Call, NEW r \in Requests, Cancel(c, r) PROVE TasksStay
  BY <1>4, CancelChange DEF TasksStay
<1> QED
  BY <1>1, <1>2, <1>3, <1>4
  DEF Next, Idle, vars, SendKnown, SendRefused, Get, CancelRefused, RunScheduled

-----------------------------------------------------------------------------
(* The theorems *)

\* The invariant in every state of a behaviour.
LEMMA AlwaysInv == Spec => []IInv
<1> QED
  BY InitInv, StepInv, PTL DEF Spec

\* Every variable keeps its type, whatever runs at the await of an action: no
\* handler or late result touches a task that is not there.
THEOREM TypeCorrect == Spec => []TypeOK
<1>1. IInv => TypeOK
  BY DEF IInv
<1> QED
  BY <1>1, AlwaysInv, PTL

\* A message has one task and is executed at most once for its principal,
\* however often it is sent (prepareTask and the check of executeMessage).
THEOREM MessagesRunOnce == Spec => []ExecutedOnce
<1>1. IInv => ExecutedOnce
  <2> SUFFICES ASSUME IInv, NEW p \in Principal, NEW m \in MessageId
               PROVE  /\ Cardinality(Indexed(tasks, p, m)) <= 1
                      /\ started[<<p, m>>] <= Cardinality(Indexed(tasks, p, m))
    BY DEF ExecutedOnce
  <2>1. CASE Indexed(tasks, p, m) = {}
    <3>1. Cardinality(Indexed(tasks, p, m)) = 0
      BY <2>1, FS_EmptySet
    <3> QED
      BY <2>1, <3>1 DEF IInv, StartInv
  <2>2. CASE Indexed(tasks, p, m) # {}
    <3>1. PICK t : Indexed(tasks, p, m) = {t}
      BY <2>2 DEF IInv, IndexInv
    <3>2. Cardinality(Indexed(tasks, p, m)) = 1
      BY <3>1, FS_Singleton
    <3> QED
      BY <3>2 DEF IInv, StartInv
  <2> QED
    BY <2>1, <2>2
<1> QED
  BY <1>1, AlwaysInv, PTL

\* What a client was told of a task, true where it is told and later.
Told(c) ==
  reply[c] \notin {None, Error} =>
    /\ Owns(tasks, reply[c].task, request[c].principal)
    /\ reply[c].state \in TERMINAL_TASK_STATES => tasks[reply[c].task].state = reply[c].state

\* What was told stays true as long as the call and its reply are the same.
LEMMA ToldStays ==
  ASSUME IInv, TasksStay, NEW c \in Call, Told(c),
         reply'[c] = reply[c], request'[c] = request[c] \/ reply[c] = None
  PROVE  Told(c)'
<1> SUFFICES ASSUME reply[c] \notin {None, Error}
             PROVE  /\ Owns(tasks', reply[c].task, request[c].principal)
                    /\ reply[c].state \in TERMINAL_TASK_STATES =>
                         tasks'[reply[c].task].state = reply[c].state
  BY DEF Told, Owns
<1>1. reply[c].task \in TaskId
  BY DEF IInv, TypeOK, Reply, View
<1> QED
  BY <1>1 DEF Told, TasksStay, Owns

\* A view of an owned task tells the truth.
LEMMA ViewTold ==
  ASSUME NEW c \in Call, NEW t \in TaskId, IInv, IInv',
         Owns(tasks', t, request'[c].principal), reply' = [reply EXCEPT ![c] = taskView(tasks', t)]
  PROVE  Told(c)'
BY DEF IInv, TypeOK, taskView, Told

\* An error says nothing of a task.
LEMMA ErrorTold ==
  ASSUME NEW c \in Call, IInv, reply' = [reply EXCEPT ![c] = Error]
  PROVE  Told(c)'
BY DEF IInv, TypeOK, Told

\* One step per action that answers.
LEMMA ToldStep == IInv /\ AnswerStands /\ [Next]_vars => AnswerStands'
<1> SUFFICES ASSUME IInv, AnswerStands, [Next]_vars, NEW c \in Call PROVE Told(c)'
  BY DEF AnswerStands, Told
<1>1. IInv' /\ TasksStay /\ Told(c)
  BY StepInv, StayStep DEF AnswerStands, Told
<1> TypeOK /\ RequestsAssumption
  BY RequestsAssumption DEF IInv
<1>2. ASSUME reply'[c] = reply[c], request'[c] = request[c] \/ reply[c] = None PROVE Told(c)'
  BY <1>1, <1>2, ToldStays
<1>3. ASSUME NEW d \in Call, d # c,
             \/ \E r \in Requests : \/ SendKnown(d, r)   \/ SendRefused(d, r) \/ SendAndWait(d, r)
                                    \/ SendAndReturn(d, r) \/ Get(d, r) \/ Cancel(d, r) \/ CancelRefused(d, r)
             \/ RunScheduled(d)
             \/ \E outcome \in Outcomes : Finish(d, outcome)
      PROVE  Told(c)'
  <2>1. reply'[c] = reply[c] /\ request'[c] = request[c]
    BY <1>3 DEF TypeOK, SendKnown, SendRefused, SendAndWait, SendAndReturn, Get, Cancel, CancelRefused,
                RunScheduled, Finish, Arrive, Answer
  <2> QED
    BY <2>1, <1>2
<1>4. ASSUME NEW r \in Requests, SendKnown(c, r) PROVE Told(c)'
  <2>1. PICK t \in Indexed(tasks, r.principal, r.message) : reply' = [reply EXCEPT ![c] = taskView(tasks', t)]
    BY <1>4 DEF SendKnown, Answer
  <2>2. t \in TaskId /\ Owns(tasks', t, request'[c].principal)
    BY <1>4, <2>1 DEF SendKnown, Arrive, Indexed, TypeOK
  <2> QED
    BY <1>1, <2>1, <2>2, ViewTold
<1>5. ASSUME NEW r \in Requests, SendRefused(c, r) \/ CancelRefused(c, r) PROVE Told(c)'
  BY <1>5, ErrorTold DEF SendRefused, CancelRefused, Answer
<1>6. ASSUME NEW r \in Requests, SendAndWait(c, r) PROVE Told(c)'
  BY <1>2, <1>6 DEF SendAndWait, Arrive, IInv, IdleInv
<1>7. ASSUME NEW r \in Requests, SendAndReturn(c, r) PROVE Told(c)'
  <2>1. Target(c, r) \in TaskId /\ Owns(tasks', Target(c, r), r.principal)
    BY <1>7, ExecuteChange DEF Owns
  <2>2. request'[c] = r /\ reply' = [reply EXCEPT ![c] = taskView(tasks', Target(c, r))]
    BY <1>7 DEF SendAndReturn, Answer, Arrive, TypeOK
  <2> QED
    BY <1>1, <2>1, <2>2, ViewTold
<1>8. ASSUME NEW r \in Requests, Get(c, r) PROVE Told(c)'
  <2>1. CASE Owns(tasks, r.task, r.principal)
    <3>1. r.task \in TaskId
      BY <1>8, RequestFields DEF Get, Arrive
    <3>2. Owns(tasks', r.task, request'[c].principal) /\ reply' = [reply EXCEPT ![c] = taskView(tasks', r.task)]
      BY <1>8, <2>1 DEF Get, Answer, Arrive, TypeOK
    <3> QED
      BY <1>1, <3>1, <3>2, ViewTold
  <2>2. CASE ~Owns(tasks, r.task, r.principal)
    BY <1>8, <2>2, ErrorTold DEF Get, Answer
  <2> QED
    BY <2>1, <2>2
<1>9. ASSUME NEW r \in Requests, Cancel(c, r) PROVE Told(c)'
  <2>1. r.task \in TaskId /\ Owns(tasks', r.task, r.principal)
    BY <1>9, CancelChange DEF Owns
  <2>2. request'[c] = r /\ reply' = [reply EXCEPT ![c] = taskView(tasks', r.task)]
    BY <1>9 DEF Cancel, Answer, Arrive, TypeOK
  <2> QED
    BY <1>1, <2>1, <2>2, ViewTold
<1>10. ASSUME RunScheduled(c) PROVE Told(c)'
  BY <1>2, <1>10 DEF RunScheduled
<1>11. ASSUME NEW outcome \in Outcomes, Finish(c, outcome) PROVE Told(c)'
  <2>1. CASE phase[c] = "awaiting"
    <3>1. Goal(c) \in TaskId /\ Owns(tasks', Goal(c), request'[c].principal)
      <4>1. request'[c] = request[c]
        BY <1>11 DEF Finish
      <4> QED
        BY <1>11, <4>1, FinishChange DEF Owns
    <3>2. reply' = [reply EXCEPT ![c] = taskView(tasks', Goal(c))]
      BY <1>11, <2>1 DEF Finish, Answer, Goal
    <3> QED
      BY <1>1, <3>1, <3>2, ViewTold
  <2>2. CASE phase[c] # "awaiting"
    BY <1>2, <1>11, <2>2 DEF Finish
  <2> QED
    BY <2>1, <2>2
<1>12. CASE UNCHANGED vars
  BY <1>2, <1>12 DEF vars
<1> QED
  BY <1>3, <1>4, <1>5, <1>6, <1>7, <1>8, <1>9, <1>10, <1>11, <1>12 DEF Next, Idle

\* A client that was told its task is over was told so for good: a late result
\* does not undo a cancellation, and nobody continues or cancels what ended.
THEOREM AnswersStand == Spec => []AnswerStands
<1>1. Init => AnswerStands
  BY DEF Init, AnswerStands
<1> QED
  BY <1>1, AlwaysInv, ToldStep, PTL DEF Spec

-----------------------------------------------------------------------------
(* The map implements A2ATaskPromise *)

\* The promise speaks of the same stores, tasks and index.
LEMMA SameTerms ==
  /\ Promise!Store = Store /\ Promise!StoredTask = StoredTask /\ Promise!TaskId = TaskId
  /\ Promise!TERMINAL_TASK_STATES = TERMINAL_TASK_STATES
  /\ \A s, p, m : Promise!Indexed(s, p, m) = Indexed(s, p, m)
BY DEF Promise!Store, Store, Promise!StoredTask, StoredTask, Promise!TaskId, TaskId,
       Promise!TASK_STATES, TASK_STATES, Promise!TERMINAL_TASK_STATES, TERMINAL_TASK_STATES,
       Promise!Indexed, Indexed, Promise!Owns, Owns

\* The store of a process starts empty.
LEMMA PromiseInit == Init => Promise!Init
<1> SUFFICES ASSUME Init PROVE Promise!Init
  OBVIOUS
<1>1. tasks \in Store /\ \A t \in TaskId : tasks[t] = None
  BY DEF Init, Store, EmptyStore
<1> QED
  BY <1>1, SameTerms DEF Promise!Init

\* A step of a handler creates, continues, settles or cancels one task, or none.
LEMMA PromiseStep == IInv /\ [Next]_vars => [Promise!Next]_tasks
<1> SUFFICES ASSUME IInv, [Next]_vars PROVE Promise!Promised(tasks, tasks') \/ UNCHANGED tasks
  BY DEF Promise!Next
<1>1. ASSUME NEW c \in Call, NEW r \in Requests, SendAndWait(c, r) \/ SendAndReturn(c, r)
      PROVE  Promise!Promised(tasks, tasks')
  <2> DEFINE t == Target(c, r)
  <2>1. /\ r.principal \in Principal /\ r.message \in MessageId
        /\ tasks' \in Store /\ t \in TaskId
        /\ tasks'[t] # None /\ tasks'[t].state = "WORKING"
        /\ tasks' = [tasks EXCEPT ![t] = tasks'[t]]
        /\ Indexed(tasks, r.principal, r.message) = {}
        /\ \/ /\ tasks[t] = None /\ tasks'[t].owner = r.principal
              /\ tasks'[t].history = {r.message} /\ tasks'[t].artifacts = 0
           \/ /\ tasks[t] # None /\ tasks[t].state \notin TERMINAL_TASK_STATES \cup {"WORKING"}
              /\ tasks[t].owner = r.principal /\ tasks'[t].owner = r.principal
              /\ tasks'[t].history = tasks[t].history \cup {r.message}
              /\ tasks'[t].artifacts = tasks[t].artifacts
    BY <1>1, ExecuteChange
  <2> HIDE DEF t
  <2>2. tasks'[t] \in StoredTask
    BY <2>1 DEF Store
  <2>3. Promise!Created(tasks, tasks', t) \/ Promise!Continued(tasks, tasks', t)
    BY <2>1, <2>2, SameTerms DEF Promise!Created, Promise!Continued, Promise!Ended
  <2> QED
    BY <2>1, <2>3, SameTerms DEF Promise!Promised
<1>2. ASSUME NEW c \in Call, NEW outcome \in Outcomes, Finish(c, outcome)
      PROVE  Promise!Promised(tasks, tasks') \/ UNCHANGED tasks
  <2>1. CASE tasks' = tasks
    BY <2>1
  <2>2. CASE tasks' # tasks
    <3>1. /\ Goal(c) \in TaskId /\ tasks[Goal(c)] # None
          /\ tasks' \in Store /\ tasks'[Goal(c)] # None
          /\ tasks'[Goal(c)].owner = tasks[Goal(c)].owner
          /\ tasks'[Goal(c)].history = tasks[Goal(c)].history
          /\ tasks[Goal(c)].state = "WORKING"
          /\ tasks' = [tasks EXCEPT ![Goal(c)] = tasks'[Goal(c)]]
          /\ tasks'[Goal(c)].state = outcome
          /\ tasks'[Goal(c)].artifacts = tasks[Goal(c)].artifacts + IF outcome = "FAILED" THEN 0 ELSE 1
      BY <1>2, <2>2, FinishChange
    <3>2. tasks'[Goal(c)] \in StoredTask /\ tasks[Goal(c)] \in StoredTask
      BY <3>1 DEF Store, IInv, TypeOK
    <3>3. Promise!Ended(tasks[Goal(c)].artifacts, tasks'[Goal(c)])
      BY <3>1, <3>2 DEF Promise!Ended, Outcomes, StoredTask
    <3>4. Promise!Settled(tasks, tasks', Goal(c))
      BY <3>1, <3>2, <3>3, SameTerms DEF Promise!Settled
    <3> QED
      BY <3>1, <3>4, SameTerms DEF Promise!Promised
  <2> QED
    BY <2>1, <2>2
<1>3. ASSUME NEW c \in Call, NEW r \in Requests, Cancel(c, r)
      PROVE  Promise!Promised(tasks, tasks') \/ UNCHANGED tasks
  <2> DEFINE t == r.task
             new == [tasks[t] EXCEPT !.state = "CANCELED"]
  <2>1. /\ t \in TaskId /\ tasks[t] # None /\ tasks' = [tasks EXCEPT ![t] = new]
        /\ tasks[t].state \in TERMINAL_TASK_STATES => tasks[t].state = "CANCELED"
    BY <1>3, CancelChange
  <2>2. tasks \in Store /\ tasks[t] \in StoredTask
    BY <2>1 DEF IInv, TypeOK, Store
  <2>3. CASE tasks[t].state = "CANCELED"
    <3>1. new = tasks[t]
      BY <2>2, <2>3 DEF StoredTask
    <3> HIDE DEF new
    <3> QED
      BY <2>1, <2>2, <3>1 DEF Store
  <2>4. CASE tasks[t].state # "CANCELED"
    <3>1. tasks'[t] = new
      <4> HIDE DEF new
      <4> QED BY <2>1, <2>2 DEF Store
    <3>2. Promise!Canceled(tasks, tasks', t)
      BY <2>1, <2>4, <3>1, SameTerms DEF Promise!Canceled
    <3>3. tasks' = [tasks EXCEPT ![t] = tasks'[t]]
      <4> HIDE DEF new
      <4> QED BY <2>1, <3>1
    <3> QED
      BY <2>1, <3>2, <3>3, SameTerms DEF Promise!Promised
  <2> QED
    BY <2>3, <2>4
<1> QED
  BY <1>1, <1>2, <1>3
  DEF Next, Idle, vars, SendKnown, SendRefused, Get, CancelRefused, RunScheduled

\* The store of one process keeps what A2ATaskPromise says of its content: the
\* refinement PromiseKept, for any calls, requests and interleaving at the await.
THEOREM ImplementsPromise == Spec => PromiseKept
BY PromiseInit, PromiseStep, AlwaysInv, PTL DEF Spec, PromiseKept, Promise!Spec
=============================================================================

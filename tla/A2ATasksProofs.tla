--------------------------- MODULE A2ATasksProofs ---------------------------
(***************************************************************************)
(* Lemmas about the operations of A2ATasks: every one keeps a store a      *)
(* store, and what it leaves of the tasks.                                 *)
(***************************************************************************)
EXTENDS A2ATasks, TLAPS

\* The fields a request carries.
LEMMA RequestFields ==
  \A r \in Request :
    /\ r.principal \in Principal
    /\ r.task \in TaskId \cup {None}
    /\ r.method \in {"SendMessage", "GetTask", "CancelTask"}
    /\ r.method = "SendMessage" => r.message \in MessageId
    /\ r.method # "SendMessage" => r.task \in TaskId
BY NoneAssumption DEF Request, NoneAssumption

\* A message names a task, or its call creates one.
LEMMA TargetType == \A c \in Call, r \in Request : Target(c, r) \in TaskId
BY RequestFields DEF Target, TaskId

\* createTask and continueTask leave a store in which the target works.
LEMMA PrepareType ==
  ASSUME NEW store \in Store, NEW c \in Call, NEW r \in Request,
         r.method = "SendMessage",
         Indexed(store, r.principal, r.message) = {}, ~Refused(store, r)
  PROVE  /\ prepareTask(store, c, r) \in Store
         /\ prepareTask(store, c, r)[Target(c, r)] # None
         /\ prepareTask(store, c, r)[Target(c, r)].state = "WORKING"
         /\ \A t \in TaskId : store[t] # None => prepareTask(store, c, r)[t] # None
<1> DEFINE created == [owner |-> r.principal, state |-> "WORKING",
                       history |-> {r.message}, artifacts |-> 0]
<1>1. created \in StoredTask
  BY RequestFields DEF StoredTask, TASK_STATES
<1>2. CASE r.task = None
  <2>1. prepareTask(store, c, r) = [store EXCEPT ![c] = created] /\ Target(c, r) = c
    BY <1>2 DEF prepareTask, createTask, Target
  <2> HIDE DEF created
  <2> QED
    BY <1>1, <2>1, NoneAssumption DEF Store, TaskId, NoneAssumption, created
<1>3. CASE r.task # None
  <2>1. Continuable(store, r)
    BY <1>3 DEF Refused
  <2>2. r.task \in TaskId /\ store[r.task] \in StoredTask
    BY <1>3, <2>1, RequestFields DEF Continuable, Owns, Store
  <2> DEFINE old == store[r.task]
             new == [old EXCEPT !.history = @ \cup {r.message}, !.state = "WORKING"]
  <2>3. new \in StoredTask /\ new.state = "WORKING"
    BY <2>2, RequestFields DEF StoredTask, TASK_STATES
  <2>4. prepareTask(store, c, r) = [store EXCEPT ![r.task] = new] /\ Target(c, r) = r.task
    BY <1>3, <2>2 DEF prepareTask, continueTask, Target, Store
  <2> HIDE DEF new
  <2> QED
    BY <2>2, <2>3, <2>4, NoneAssumption DEF Store, NoneAssumption
<1> QED
  BY <1>2, <1>3

\* The end of an execution leaves a store with the same tasks.
LEMMA SettleType ==
  ASSUME NEW store \in Store, NEW t \in TaskId, store[t] # None, NEW outcome \in Outcomes
  PROVE  /\ settle(store, t, outcome) \in Store
         /\ \A u \in TaskId : store[u] # None => settle(store, t, outcome)[u] # None
<1>1. CASE store[t].state = "CANCELED"
  BY <1>1 DEF settle
<1>2. CASE store[t].state # "CANCELED"
  <2> DEFINE pushed == IF outcome = "FAILED" THEN 0 ELSE 1
             new == [store[t] EXCEPT !.state = outcome, !.artifacts = @ + pushed]
  <2>1. store[t] \in StoredTask
    BY DEF Store
  <2>2. new \in StoredTask
    <3>1. pushed \in {0, 1} /\ outcome \in TASK_STATES
      BY DEF TASK_STATES, Outcomes
    <3> HIDE DEF pushed
    <3>2. store[t].artifacts + pushed \in Nat
      BY <2>1, <3>1 DEF StoredTask
    <3> QED
      BY <2>1, <3>1, <3>2 DEF StoredTask
  <2>3. settle(store, t, outcome) = [store EXCEPT ![t] = new]
    BY <1>2, <2>1 DEF settle, Store
  <2> HIDE DEF new
  <2> QED
    BY <2>2, <2>3, NoneAssumption DEF Store, NoneAssumption
<1> QED
  BY <1>1, <1>2

\* A cancellation leaves a store with the same tasks.
LEMMA CancelType ==
  ASSUME NEW store \in Store, NEW r \in Request, r.method = "CancelTask", Cancelable(store, r)
  PROVE  /\ r.task \in TaskId
         /\ cancelTask(store, r.task) \in Store
         /\ \A u \in TaskId : store[u] # None => cancelTask(store, r.task)[u] # None
<1>1. r.task \in TaskId /\ store[r.task] \in StoredTask
  BY RequestFields DEF Cancelable, Owns, Store
<1> DEFINE new == [store[r.task] EXCEPT !.state = "CANCELED"]
<1>2. new \in StoredTask
  BY <1>1 DEF StoredTask, TASK_STATES
<1>3. cancelTask(store, r.task) = [store EXCEPT ![r.task] = new]
  BY <1>1 DEF cancelTask, Store
<1> HIDE DEF new
<1> QED
  BY <1>1, <1>2, <1>3, NoneAssumption DEF Store, NoneAssumption

\* A view of a task that is there is a reply.
LEMMA ViewType ==
  \A store \in Store, t \in TaskId : store[t] # None => taskView(store, t) \in Reply
BY DEF Store, StoredTask, taskView, Reply, View

-----------------------------------------------------------------------------
(* What the operations leave of the tasks *)

\* The index does not see states and artifacts.
LEMMA SameIndex ==
  ASSUME NEW from \in Store, NEW to \in Store, NEW t \in TaskId,
         \A u \in TaskId : u # t => to[u] = from[u],
         from[t] # None, to[t] # None,
         to[t].owner = from[t].owner, to[t].history = from[t].history
  PROVE  \A p \in Principal, m \in MessageId : Indexed(to, p, m) = Indexed(from, p, m)
<1> TAKE p \in Principal, m \in MessageId
<1>1. \A u \in TaskId : u \in Indexed(to, p, m) <=> u \in Indexed(from, p, m)
  BY DEF Indexed, Owns
<1> QED
  BY <1>1 DEF Indexed

\* prepareTask writes one task, new or open and idle, and enters the message
\* for it; nothing else changes.
LEMMA PrepareEffect ==
  ASSUME NEW from \in Store, NEW c \in Call, NEW r \in Request,
         r.method = "SendMessage", from[c] = None,
         Indexed(from, r.principal, r.message) = {}, ~Refused(from, r)
  PROVE  LET to == prepareTask(from, c, r)
             t == Target(c, r)
         IN /\ to \in Store /\ t \in TaskId
            /\ to[t] # None /\ to[t].state = "WORKING"
            /\ \A u \in TaskId : u # t => to[u] = from[u]
            /\ to = [from EXCEPT ![t] = to[t]]
            /\ \/ /\ t = c /\ to[t].owner = r.principal
                  /\ to[t].history = {r.message} /\ to[t].artifacts = 0
               \/ /\ from[t] # None /\ from[t].state \notin TERMINAL_TASK_STATES \cup {"WORKING"}
                  /\ from[t].owner = r.principal /\ to[t].owner = r.principal
                  /\ to[t].history = from[t].history \cup {r.message}
                  /\ to[t].artifacts = from[t].artifacts
            /\ Indexed(to, r.principal, r.message) = {t}
            /\ \A p \in Principal, m \in MessageId :
                 <<p, m>> # <<r.principal, r.message>> => Indexed(to, p, m) = Indexed(from, p, m)
<1> DEFINE to == prepareTask(from, c, r)
           t == Target(c, r)
<1>1. /\ to \in Store /\ t \in TaskId /\ to[t] # None /\ to[t].state = "WORKING"
  BY PrepareType, TargetType
<1>2. /\ to = [from EXCEPT ![t] = to[t]]
      /\ \/ /\ t = c /\ from[t] = None /\ to[t].owner = r.principal
            /\ to[t].history = {r.message} /\ to[t].artifacts = 0
         \/ /\ from[t] # None /\ from[t].state \notin TERMINAL_TASK_STATES \cup {"WORKING"}
            /\ from[t].owner = r.principal /\ to[t].owner = r.principal
            /\ to[t].history = from[t].history \cup {r.message}
            /\ to[t].artifacts = from[t].artifacts
  <2>1. CASE r.task = None
    <3>1. t = c /\ to = [from EXCEPT ![c] = [owner |-> r.principal, state |-> "WORKING",
                                            history |-> {r.message}, artifacts |-> 0]]
      BY <2>1 DEF prepareTask, createTask, Target
    <3> QED
      BY <3>1 DEF Store, TaskId
  <2>2. CASE r.task # None
    <3>1. Continuable(from, r) /\ t = r.task
      BY <2>2 DEF Refused, Target
    <3>2. from[t] \in StoredTask /\ from[t].owner = r.principal
      BY <1>1, <3>1 DEF Continuable, Owns, Store
    <3> DEFINE new == [from[t] EXCEPT !.history = @ \cup {r.message}, !.state = "WORKING"]
    <3>3. new.owner = from[t].owner /\ new.history = from[t].history \cup {r.message}
          /\ new.artifacts = from[t].artifacts
      BY <3>2 DEF StoredTask
    <3>4. to = [from EXCEPT ![t] = new]
      BY <1>1, <2>2, <3>1, <3>2 DEF prepareTask, continueTask, Store
    <3> HIDE DEF new
    <3>5. to[t] = new
      BY <1>1, <3>4 DEF Store
    <3> QED
      BY <3>1, <3>2, <3>3, <3>4, <3>5 DEF Continuable, Owns
  <2> QED
    BY <2>1, <2>2
<1>3. \A u \in TaskId : u # t => to[u] = from[u]
  <2> HIDE DEF to, t
  <2>1. PICK v : to = [from EXCEPT ![t] = v]
    BY <1>2
  <2> QED
    BY <2>1 DEF Store
<1>4. r.principal \in Principal /\ r.message \in MessageId
  BY RequestFields
<1>5. \A p \in Principal, m \in MessageId, u \in TaskId :
        u \in Indexed(to, p, m) <=>
          IF u = t /\ p = r.principal THEN m = r.message \/ u \in Indexed(from, p, m)
          ELSE u \in Indexed(from, p, m)
  <2> HIDE DEF to, t
  <2> TAKE p \in Principal, m \in MessageId, u \in TaskId
  <2>1. CASE u # t
    BY <2>1, <1>3 DEF Indexed, Owns
  <2>2. CASE u = t
    BY <2>2, <1>1, <1>2 DEF Indexed, Owns
  <2> QED
    BY <2>1, <2>2
<1> HIDE DEF to, t
<1>6. Indexed(to, r.principal, r.message) = {t}
  <2>1. \A u \in TaskId : u \in Indexed(to, r.principal, r.message) <=> u = t
    BY <1>4, <1>5, <1>1
  <2> QED
    BY <2>1, <1>1 DEF Indexed
<1>7. \A p \in Principal, m \in MessageId :
        <<p, m>> # <<r.principal, r.message>> => Indexed(to, p, m) = Indexed(from, p, m)
  <2> TAKE p \in Principal, m \in MessageId
  <2> HAVE <<p, m>> # <<r.principal, r.message>>
  <2>1. \A u \in TaskId : u \in Indexed(to, p, m) <=> u \in Indexed(from, p, m)
    BY <1>5
  <2> QED
    BY <2>1 DEF Indexed
<1> QED
  BY <1>1, <1>2, <1>3, <1>6, <1>7 DEF to, t

\* The end of an execution changes the state and the artifacts of its task, and
\* of a canceled one nothing.
LEMMA SettleEffect ==
  ASSUME NEW from \in Store, NEW t \in TaskId, from[t] # None, NEW outcome \in Outcomes
  PROVE  LET to == settle(from, t, outcome)
         IN /\ to \in Store /\ to[t] # None
            /\ \A u \in TaskId : u # t => to[u] = from[u]
            /\ to = [from EXCEPT ![t] = to[t]]
            /\ to[t].owner = from[t].owner /\ to[t].history = from[t].history
            /\ from[t].state = "CANCELED" => to = from
            /\ from[t].state # "CANCELED" =>
                 /\ to[t].state = outcome
                 /\ to[t].artifacts = from[t].artifacts + IF outcome = "FAILED" THEN 0 ELSE 1
            /\ \A p \in Principal, m \in MessageId : Indexed(to, p, m) = Indexed(from, p, m)
<1> DEFINE to == settle(from, t, outcome)
<1>1. to \in Store /\ to[t] # None
  BY SettleType
<1>2. /\ \A u \in TaskId : u # t => to[u] = from[u]
      /\ to = [from EXCEPT ![t] = to[t]]
      /\ to[t].owner = from[t].owner /\ to[t].history = from[t].history
      /\ from[t].state = "CANCELED" => to = from
      /\ from[t].state # "CANCELED" =>
           /\ to[t].state = outcome
           /\ to[t].artifacts = from[t].artifacts + IF outcome = "FAILED" THEN 0 ELSE 1
  <2>1. CASE from[t].state = "CANCELED"
    BY <2>1 DEF settle, Store
  <2>2. CASE from[t].state # "CANCELED"
    <3> DEFINE more == IF outcome = "FAILED" THEN 0 ELSE 1
               new == [from[t] EXCEPT !.state = outcome, !.artifacts = @ + more]
    <3>1. from[t] \in StoredTask
      BY DEF Store
    <3>2. /\ new.owner = from[t].owner /\ new.history = from[t].history
          /\ new.state = outcome /\ new.artifacts = from[t].artifacts + more
      <4> HIDE DEF more
      <4> QED BY <3>1 DEF StoredTask
    <3>3. to = [from EXCEPT ![t] = new]
      BY <2>2, <3>1 DEF settle, Store
    <3> HIDE DEF new
    <3> QED
      BY <2>2, <3>2, <3>3 DEF Store
  <2> QED
    BY <2>1, <2>2
<1> HIDE DEF to
<1>3. \A p \in Principal, m \in MessageId : Indexed(to, p, m) = Indexed(from, p, m)
  BY <1>1, <1>2, SameIndex
<1> QED
  BY <1>1, <1>2, <1>3 DEF to

\* A cancellation changes the state of its task, which is open or canceled already.
LEMMA CancelEffect ==
  ASSUME NEW from \in Store, NEW to \in Store, NEW r \in Request,
         r.method = "CancelTask", Cancelable(from, r), to = cancelTask(from, r.task)
  PROVE  /\ r.task \in TaskId /\ from[r.task] # None /\ to[r.task] # None
         /\ from[r.task].owner = r.principal
         /\ from[r.task].state \in TERMINAL_TASK_STATES => from[r.task].state = "CANCELED"
         /\ \A u \in TaskId : u # r.task => to[u] = from[u]
         /\ to[r.task].state = "CANCELED"
         /\ to[r.task].owner = from[r.task].owner /\ to[r.task].history = from[r.task].history
         /\ \A p \in Principal, m \in MessageId : Indexed(to, p, m) = Indexed(from, p, m)
<1> DEFINE t == r.task
           new == [from[t] EXCEPT !.state = "CANCELED"]
<1>1. t \in TaskId /\ from[t] # None /\ to[t] # None
  BY CancelType DEF Cancelable, Owns
<1>2. from[t] \in StoredTask
  BY <1>1 DEF Store
<1>3. new.state = "CANCELED" /\ new.owner = from[t].owner /\ new.history = from[t].history
  BY <1>2 DEF StoredTask
<1>4. to = [from EXCEPT ![t] = new]
  BY <1>1, <1>2 DEF cancelTask, Store
<1>5. from[t].owner = r.principal /\ (from[t].state \in TERMINAL_TASK_STATES => from[t].state = "CANCELED")
  BY DEF Cancelable, Owns
<1>6. to[t] = new /\ \A u \in TaskId : u # t => to[u] = from[u]
  <2> HIDE DEF new
  <2> QED BY <1>1, <1>4 DEF Store
<1> HIDE DEF new
<1>7. \A p \in Principal, m \in MessageId : Indexed(to, p, m) = Indexed(from, p, m)
  BY <1>1, <1>3, <1>6, SameIndex
<1> QED
  BY <1>1, <1>3, <1>4, <1>5, <1>6, <1>7 DEF new
=============================================================================

------------------------- MODULE A2AFileStoreProofs -------------------------
(***************************************************************************)
(* Theorems about A2AFileStore, for any number of calls, replicas,         *)
(* principals and messages, and for every snapshot the store may start     *)
(* from.                                                                   *)
(***************************************************************************)
EXTENDS A2AFileStore, A2ATasksProofs

-----------------------------------------------------------------------------
(* Actors *)

\* An actor is the rpc or the job of one call.
LEMMA ActorFacts ==
  /\ \A c \in Call : rpc(c) \in Actor /\ rpc(c)[1] = c /\ job(c) \in Actor /\ job(c)[1] = c
  /\ \A a \in Actor : a[1] \in Call /\ (a = rpc(a[1]) \/ a = job(a[1]))
  /\ \A c, d \in Call : rpc(c) # job(d)
BY DEF Actor, rpc, job

-----------------------------------------------------------------------------
(* Types *)

\* The inductive invariant: beyond the types, a transaction under way has a
\* request and a replica, a job belongs to a SendMessage, and a task that is
\* being executed is in the map unless a load has replaced the map since.
TypeInv ==
  /\ TypeOK
  /\ \A c \in Call : phase[rpc(c)] # "idle" => request[c] \in Requests /\ home[c] \in Replica
  /\ \A c \in Call : phase[job(c)] # "idle" =>
        phase[rpc(c)] # "idle" /\ request[c].method = "SendMessage"
  /\ \A a \in Actor : (phase[a] = "execute" /\ a \notin detached) =>
        tasks[home[a[1]]][Target(a[1], request[a[1]])] # None

\* A store without tasks.
LEMMA EmptyType == EmptyStore \in Store
BY DEF EmptyStore, Store

\* A snapshot another producer left has one task at most.
LEMMA InitialDiskType == \A d \in InitialDisks : d \in Store
<1>1. ASSUME NEW t \in TaskId, NEW p \in Principal, NEW s \in ForeignStates, NEW m \in MessageId
      PROVE  [EmptyStore EXCEPT ![t] = [owner |-> p, state |-> s, history |-> {m}, artifacts |-> 0]]
                \in Store
  <2>1. [owner |-> p, state |-> s, history |-> {m}, artifacts |-> 0] \in StoredTask
    BY StoreAssumption DEF StoreAssumption, StoredTask, TASK_STATES
  <2> QED
    BY <2>1, EmptyType DEF Store
<1> QED
  BY <1>1, EmptyType DEF InitialDisks

\* No call has arrived.
LEMMA TypeInit == Init => TypeInv
<1> SUFFICES ASSUME Init PROVE TypeInv
  OBVIOUS
<1>1. TypeOK
  <2>1. disk \in Store /\ tasks \in [Replica -> Store]
    BY EmptyType, InitialDiskType DEF Init
  <2>2. lock \in Actor \cup {None} /\ aged \in BOOLEAN /\ detached \subseteq Actor
    BY DEF Init
  <2>3. /\ request \in [Call -> Requests \cup {None}]
        /\ home \in [Call -> Replica \cup {None}]
        /\ phase \in [Actor -> Phase]
        /\ reply \in [Call -> Reply]
        /\ started \in [Key -> Nat]
    BY DEF Init, Phase, Reply
  <2>4. crashes \in 0 .. MaxCrashes
    BY StoreAssumption DEF Init, StoreAssumption
  <2> QED
    BY <2>1, <2>2, <2>3, <2>4 DEF TypeOK
<1> QED
  BY <1>1, ActorFacts DEF Init, TypeInv

\* The call of a transaction under way.
LEMMA UnderWay ==
  ASSUME TypeInv, NEW a \in Actor, phase[a] # "idle"
  PROVE  /\ a[1] \in Call /\ request[a[1]] \in Request /\ home[a[1]] \in Replica
         /\ Target(a[1], request[a[1]]) \in TaskId
<1>1. a[1] \in Call /\ request[a[1]] \in Requests /\ home[a[1]] \in Replica
  BY ActorFacts DEF TypeInv
<1> QED
  BY <1>1, TargetType, StoreAssumption DEF StoreAssumption

\* A load followed by a handler, or by the check of a job: what they do to the
\* map, to the reply and to the phases keeps TypeInv.
LEMMA LoadedType ==
  ASSUME TypeInv, NEW a \in Actor, phase[a] = "load",
         NEW store \in Store, NEW where \in {"execute", "save", "release"},
         where = "execute" => store[Target(a[1], request[a[1]])] # None,
         Keep(a[1], store),
         detached' = detached \cup Executing(home[a[1]]),
         reply' \in [Call -> Reply], started' \in [Key -> Nat],
         \/ Goto(a, where)
         \/ /\ request[a[1]].method = "SendMessage"
            /\ phase' = [phase EXCEPT ![a] = where, ![job(a[1])] = "acquire"]
            /\ a = rpc(a[1])
         ,
         UNCHANGED <<disk, lock, aged, request, home, crashes>>
  PROVE  TypeInv'
<1>1. a[1] \in Call /\ home[a[1]] \in Replica
  BY UnderWay
<1>2. phase' \in [Actor -> Phase]
  BY <1>1, ActorFacts DEF TypeInv, TypeOK, Goto, Phase
<1>3. TypeOK'
  <2>1. tasks' \in [Replica -> Store]
    BY <1>1 DEF TypeInv, TypeOK, Keep
  <2>2. detached' \subseteq Actor
    BY DEF TypeInv, TypeOK, Executing
  <2> QED
    BY <1>2, <2>1, <2>2 DEF TypeInv, TypeOK
<1>4. \A c \in Call : phase'[rpc(c)] # "idle" => request'[c] \in Requests /\ home'[c] \in Replica
  BY <1>1, ActorFacts DEF TypeInv, TypeOK, Goto
<1>5. \A c \in Call : phase'[job(c)] # "idle" =>
        phase'[rpc(c)] # "idle" /\ request'[c].method = "SendMessage"
  BY <1>1, ActorFacts DEF TypeInv, TypeOK, Goto
<1>6. ASSUME NEW b \in Actor, phase'[b] = "execute", b \notin detached'
      PROVE  tasks'[home[b[1]]][Target(b[1], request[b[1]])] # None
  <2>1. CASE b = a
    <3>1. where = "execute"
      BY <1>6, <2>1, <1>1, ActorFacts DEF TypeInv, TypeOK, Goto
    <3> QED
      BY <1>1, <2>1, <3>1 DEF TypeInv, TypeOK, Keep
  <2>2. CASE b # a
    <3>1. phase[b] = "execute" /\ b \notin detached
      BY <1>1, <1>6, <2>2, ActorFacts DEF TypeInv, TypeOK, Goto
    <3>2. home[b[1]] # home[a[1]] /\ home[b[1]] \in Replica
      BY <1>6, <3>1, UnderWay DEF Executing
    <3> QED
      BY <3>1, <3>2 DEF TypeInv, TypeOK, Keep
  <2> QED
    BY <2>1, <2>2
<1> QED
  BY <1>3, <1>4, <1>5, <1>6 DEF TypeInv

\* Steps that neither load nor change the map of a replica.
LEMMA MovedType ==
  ASSUME TypeInv, NEW a \in Actor, phase[a] # "idle",
         NEW where \in Phase \ {"idle", "execute"}, Goto(a, where),
         disk' \in Store, lock' \in Actor \cup {None}, aged' \in BOOLEAN,
         reply' \in [Call -> Reply],
         UNCHANGED <<tasks, request, home, detached, started, crashes>>
  PROVE  TypeInv'
<1>1. TypeOK'
  BY DEF TypeInv, TypeOK, Goto, Phase
<1>2. \A b \in Actor : phase[b] = "idle" <=> phase'[b] = "idle"
  BY DEF TypeInv, TypeOK, Goto
<1>3. \A b \in Actor : phase'[b] = "execute" => phase[b] = "execute"
  BY DEF TypeInv, TypeOK, Goto
<1> QED
  BY <1>1, <1>2, <1>3, ActorFacts DEF TypeInv

\* An error is a reply.
LEMMA ErrorReply ==
  ASSUME TypeInv, NEW c \in Call PROVE [reply EXCEPT ![c] = Error] \in [Call -> Reply]
BY DEF TypeInv, TypeOK, Reply

\* Every handler leaves a store in which the task it is to execute exists.
LEMMA TypeHandler == ASSUME TypeInv, NEW c \in Call, Handler(c) PROVE TypeInv'
<1> DEFINE a == rpc(c)
           r == request[c]
           t == Target(c, r)
<1>a. a \in Actor /\ a[1] = c /\ job(c) \in Actor /\ job(c)[1] = c
  BY ActorFacts
<1>b. reply \in [Call -> Reply] /\ started \in [Key -> Nat] /\ disk \in Store
  BY DEF TypeInv, TypeOK
<1>c. ASSUME NEW u \in TaskId, NEW store \in Store, store[u] # None, Answer(c, taskView(store, u))
      PROVE  reply' \in [Call -> Reply]
  BY <1>b, <1>c, ViewType DEF Answer
<1>d. ASSUME r \in Request, r.method = "SendMessage", Start(r) PROVE started' \in [Key -> Nat]
  BY <1>b, <1>d, RequestFields DEF Start, Key
<1>e. ASSUME NEW methods, Load(c, methods)
      PROVE  /\ phase[a] = "load" /\ r.method \in methods /\ r \in Request /\ t \in TaskId
             /\ detached' = detached \cup Executing(home[a[1]])
             /\ UNCHANGED <<disk, lock, aged, request, home, crashes>>
  BY <1>a, <1>e, UnderWay DEF Load
<1>1. CASE SendKnown(c)
  <2>1. PICK u \in Indexed(disk, r.principal, r.message) : Return(c, disk, u)
    BY <1>1 DEF SendKnown
  <2>2. u \in TaskId /\ disk[u] # None
    BY <2>1 DEF Indexed, Owns
  <2>3. reply' \in [Call -> Reply]
    BY <1>b, <1>c, <2>1, <2>2 DEF Return
  <2> QED
    BY <1>a, <1>b, <1>e, <1>1, <2>1, <2>3, LoadedType DEF SendKnown, Return
<1>2. CASE SendRefused(c)
  <2>1. reply' \in [Call -> Reply]
    BY <1>2, ErrorReply DEF SendRefused, Fail, Answer
  <2> QED
    BY <1>a, <1>b, <1>e, <1>2, <2>1, LoadedType DEF SendRefused, Fail
<1>3. CASE SendAndWait(c)
  <2>1. r \in Request /\ r.method = "SendMessage" /\ phase[a] = "load"
    BY <1>e, <1>3 DEF SendAndWait
  <2>2. prepareTask(disk, c, r) \in Store /\ prepareTask(disk, c, r)[t] # None
    BY <1>b, <1>3, <2>1, PrepareType DEF SendAndWait, Fresh
  <2>3. started' \in [Key -> Nat]
    BY <1>d, <1>3, <2>1 DEF SendAndWait
  <2> QED
    BY <1>a, <1>b, <1>e, <1>3, <2>1, <2>2, <2>3, LoadedType DEF SendAndWait
<1>4. CASE SendAndReturn(c)
  <2>1. r \in Request /\ r.method = "SendMessage" /\ phase[a] = "load" /\ t \in TaskId
    BY <1>e, <1>4 DEF SendAndReturn
  <2>2. prepareTask(disk, c, r) \in Store /\ prepareTask(disk, c, r)[t] # None
    BY <1>b, <1>4, <2>1, PrepareType DEF SendAndReturn, Fresh
  <2>3. reply' \in [Call -> Reply]
    BY <1>c, <1>4, <2>1, <2>2 DEF SendAndReturn, Return
  <2> DEFINE store == prepareTask(disk, c, r)
  <2>4. /\ phase' = [phase EXCEPT ![a] = "save", ![job(a[1])] = "acquire"]
        /\ request[a[1]].method = "SendMessage" /\ a = rpc(a[1])
        /\ store[Target(a[1], request[a[1]])] # None /\ Keep(a[1], store)
    BY <1>a, <1>4, <2>1, <2>2 DEF SendAndReturn, Return
  <2>5. /\ started' \in [Key -> Nat]
        /\ detached' = detached \cup Executing(home[a[1]])
        /\ UNCHANGED <<disk, lock, aged, request, home, crashes>>
    BY <1>b, <1>e, <1>4 DEF SendAndReturn, Return
  <2> HIDE DEF store, a
  <2> QED
    BY <1>a, <2>1, <2>2, <2>3, <2>4, <2>5, LoadedType DEF store
<1>5. CASE Get(c)
  <2>1. r.task \in TaskId /\ disk[r.task] # None
    BY <1>e, <1>5, RequestFields DEF Get, Owns
  <2>2. reply' \in [Call -> Reply]
    BY <1>b, <1>c, <1>5, <2>1 DEF Get, Return
  <2> QED
    BY <1>a, <1>b, <1>e, <1>5, <2>2, LoadedType DEF Get, Return
<1>6. CASE Cancel(c)
  <2>1. r \in Request /\ r.method = "CancelTask" /\ phase[a] = "load"
    BY <1>e, <1>6 DEF Cancel
  <2>2. /\ r.task \in TaskId /\ cancelTask(disk, r.task) \in Store
        /\ cancelTask(disk, r.task)[r.task] # None
    BY <1>b, <1>6, <2>1, CancelType DEF Cancel, Cancelable, Owns
  <2>3. reply' \in [Call -> Reply]
    BY <1>c, <1>6, <2>2 DEF Cancel, Return
  <2> QED
    BY <1>a, <1>b, <1>e, <1>6, <2>1, <2>2, <2>3, LoadedType DEF Cancel, Return
<1>7. CASE Denied(c)
  <2>1. reply' \in [Call -> Reply]
    BY <1>7, ErrorReply DEF Denied, Fail, Answer
  <2> QED
    BY <1>a, <1>b, <1>e, <1>7, <2>1, LoadedType DEF Denied, Fail
<1>8. CASE RunJob(c)
  <2>1. r \in Request /\ r.method = "SendMessage" /\ phase[job(c)] = "load"
    BY <1>a, <1>8, UnderWay DEF RunJob, TypeInv
  <2>2. CASE InState(disk, t, {"WORKING"})
    <3>1. started' \in [Key -> Nat] /\ disk[t] # None /\ Goto(job(c), "execute")
      BY <1>d, <1>8, <2>1, <2>2 DEF RunJob, InState
    <3> QED
      BY <1>a, <1>b, <1>8, <2>1, <3>1, LoadedType DEF RunJob
  <2>3. CASE ~InState(disk, t, {"WORKING"})
    <3>1. UNCHANGED started /\ Goto(job(c), "save")
      BY <1>8, <2>3 DEF RunJob
    <3> QED
      BY <1>a, <1>b, <1>8, <2>1, <3>1, LoadedType DEF RunJob
  <2> QED
    BY <2>2, <2>3
<1> QED
  BY <1>1, <1>2, <1>3, <1>4, <1>5, <1>6, <1>7, <1>8 DEF Handler

\* A result finds its task, in whatever state others have left it.
LEMMA TypeFinish ==
  ASSUME TypeInv, NEW a \in Actor, NEW outcome \in Outcomes, Finish(a, outcome) PROVE TypeInv'
<1> DEFINE c == a[1]
           t == Target(c, request[c])
           ended == settle(tasks[home[c]], t, outcome)
<1>1. c \in Call /\ home[c] \in Replica /\ t \in TaskId /\ tasks[home[c]] \in Store
  BY UnderWay DEF Finish, TypeInv, TypeOK
<1>2. a \notin detached => /\ ended \in Store
                           /\ \A u \in TaskId : tasks[home[c]][u] # None => ended[u] # None
                           /\ ended[t] # None
  BY <1>1, SettleType DEF Finish, TypeInv
<1>3. /\ phase[a] = "execute"
      /\ IF a \in detached THEN UNCHANGED tasks ELSE Keep(c, ended)
      /\ IF a # rpc(c) THEN UNCHANGED reply
         ELSE Answer(c, IF a \in detached THEN [task |-> t, state |-> outcome] ELSE taskView(ended, t))
      /\ detached' = detached \ {a}
      /\ Goto(a, "save")
      /\ UNCHANGED <<disk, lock, aged, request, home, started, crashes>>
  BY DEF Finish
<1> HIDE DEF t, ended
<1>4. tasks' \in [Replica -> Store]
  BY <1>1, <1>2, <1>3 DEF Keep, TypeInv, TypeOK
<1>5. reply' \in [Call -> Reply]
  <2>1. [task |-> t, state |-> outcome] \in Reply
    BY <1>1 DEF Reply, View, TASK_STATES, Outcomes
  <2>2. a \notin detached => taskView(ended, t) \in Reply
    BY <1>1, <1>2, ViewType
  <2> QED
    BY <1>3, <2>1, <2>2 DEF Answer, TypeInv, TypeOK
<1>6. phase' \in [Actor -> Phase] /\ \A b \in Actor : b # a => phase'[b] = phase[b]
  BY <1>3 DEF Goto, Phase, TypeInv, TypeOK
<1>7. phase'[a] = "save"
  BY <1>3 DEF Goto, TypeInv, TypeOK
<1>8. TypeOK'
  BY <1>3, <1>4, <1>5, <1>6 DEF TypeInv, TypeOK
<1>9. ASSUME NEW b \in Actor, phase'[b] = "execute", b \notin detached'
      PROVE  tasks'[home'[b[1]]][Target(b[1], request'[b[1]])] # None
  <2>1. b # a /\ phase[b] = "execute" /\ b \notin detached
    BY <1>3, <1>6, <1>7, <1>9
  <2>2. /\ home[b[1]] \in Replica /\ Target(b[1], request[b[1]]) \in TaskId
        /\ tasks[home[b[1]]][Target(b[1], request[b[1]])] # None
    BY <2>1, UnderWay DEF TypeInv
  <2> QED
    BY <1>1, <1>2, <1>3, <2>2 DEF Keep, TypeInv, TypeOK
<1> QED
  BY <1>3, <1>6, <1>7, <1>8, <1>9, ActorFacts DEF TypeInv

\* Every step of a transaction, and every fault, keeps the types.
LEMMA TypeStep == ASSUME TypeInv, [Next]_vars PROVE TypeInv'
<1>1. ASSUME NEW c \in Call, NEW r \in Requests, NEW p \in Replica, Arrive(c, r, p) PROVE TypeInv'
  <2>1. TypeOK'
    BY <1>1, ActorFacts DEF Arrive, Goto, Phase, TypeInv, TypeOK
  <2>2. \A a \in Actor : a # rpc(c) => phase'[a] = phase[a]
    BY <1>1, ActorFacts DEF Arrive, Goto, TypeInv, TypeOK
  <2>3. phase'[rpc(c)] = "acquire" /\ phase[job(c)] = "idle"
    BY <1>1, ActorFacts DEF Arrive, Goto, TypeInv, TypeOK
  <2>4. \A d \in Call : d # c => request'[d] = request[d] /\ home'[d] = home[d]
    BY <1>1 DEF Arrive, TypeInv, TypeOK
  <2>5. request'[c] = r /\ home'[c] = p
    BY <1>1 DEF Arrive, TypeInv, TypeOK
  <2>6. ASSUME NEW a \in Actor, phase'[a] = "execute", a \notin detached'
        PROVE  tasks'[home'[a[1]]][Target(a[1], request'[a[1]])] # None
    <3>1. phase[a] = "execute" /\ a[1] # c
      BY <2>2, <2>3, <2>6, ActorFacts, <1>1 DEF Arrive
    <3> QED
      BY <1>1, <2>4, <2>6, <3>1, ActorFacts DEF Arrive, TypeInv
  <2> QED
    BY <2>1, <2>2, <2>3, <2>4, <2>5, <2>6, ActorFacts DEF TypeInv
<1>2. ASSUME NEW c \in Call, Handler(c) PROVE TypeInv'
  BY <1>2, TypeHandler
<1>3. ASSUME NEW a \in Actor, Transaction(a) PROVE TypeInv'
  <2> USE DEF Phase
  <2>a. /\ disk \in Store /\ lock \in Actor \cup {None} /\ aged \in BOOLEAN
        /\ reply \in [Call -> Reply]
    BY DEF TypeInv, TypeOK
  <2>b. (IF a = rpc(a[1]) THEN [reply EXCEPT ![a[1]] = Error] ELSE reply) \in [Call -> Reply]
    BY <2>a, ActorFacts, ErrorReply
  <2>1. CASE Acquire(a)
    BY <2>a, <2>1, MovedType DEF Acquire, transaction
  <2>2. CASE FindStale(a)
    BY <2>a, <2>2, MovedType DEF FindStale, transaction
  <2>3. CASE BreakLock(a)
    BY <2>a, <2>3, MovedType DEF BreakLock, transaction
  <2>4. CASE GiveUp(a)
    BY <2>a, <2>b, <2>4, MovedType DEF GiveUp
  <2>5. CASE Release(a)
    BY <2>a, <2>5, MovedType DEF Release, transaction
  <2>6. CASE Save(a)
    <3>1. disk' \in Store
      BY <2>6, UnderWay DEF Save, TypeInv, TypeOK
    <3> QED
      BY <2>a, <2>6, <3>1, MovedType DEF Save, transaction
  <2>7. CASE StoreFails(a)
    BY <2>a, <2>b, <2>7, MovedType DEF StoreFails
  <2>8. ASSUME NEW outcome \in Outcomes, Finish(a, outcome) PROVE TypeInv'
    BY <2>8, TypeFinish
  <2> QED
    BY <1>3, <2>1, <2>2, <2>3, <2>4, <2>5, <2>6, <2>7, <2>8 DEF Transaction
<1>4. ASSUME NEW p \in Replica, Crash(p) PROVE TypeInv'
  <2>1. TypeOK'
    <3>1. crashes' \in 0 .. MaxCrashes
      BY <1>4, StoreAssumption DEF Crash, StoreAssumption, TypeInv, TypeOK
    <3>2. phase' \in [Actor -> Phase]
      BY <1>4 DEF Crash, Phase, TypeInv, TypeOK
    <3>3. tasks' \in [Replica -> Store]
      BY <1>4, EmptyType DEF Crash, TypeInv, TypeOK
    <3> QED
      BY <1>4, <3>1, <3>2, <3>3 DEF Crash, TypeInv, TypeOK
  <2>2. \A a \in Actor : phase[a] = "idle" <=> phase'[a] = "idle"
    BY <1>4 DEF Crash, TypeInv, TypeOK
  <2>3. ASSUME NEW a \in Actor, phase'[a] = "execute", a \notin detached'
        PROVE  tasks'[home'[a[1]]][Target(a[1], request'[a[1]])] # None
    <3>1. phase[a] = "execute" /\ home[a[1]] # p
      BY <1>4, <2>3 DEF Crash, TypeInv, TypeOK
    <3>2. a \notin detached /\ home[a[1]] \in Replica
      BY <1>4, <2>3, <3>1, UnderWay DEF Crash
    <3> QED
      BY <1>4, <3>1, <3>2 DEF Crash, TypeInv, TypeOK
  <2> QED
    BY <1>4, <2>1, <2>2, <2>3, ActorFacts DEF Crash, TypeInv
<1>5. CASE Age
  BY <1>5 DEF Age, transaction, TypeInv, TypeOK
<1>6. CASE UNCHANGED vars
  BY <1>6 DEF vars, TypeInv, TypeOK, Executing
<1> QED
  BY <1>1, <1>2, <1>3, <1>4, <1>5, <1>6 DEF Next, Idle

\* Every variable keeps its type: in particular a result is only ever stored in
\* a task that is there (settle), and no handler answers about an absent one.
THEOREM TypeCorrect == Spec => []TypeOK
<1>1. Spec => []TypeInv
  BY TypeInit, TypeStep, PTL DEF Spec
<1>2. TypeInv => TypeOK
  BY DEF TypeInv
<1> QED
  BY <1>1, <1>2, PTL

-----------------------------------------------------------------------------
(* Mutual exclusion *)

\* No lock directory reaches the age of thirty minutes.
NoLockAges == "stale" \notin Faults /\ "slow" \notin Faults

\* The inductive invariant: whoever is inside made the directory, and nobody
\* is about to remove a directory it has not made.
LockInv ==
  /\ lock \in Actor \cup {None}
  /\ phase \in [Actor -> Phase]
  /\ ~aged
  /\ \A a \in Actor : phase[a] # "stat"
  /\ \A a \in Actor : phase[a] \in Holding => lock = a

\* Nobody holds the lock.
LEMMA LockInit == Init => LockInv
BY DEF Init, LockInv, Phase, Holding

\* While no lock ages, the directory is made when it is absent and removed by the
\* transaction that made it.
LEMMA LockStep == ASSUME NoLockAges, LockInv, [Next]_vars PROVE LockInv'
<1> USE DEF Phase, Holding, Goto
<1>a. None \notin Actor
  BY StoreAssumption DEF StoreAssumption
<1>1. ASSUME NEW c \in Call, NEW r \in Requests, NEW p \in Replica, Arrive(c, r, p) PROVE LockInv'
  BY <1>1, ActorFacts DEF LockInv, Arrive
<1>2. ASSUME NEW c \in Call, Handler(c) PROVE LockInv'
  <2>1. ASSUME NEW where \in {"execute", "save", "release"}, NEW a \in Actor,
               phase[a] = "load", Goto(a, where), UNCHANGED <<lock, aged>>
        PROVE  LockInv'
    BY <2>1 DEF LockInv
  <2>2. CASE SendAndReturn(c)
    BY <2>2, ActorFacts DEF LockInv, SendAndReturn, Load
  <2>3. CASE SendKnown(c)
    BY <2>1, <2>3, ActorFacts DEF SendKnown, Load
  <2>4. CASE SendRefused(c)
    BY <2>1, <2>4, ActorFacts DEF SendRefused, Fail, Load
  <2>5. CASE SendAndWait(c)
    BY <2>1, <2>5, ActorFacts DEF SendAndWait, Load
  <2>6. CASE Get(c)
    BY <2>1, <2>6, ActorFacts DEF Get, Load
  <2>7. CASE Cancel(c)
    BY <2>1, <2>7, ActorFacts DEF Cancel, Load
  <2>8. CASE Denied(c)
    BY <2>1, <2>8, ActorFacts DEF Denied, Fail, Load
  <2>9. CASE RunJob(c)
    BY <2>1, <2>9, ActorFacts DEF RunJob
  <2> QED
    BY <1>2, <2>2, <2>3, <2>4, <2>5, <2>6, <2>7, <2>8, <2>9 DEF Handler
<1>3. ASSUME NEW a \in Actor, Transaction(a) PROVE LockInv'
  <2>1. CASE Acquire(a)
    BY <1>a, <2>1 DEF LockInv, Acquire
  <2>2. CASE FindStale(a)
    BY <2>2 DEF LockInv, FindStale
  <2>3. CASE BreakLock(a)
    BY <2>3 DEF LockInv, BreakLock
  <2>4. CASE GiveUp(a)
    BY <2>4 DEF LockInv, GiveUp
  <2>5. CASE Release(a)
    BY <2>5 DEF LockInv, Release
  <2>6. CASE Save(a)
    BY <2>6 DEF LockInv, Save
  <2>7. CASE StoreFails(a)
    BY <2>7 DEF LockInv, StoreFails
  <2>8. ASSUME NEW outcome \in Outcomes, Finish(a, outcome) PROVE LockInv'
    BY <2>8 DEF LockInv, Finish
  <2> QED
    BY <1>3, <2>1, <2>2, <2>3, <2>4, <2>5, <2>6, <2>7, <2>8 DEF Transaction
<1>4. ASSUME NEW p \in Replica, Crash(p) PROVE LockInv'
  BY <1>4 DEF LockInv, Crash
<1>5. CASE Age
  BY <1>5 DEF LockInv, Age, NoLockAges
<1>6. CASE UNCHANGED vars
  BY <1>6 DEF LockInv, vars
<1> QED
  BY <1>1, <1>2, <1>3, <1>4, <1>5, <1>6 DEF Next, Idle

\* Two transactions inside would both be the maker of one directory.
LEMMA LockImpliesExclusion == LockInv => MutualExclusion
BY DEF LockInv, MutualExclusion

\* As long as no lock directory is thirty minutes old, one transaction at a time
\* is inside withTaskStore, whatever crashes, gives up or fails to save.
THEOREM MutualExclusionHolds == ASSUME NoLockAges PROVE Spec => []MutualExclusion
<1>1. Spec => []LockInv
  BY LockInit, LockStep, PTL DEF Spec
<1> QED
  BY <1>1, LockImpliesExclusion, PTL
-----------------------------------------------------------------------------
(* What a transaction does to the snapshot *)

\* The map a transaction of c leaves, against the snapshot it loaded.
Left(from, to, c) ==
  /\ to = from \/ Promise!Promised(from, to)
  /\ \A u \in TaskId \ {c} : from[u] = None => to[u] = None

\* The map while the transaction a executes: its task works, newly entered or
\* as the job found it.
Ahead(from, to, c, t) ==
  /\ to \in Store /\ to[t] # None /\ to[t].state = "WORKING"
  /\ to = [from EXCEPT ![t] = to[t]]
  /\ \/ Promise!Created(from, to, t) /\ t = c
     \/ Promise!Continued(from, to, t)
     \/ from[t] # None /\ to[t] = from[t]

\* What was told to the client of c is so in store.
Told(store, c) ==
  /\ reply[c].task \in TaskId /\ Owns(store, reply[c].task, request[c].principal)
  /\ request[c].method = "SendMessage" => request[c].message \in store[reply[c].task].history
  /\ reply[c].state \in TERMINAL_TASK_STATES => store[reply[c].task].state = reply[c].state

\* While nobody breaks a lock, the map of the transaction inside is one change
\* ahead of the snapshot and no other load replaces it.
MapInv ==
  /\ detached = {}
  /\ \A c \in Call : phase[rpc(c)] \in {"acquire", "load"} => disk[c] = None
  /\ \A c \in Call : phase[job(c)] # "idle" => phase[rpc(c)] \notin {"idle", "acquire", "load"}
  /\ \A a \in Actor : phase[a] = "execute" =>
       Ahead(disk, tasks[home[a[1]]], a[1], Target(a[1], request[a[1]]))
  /\ \A a \in Actor : phase[a] = "save" => Left(disk, tasks[home[a[1]]], a[1])

\* A reply is true of the map about to be saved, then of the snapshot.
ReplyInv ==
  \A c \in Call :
    /\ phase[rpc(c)] = "execute" =>
         LET t == Target(c, request[c]) IN
         /\ request[c].method = "SendMessage"
         /\ Owns(tasks[home[c]], t, request[c].principal)
         /\ request[c].message \in tasks[home[c]][t].history
    /\ phase[rpc(c)] = "save" => Told(tasks[home[c]], c)
    /\ phase[rpc(c)] \in {"release", "done"} => reply[c] = Error \/ Told(disk, c)

SnapshotInv == TypeInv /\ LockInv /\ MapInv /\ ReplyInv

\* The promise speaks of the same stores, tasks and index.
LEMMA SameTerms ==
  /\ Promise!Store = Store /\ Promise!StoredTask = StoredTask /\ Promise!TaskId = TaskId
  /\ Promise!TERMINAL_TASK_STATES = TERMINAL_TASK_STATES
  /\ \A s, p, m : Promise!Indexed(s, p, m) = Indexed(s, p, m)
BY DEF Promise!Store, Store, Promise!StoredTask, StoredTask, Promise!TaskId, TaskId,
       Promise!TASK_STATES, TASK_STATES, Promise!TERMINAL_TASK_STATES, TERMINAL_TASK_STATES,
       Promise!Indexed, Indexed, Promise!Owns, Owns

\* One change keeps every task with its owner, its messages and its end.
LEMMA LeftStays ==
  ASSUME NEW from \in Store, NEW to \in Store, NEW c \in Call, Left(from, to, c),
         NEW u \in TaskId, from[u] # None
  PROVE  /\ to[u] # None /\ to[u].owner = from[u].owner
         /\ from[u].history \subseteq to[u].history
         /\ from[u].state \in TERMINAL_TASK_STATES => to[u].state = from[u].state
<1>1. CASE to = from
  BY <1>1
<1>2. CASE Promise!Promised(from, to)
  <2>1. PICK t \in TaskId :
          /\ to = [from EXCEPT ![t] = to[t]]
          /\ \/ Promise!Created(from, to, t) \/ Promise!Continued(from, to, t)
             \/ Promise!Settled(from, to, t) \/ Promise!Canceled(from, to, t)
    BY <1>2, SameTerms DEF Promise!Promised
  <2>2. CASE u # t
    <3>1. PICK v : to = [from EXCEPT ![t] = v]
      BY <2>1
    <3>2. to[u] = from[u]
      BY <2>2, <3>1 DEF Store
    <3> QED
      BY <3>2
  <2>3. CASE u = t
    <3>1. from[u] \in StoredTask
      BY DEF Store
    <3>2. CASE Promise!Created(from, to, t)
      BY <2>3, <3>2 DEF Promise!Created
    <3>3. CASE Promise!Continued(from, to, t)
      BY <2>3, <3>3, SameTerms, NoneAssumption DEF Promise!Continued, NoneAssumption
    <3>4. CASE Promise!Settled(from, to, t)
      BY <2>3, <3>4, SameTerms, NoneAssumption DEF Promise!Settled, NoneAssumption, TERMINAL_TASK_STATES
    <3>5. CASE Promise!Canceled(from, to, t)
      <4>1. to[t] = [from[t] EXCEPT !.state = "CANCELED"] /\ from[t].state \notin TERMINAL_TASK_STATES
        BY <3>5, SameTerms DEF Promise!Canceled
      <4>2. to[t] \in StoredTask /\ to[t].owner = from[t].owner /\ to[t].history = from[t].history
        BY <2>3, <3>1, <4>1 DEF StoredTask, TASK_STATES
      <4> QED
        BY <2>3, <4>1, <4>2, NoneAssumption DEF NoneAssumption
    <3> QED
      BY <2>1, <3>2, <3>3, <3>4, <3>5
  <2> QED
    BY <2>2, <2>3
<1> QED
  BY <1>1, <1>2 DEF Left

\* prepareTask leaves the map one change ahead, which may be saved as it is.
LEMMA PrepareAhead ==
  ASSUME NEW from \in Store, NEW c \in Call, NEW r \in Request,
         r.method = "SendMessage", from[c] = None,
         Indexed(from, r.principal, r.message) = {}, ~Refused(from, r)
  PROVE  LET to == prepareTask(from, c, r)
             t == Target(c, r)
         IN /\ Ahead(from, to, c, t) /\ Left(from, to, c) /\ t \in TaskId
            /\ Owns(to, t, r.principal) /\ r.message \in to[t].history
<1> DEFINE to == prepareTask(from, c, r)
           t == Target(c, r)
<1>1. /\ to \in Store /\ t \in TaskId
      /\ to[t] # None /\ to[t].state = "WORKING"
      /\ \A u \in TaskId : u # t => to[u] = from[u]
      /\ to = [from EXCEPT ![t] = to[t]]
      /\ \/ /\ t = c /\ to[t].owner = r.principal
            /\ to[t].history = {r.message} /\ to[t].artifacts = 0
         \/ /\ from[t] # None /\ from[t].state \notin TERMINAL_TASK_STATES \cup {"WORKING"}
            /\ from[t].owner = r.principal /\ to[t].owner = r.principal
            /\ to[t].history = from[t].history \cup {r.message}
            /\ to[t].artifacts = from[t].artifacts
  BY PrepareEffect
<1>2. r.principal \in Principal /\ r.message \in MessageId
  BY RequestFields
<1> HIDE DEF to, t
<1>3. to[t] \in StoredTask
  BY <1>1 DEF Store
<1>4. (Promise!Created(from, to, t) /\ t = c) \/ Promise!Continued(from, to, t)
  BY <1>1, <1>2, <1>3, SameTerms DEF Promise!Created, Promise!Continued, Promise!Ended
<1>5. Promise!Promised(from, to)
  BY <1>1, <1>4, SameTerms DEF Promise!Promised
<1>6. \A u \in TaskId \ {c} : from[u] = None => to[u] = None
  BY <1>1
<1>7. Owns(to, t, r.principal) /\ r.message \in to[t].history
  BY <1>1 DEF Owns
<1>8. Ahead(from, to, c, t) /\ Left(from, to, c)
  BY <1>1, <1>4, <1>5, <1>6 DEF Ahead, Left
<1> QED
  BY <1>1, <1>7, <1>8 DEF to, t

\* The result of an execution completes the change.
LEMMA SettleLeft ==
  ASSUME NEW from \in Store, NEW to, NEW c \in Call, NEW t \in TaskId,
         Ahead(from, to, c, t), NEW outcome \in Outcomes
  PROVE  LET end == settle(to, t, outcome)
         IN /\ end \in Store /\ end[t] # None /\ Left(from, end, c)
            /\ end[t].owner = to[t].owner /\ end[t].history = to[t].history
<1> DEFINE end == settle(to, t, outcome)
<1>1. /\ to \in Store /\ to[t] # None /\ to[t].state = "WORKING"
      /\ to = [from EXCEPT ![t] = to[t]]
      /\ \/ Promise!Created(from, to, t) /\ t = c
         \/ Promise!Continued(from, to, t)
         \/ from[t] # None /\ to[t] = from[t]
  BY DEF Ahead
<1>2. /\ end \in Store /\ end[t] # None
      /\ end = [to EXCEPT ![t] = end[t]]
      /\ end[t].owner = to[t].owner /\ end[t].history = to[t].history
      /\ end[t].state = outcome
      /\ end[t].artifacts = to[t].artifacts + IF outcome = "FAILED" THEN 0 ELSE 1
  BY <1>1, SettleEffect
<1> HIDE DEF end
<1>3. end[t] \in StoredTask /\ to[t] \in StoredTask
  BY <1>1, <1>2 DEF Store
<1>4. end = [from EXCEPT ![t] = end[t]]
  <2>1. PICK v : to = [from EXCEPT ![t] = v]
    BY <1>1
  <2>2. PICK w : end = [to EXCEPT ![t] = w]
    BY <1>2
  <2>3. end = [from EXCEPT ![t] = w] /\ end[t] = w
    BY <2>1, <2>2 DEF Store
  <2> QED
    BY <2>3
<1>5. Promise!Ended(to[t].artifacts, end[t])
  BY <1>2, <1>3 DEF Promise!Ended, Outcomes, StoredTask
<1>6. \/ Promise!Created(from, end, t) /\ t = c
      \/ Promise!Continued(from, end, t)
      \/ Promise!Settled(from, end, t)
  <2>1. CASE Promise!Created(from, to, t) /\ t = c
    BY <1>1, <1>2, <1>3, <1>5, <2>1, SameTerms DEF Promise!Created, Promise!Ended
  <2>2. CASE Promise!Continued(from, to, t)
    BY <1>1, <1>2, <1>3, <1>5, <2>2, SameTerms DEF Promise!Continued, Promise!Ended
  <2>3. CASE from[t] # None /\ to[t] = from[t]
    BY <1>1, <1>2, <1>3, <1>5, <2>3, SameTerms DEF Promise!Settled
  <2> QED
    BY <1>1, <2>1, <2>2, <2>3
<1>7. Promise!Promised(from, end)
  BY <1>4, <1>6, SameTerms DEF Promise!Promised
<1>8. \A u \in TaskId \ {c} : from[u] = None => end[u] = None
  <2> SUFFICES ASSUME NEW u \in TaskId \ {c}, from[u] = None PROVE end[u] = None
    OBVIOUS
  <2>1. u # t
    BY <1>1 DEF Promise!Continued
  <2>2. PICK w : end = [from EXCEPT ![t] = w]
    BY <1>4
  <2> QED
    BY <2>1, <2>2 DEF Store
<1>9. Left(from, end, c)
  BY <1>7, <1>8 DEF Left
<1> QED
  BY <1>2, <1>9 DEF end

\* A cancellation is one change, or none.
LEMMA CancelLeft ==
  ASSUME NEW from \in Store, NEW to \in Store, NEW c \in Call, NEW r \in Request,
         r.method = "CancelTask", Cancelable(from, r), to = cancelTask(from, r.task)
  PROVE  Left(from, to, c)
<1> DEFINE t == r.task
           new == [from[t] EXCEPT !.state = "CANCELED"]
<1>1. /\ t \in TaskId /\ from[t] # None
      /\ from[t].state \in TERMINAL_TASK_STATES => from[t].state = "CANCELED"
      /\ \A u \in TaskId : u # t => to[u] = from[u]
  BY CancelEffect
<1>2. from[t] \in StoredTask
  BY <1>1 DEF Store
<1>3. to = [from EXCEPT ![t] = new]
  BY <1>1, <1>2 DEF cancelTask, Store
<1>4. to[t] = new
  <2> HIDE DEF new
  <2> QED BY <1>1, <1>3 DEF Store
<1>5. CASE from[t].state = "CANCELED"
  <2>1. new = from[t]
    BY <1>2, <1>5 DEF StoredTask
  <2> HIDE DEF new
  <2>2. to = from
    BY <1>1, <1>3, <2>1 DEF Store
  <2> QED
    BY <2>2 DEF Left
<1>6. CASE from[t].state # "CANCELED"
  <2>1. Promise!Canceled(from, to, t)
    BY <1>1, <1>4, <1>6, SameTerms DEF Promise!Canceled
  <2>2. to = [from EXCEPT ![t] = to[t]]
    <3> HIDE DEF new
    <3> QED BY <1>3, <1>4
  <2>3. Promise!Promised(from, to)
    BY <1>1, <2>1, <2>2, SameTerms DEF Promise!Promised
  <2> QED
    BY <1>1, <2>3 DEF Left
<1> QED
  BY <1>5, <1>6

\* Nobody else is inside while a transaction is.
LEMMA Sole ==
  ASSUME LockInv, NEW a \in Actor, phase[a] \in Holding
  PROVE  \A b \in Actor : b # a => phase[b] \notin Holding
BY DEF LockInv

\* No call has arrived, no job is scheduled.
LEMMA MapInit == Init => MapInv /\ ReplyInv
BY ActorFacts DEF Init, MapInv, ReplyInv

\* Steps that touch neither the snapshot nor a map.
LEMMA QuietStep ==
  ASSUME SnapshotInv, NEW a \in Actor, NEW where \in {"load", "release", "done"},
         phase[a] # "idle", where = "load" => phase[a] = "acquire",
         Goto(a, where), UNCHANGED <<disk, tasks, request, home, detached>>,
         \A c \in Call : reply'[c] = reply[c] \/ (a = rpc(c) /\ reply'[c] = Error),
         \A c \in Call : a = rpc(c) /\ where # "load" => reply'[c] = Error \/ phase[a] = "release"
  PROVE  MapInv' /\ ReplyInv'
<1>1. phase'[a] = where /\ \A b \in Actor : b # a => phase'[b] = phase[b]
  BY DEF SnapshotInv, TypeInv, TypeOK, Goto
<1>2. MapInv'
  <2>1. \A b \in Actor : phase'[b] \in {"execute", "save"} => phase[b] = phase'[b]
    BY <1>1
  <2>2. \A c \in Call : phase'[rpc(c)] \in {"acquire", "load"} => phase[rpc(c)] \in {"acquire", "load"}
    BY <1>1, ActorFacts
  <2>3. \A c \in Call : phase'[job(c)] # "idle" => phase'[rpc(c)] \notin {"idle", "acquire", "load"}
    <3> SUFFICES ASSUME NEW c \in Call, phase'[job(c)] # "idle"
                 PROVE  phase'[rpc(c)] \notin {"idle", "acquire", "load"}
      OBVIOUS
    <3>1. phase[rpc(c)] \notin {"idle", "acquire", "load"}
      BY <1>1, ActorFacts DEF SnapshotInv, MapInv
    <3> QED
      BY <1>1, <3>1, ActorFacts
  <2> QED
    BY <2>1, <2>2, <2>3 DEF SnapshotInv, MapInv
<1>3. ReplyInv'
  <2> SUFFICES ASSUME NEW c \in Call
               PROVE  /\ phase'[rpc(c)] = "execute" =>
                           LET t == Target(c, request[c]) IN
                           /\ request[c].method = "SendMessage"
                           /\ Owns(tasks[home[c]], t, request[c].principal)
                           /\ request[c].message \in tasks[home[c]][t].history
                      /\ phase'[rpc(c)] = "save" => Told(tasks[home[c]], c)'
                      /\ phase'[rpc(c)] \in {"release", "done"} => reply'[c] = Error \/ Told(disk, c)'
    BY DEF ReplyInv, Told, Owns
  <2>1. CASE rpc(c) = a
    BY <1>1, <2>1, ActorFacts DEF SnapshotInv, ReplyInv, Told, Owns
  <2>2. CASE rpc(c) # a
    <3>1. phase'[rpc(c)] = phase[rpc(c)] /\ reply'[c] = reply[c]
      BY <1>1, <2>2, ActorFacts
    <3> QED
      BY <3>1 DEF SnapshotInv, ReplyInv, Told, Owns
  <2> QED
    BY <2>1, <2>2
<1> QED
  BY <1>2, <1>3

\* A handler that has loaded: nobody else is inside, and the map it leaves is
\* its change of the snapshot.
LEMMA LoadedMap ==
  ASSUME SnapshotInv, NEW a \in Actor, phase[a] = "load",
         NEW store \in Store, NEW where \in {"execute", "save", "release"},
         where = "execute" => Ahead(disk, store, a[1], Target(a[1], request[a[1]])),
         where = "save" => Left(disk, store, a[1]),
         Keep(a[1], store),
         detached' = detached \cup Executing(home[a[1]]),
         \/ Goto(a, where)
         \/ a = rpc(a[1]) /\ phase' = [phase EXCEPT ![a] = where, ![job(a[1])] = "acquire"],
         UNCHANGED <<disk, request, home>>
  PROVE  MapInv'
<1>1. a[1] \in Call /\ home[a[1]] \in Replica
  BY UnderWay DEF SnapshotInv
<1>2. \A b \in Actor : b # a => phase[b] \notin Holding
  BY Sole DEF SnapshotInv, Holding
<1>3. /\ phase'[a] = where
      /\ \A b \in Actor : b # a => phase'[b] = phase[b] \/ (b = job(a[1]) /\ phase'[b] = "acquire" /\ a = rpc(a[1]))
  BY <1>1, ActorFacts DEF SnapshotInv, TypeInv, TypeOK, Goto
<1>4. detached' = {}
  BY <1>2 DEF SnapshotInv, MapInv, Executing, Holding
<1>5. \A b \in Actor : phase'[b] \in {"execute", "save"} => b = a
  BY <1>2, <1>3 DEF Holding
<1>6. tasks'[home[a[1]]] = store
  BY <1>1 DEF SnapshotInv, TypeInv, TypeOK, Keep
<1>7. \A c \in Call : phase'[rpc(c)] \in {"acquire", "load"} => phase[rpc(c)] \in {"acquire", "load"}
  BY <1>1, <1>3, ActorFacts
<1>8. \A c \in Call : phase'[job(c)] # "idle" => phase'[rpc(c)] \notin {"idle", "acquire", "load"}
  <2> SUFFICES ASSUME NEW c \in Call, phase'[job(c)] # "idle"
               PROVE  phase'[rpc(c)] \notin {"idle", "acquire", "load"}
    OBVIOUS
  <2>1. CASE rpc(c) = a
    BY <1>3, <2>1
  <2>2. CASE rpc(c) # a
    <3>1. phase'[rpc(c)] = phase[rpc(c)]
      BY <1>1, <1>3, <2>2, ActorFacts
    <3>2. phase[job(c)] # "idle"
      BY <1>1, <1>3, <2>2, ActorFacts
    <3> QED
      BY <3>1, <3>2 DEF SnapshotInv, MapInv
  <2> QED
    BY <2>1, <2>2
<1>9. \A b \in Actor : phase'[b] = "execute" =>
        Ahead(disk, tasks'[home[b[1]]], b[1], Target(b[1], request[b[1]]))
  BY <1>3, <1>5, <1>6
<1>10. \A b \in Actor : phase'[b] = "save" => Left(disk, tasks'[home[b[1]]], b[1])
  BY <1>3, <1>5, <1>6
<1> QED
  BY <1>4, <1>7, <1>8, <1>9, <1>10 DEF SnapshotInv, MapInv

\* The replies that others have are as true as before: nobody else is inside.
LEMMA OthersTold ==
  ASSUME SnapshotInv, NEW a \in Actor, phase[a] \in Holding,
         \A b \in Actor : b # a => phase'[b] = phase[b] \/ phase'[b] = "acquire",
         \A c \in Call : rpc(c) # a => reply'[c] = reply[c],
         UNCHANGED <<disk, request>>,
         NEW c \in Call, rpc(c) # a
  PROVE  /\ phase'[rpc(c)] \notin {"execute", "save"}
         /\ phase'[rpc(c)] \in {"release", "done"} => reply'[c] = Error \/ Told(disk, c)'
<1>1. phase[rpc(c)] \notin Holding
  BY Sole, ActorFacts DEF SnapshotInv
<1>2. phase'[rpc(c)] = phase[rpc(c)] \/ phase'[rpc(c)] = "acquire"
  BY ActorFacts
<1> QED
  BY <1>1, <1>2 DEF SnapshotInv, ReplyInv, Told, Owns, Holding

\* The rpc of c answers from the map it leaves, fails, or goes on to execute.
LEMMA RpcStep ==
  ASSUME SnapshotInv, NEW c \in Call, phase[rpc(c)] = "load",
         NEW store \in Store, NEW where \in {"execute", "save", "release"},
         where = "execute" =>
           /\ Ahead(disk, store, c, Target(c, request[c]))
           /\ request[c].method = "SendMessage"
           /\ Owns(store, Target(c, request[c]), request[c].principal)
           /\ request[c].message \in store[Target(c, request[c])].history
           /\ UNCHANGED reply,
         where = "save" =>
           /\ Left(disk, store, c)
           /\ \E t \in TaskId :
                /\ Answer(c, taskView(store, t)) /\ Owns(store, t, request[c].principal)
                /\ request[c].method = "SendMessage" => request[c].message \in store[t].history,
         where = "release" => Answer(c, Error),
         Keep(c, store),
         detached' = detached \cup Executing(home[c]),
         \/ Goto(rpc(c), where)
         \/ phase' = [phase EXCEPT ![rpc(c)] = where, ![job(c)] = "acquire"],
         UNCHANGED <<disk, request, home>>
  PROVE  MapInv' /\ ReplyInv'
<1> DEFINE a == rpc(c)
<1>1. a \in Actor /\ a[1] = c /\ home[c] \in Replica /\ reply \in [Call -> Reply]
  BY ActorFacts DEF SnapshotInv, TypeInv, TypeOK
<1>2. MapInv'
  BY <1>1, LoadedMap
<1>3. /\ phase'[a] = where
      /\ \A b \in Actor : b # a => phase'[b] = phase[b] \/ phase'[b] = "acquire"
  BY <1>1, ActorFacts DEF SnapshotInv, TypeInv, TypeOK, Goto
<1>4. \A d \in Call : rpc(d) # a => reply'[d] = reply[d]
  BY <1>1, ActorFacts DEF Answer
<1>5. tasks'[home[c]] = store
  BY <1>1 DEF SnapshotInv, TypeInv, TypeOK, Keep
<1>6. where = "save" => Told(tasks[home[c]], c)'
  <2> SUFFICES ASSUME where = "save" PROVE Told(tasks[home[c]], c)'
    OBVIOUS
  <2>1. PICK t \in TaskId :
          /\ Answer(c, taskView(store, t)) /\ Owns(store, t, request[c].principal)
          /\ request[c].method = "SendMessage" => request[c].message \in store[t].history
    OBVIOUS
  <2>2. reply'[c] = [task |-> t, state |-> store[t].state]
    BY <1>1, <2>1 DEF Answer, taskView
  <2> QED
    BY <1>5, <2>1, <2>2 DEF Told
<1>7. where = "release" => reply'[c] = Error
  BY <1>1 DEF Answer
<1>8. ReplyInv'
  <2> SUFFICES ASSUME NEW d \in Call
               PROVE  /\ phase'[rpc(d)] = "execute" =>
                           /\ request'[d].method = "SendMessage"
                           /\ Owns(tasks'[home'[d]], Target(d, request'[d]), request'[d].principal)
                           /\ request'[d].message \in tasks'[home'[d]][Target(d, request'[d])].history
                      /\ phase'[rpc(d)] = "save" => Told(tasks[home[d]], d)'
                      /\ phase'[rpc(d)] \in {"release", "done"} => reply'[d] = Error \/ Told(disk, d)'
    BY DEF ReplyInv
  <2>1. CASE d = c
    BY <1>3, <1>5, <1>6, <1>7, <2>1
  <2>2. CASE d # c
    <3>1. rpc(d) # a /\ phase[a] \in Holding
      BY <2>2, <1>1, ActorFacts DEF Holding
    <3>2. /\ phase'[rpc(d)] \notin {"execute", "save"}
          /\ phase'[rpc(d)] \in {"release", "done"} => reply'[d] = Error \/ Told(disk, d)'
      BY <1>1, <1>3, <1>4, <3>1, OthersTold
    <3> QED
      BY <3>2
  <2> QED
    BY <2>1, <2>2
<1> QED
  BY <1>2, <1>8

\* One step per handler.
LEMMA MapHandler == ASSUME SnapshotInv, NEW c \in Call, Handler(c) PROVE MapInv' /\ ReplyInv'
<1> DEFINE a == rpc(c)
           r == request[c]
           t == Target(c, r)
<1>1. a \in Actor /\ a[1] = c /\ job(c) \in Actor /\ job(c)[1] = c /\ disk \in Store
  BY ActorFacts DEF SnapshotInv, TypeInv, TypeOK
<1>2. phase[a] = "load" => r \in Request /\ disk[c] = None /\ t \in TaskId
  BY <1>1, UnderWay DEF SnapshotInv, MapInv
<1>3. Left(disk, disk, c)
  BY DEF Left
<1>4. phase[a] = "load" /\ r.method = "SendMessage" /\ Fresh(r) =>
        /\ prepareTask(disk, c, r) \in Store
        /\ Ahead(disk, prepareTask(disk, c, r), c, t) /\ Left(disk, prepareTask(disk, c, r), c)
        /\ Owns(prepareTask(disk, c, r), t, r.principal)
        /\ r.message \in prepareTask(disk, c, r)[t].history
  BY <1>1, <1>2, PrepareAhead DEF Fresh, Ahead
<1> HIDE DEF t
<1>5. CASE SendKnown(c)
  <2>1. PICK u \in Indexed(disk, r.principal, r.message) : Return(c, disk, u)
    BY <1>5 DEF SendKnown
  <2>2. u \in TaskId /\ Owns(disk, u, r.principal) /\ r.message \in disk[u].history
    BY DEF Indexed
  <2>3. /\ phase[a] = "load" /\ detached' = detached \cup Executing(home[c])
        /\ UNCHANGED <<disk, request, home>> /\ Goto(a, "save")
        /\ Keep(c, disk) /\ Answer(c, taskView(disk, u))
    BY <1>5, <2>1 DEF SendKnown, Load, Return
  <2> QED
    BY <1>1, <1>3, <2>2, <2>3, RpcStep
<1>6. CASE SendRefused(c) \/ Denied(c)
  <2>1. /\ phase[a] = "load" /\ detached' = detached \cup Executing(home[c])
        /\ UNCHANGED <<disk, request, home>> /\ Goto(a, "release")
        /\ Keep(c, disk) /\ Answer(c, Error)
    BY <1>6 DEF SendRefused, Denied, Load, Fail
  <2> QED
    BY <1>1, <2>1, RpcStep
<1>7. CASE SendAndWait(c)
  <2>1. /\ phase[a] = "load" /\ r.method = "SendMessage" /\ Fresh(r)
        /\ detached' = detached \cup Executing(home[c])
        /\ UNCHANGED <<disk, request, home, reply>> /\ Goto(a, "execute")
        /\ Keep(c, prepareTask(disk, c, r))
    BY <1>7 DEF SendAndWait, Load
  <2> QED
    BY <1>4, <2>1, RpcStep DEF t
<1>8. CASE SendAndReturn(c)
  <2>1. /\ phase[a] = "load" /\ r.method = "SendMessage" /\ Fresh(r)
        /\ detached' = detached \cup Executing(home[c])
        /\ UNCHANGED <<disk, request, home>>
        /\ phase' = [phase EXCEPT ![a] = "save", ![job(c)] = "acquire"]
        /\ Keep(c, prepareTask(disk, c, r)) /\ Answer(c, taskView(prepareTask(disk, c, r), t))
    BY <1>8 DEF SendAndReturn, Load, Return, t
  <2> QED
    BY <1>2, <1>4, <2>1, RpcStep
<1>9. CASE Get(c)
  <2>1. /\ phase[a] = "load" /\ r.method = "GetTask"
        /\ detached' = detached \cup Executing(home[c])
        /\ UNCHANGED <<disk, request, home>> /\ Goto(a, "save")
        /\ Keep(c, disk) /\ Answer(c, taskView(disk, r.task)) /\ Owns(disk, r.task, r.principal)
    BY <1>9 DEF Get, Load, Return
  <2>2. r.task \in TaskId
    BY <1>2, <2>1, RequestFields
  <2> QED
    BY <1>1, <1>3, <2>1, <2>2, RpcStep
<1>10. CASE Cancel(c)
  <2> DEFINE to == cancelTask(disk, r.task)
  <2>1. /\ phase[a] = "load" /\ r.method = "CancelTask" /\ Cancelable(disk, r)
        /\ detached' = detached \cup Executing(home[c])
        /\ UNCHANGED <<disk, request, home>> /\ Goto(a, "save")
        /\ Keep(c, to) /\ Answer(c, taskView(to, r.task))
    BY <1>10 DEF Cancel, Load, Return
  <2>2. to \in Store /\ r.task \in TaskId
    BY <1>1, <1>2, <2>1, CancelType
  <2>3. Left(disk, to, c)
    BY <1>1, <1>2, <2>1, <2>2, CancelLeft
  <2>4. Owns(to, r.task, r.principal)
    <3>1. to[r.task] # None /\ to[r.task].owner = disk[r.task].owner /\ disk[r.task].owner = r.principal
      BY <1>1, <1>2, <2>1, <2>2, CancelEffect DEF Cancelable, Owns
    <3> QED
      BY <3>1 DEF Owns
  <2> HIDE DEF to
  <2> QED
    BY <2>1, <2>2, <2>3, <2>4, RpcStep
<1>11. CASE RunJob(c)
  <2> DEFINE where == IF InState(disk, t, {"WORKING"}) THEN "execute" ELSE "save"
  <2>1. /\ phase[job(c)] = "load" /\ detached' = detached \cup Executing(home[c])
        /\ Keep(c, disk) /\ UNCHANGED <<disk, request, home, reply>>
        /\ Goto(job(c), where)
    BY <1>11 DEF RunJob, t
  <2>2. where = "execute" => Ahead(disk, disk, c, t)
    <3> SUFFICES ASSUME where = "execute" PROVE Ahead(disk, disk, c, t)
      OBVIOUS
    <3>1. disk[t] # None /\ disk[t].state = "WORKING"
      BY DEF InState
    <3>2. disk = [disk EXCEPT ![t] = disk[t]]
      BY <1>1 DEF Store
    <3> QED
      BY <1>1, <3>1, <3>2 DEF Ahead
  <2>3. where \in {"execute", "save", "release"}
    OBVIOUS
  <2> HIDE DEF where
  <2>4. MapInv'
    BY <1>1, <1>3, <2>1, <2>2, <2>3, LoadedMap DEF t
  <2>5. ReplyInv'
    <3>1. \A b \in Actor : b # job(c) => phase'[b] = phase[b] \/ phase'[b] = "acquire"
      BY <1>1, <2>1 DEF Goto, SnapshotInv, TypeInv, TypeOK
    <3>2. \A d \in Call : rpc(d) # job(c)
      BY ActorFacts
    <3>3. \A d \in Call : /\ phase'[rpc(d)] \notin {"execute", "save"}
                          /\ phase'[rpc(d)] \in {"release", "done"} => reply'[d] = Error \/ Told(disk, d)'
      BY <1>1, <2>1, <3>1, <3>2, OthersTold DEF Holding
    <3> QED
      BY <3>3 DEF ReplyInv
  <2> QED
    BY <2>4, <2>5
<1> QED
  BY <1>5, <1>6, <1>7, <1>8, <1>9, <1>10, <1>11 DEF Handler

\* The action ends: the change is complete, and its client is told what it left.
LEMMA MapFinish ==
  ASSUME SnapshotInv, NEW a \in Actor, NEW outcome \in Outcomes, Finish(a, outcome)
  PROVE  MapInv' /\ ReplyInv'
<1> DEFINE c == a[1]
           t == Target(c, request[c])
           end == settle(tasks[home[c]], t, outcome)
<1>1. c \in Call /\ home[c] \in Replica /\ t \in TaskId /\ phase[a] = "execute" /\ disk \in Store
  BY UnderWay DEF Finish, SnapshotInv, TypeInv, TypeOK
<1>2. /\ Ahead(disk, tasks[home[c]], c, t) /\ a \notin detached
  BY <1>1 DEF SnapshotInv, MapInv
<1>3. /\ end \in Store /\ end[t] # None /\ Left(disk, end, c)
      /\ end[t].owner = tasks[home[c]][t].owner /\ end[t].history = tasks[home[c]][t].history
  BY <1>1, <1>2, SettleLeft
<1>4. /\ Keep(c, end) /\ detached' = {} /\ Goto(a, "save")
      /\ IF a # rpc(c) THEN UNCHANGED reply ELSE Answer(c, taskView(end, t))
      /\ UNCHANGED <<disk, lock, request, home>>
  BY <1>2 DEF Finish, SnapshotInv, MapInv
<1> HIDE DEF t, end
<1>5. phase'[a] = "save" /\ \A b \in Actor : b # a => phase'[b] = phase[b]
  BY <1>4 DEF Goto, SnapshotInv, TypeInv, TypeOK
<1>6. \A b \in Actor : b # a => phase[b] \notin Holding
  BY <1>1, Sole DEF SnapshotInv, Holding
<1>7. tasks'[home[c]] = end
  BY <1>1, <1>4 DEF Keep, SnapshotInv, TypeInv, TypeOK
<1>8. MapInv'
  <2>1. \A b \in Actor : phase'[b] \in {"execute", "save"} => b = a
    BY <1>5, <1>6 DEF Holding
  <2>2. \A d \in Call : phase'[rpc(d)] \in {"acquire", "load"} => phase[rpc(d)] \in {"acquire", "load"}
    BY <1>5, ActorFacts
  <2>3. \A d \in Call : phase'[job(d)] # "idle" => phase'[rpc(d)] \notin {"idle", "acquire", "load"}
    <3> SUFFICES ASSUME NEW d \in Call, phase'[job(d)] # "idle"
                 PROVE  phase'[rpc(d)] \notin {"idle", "acquire", "load"}
      OBVIOUS
    <3>1. phase[job(d)] # "idle"
      BY <1>1, <1>5, ActorFacts
    <3> QED
      BY <1>5, <3>1, ActorFacts DEF SnapshotInv, MapInv
  <2>4. \A b \in Actor : phase'[b] = "save" => Left(disk, tasks'[home[b[1]]], b[1])
    BY <1>3, <1>7, <2>1
  <2>5. \A b \in Actor : phase'[b] # "execute"
    BY <1>5, <2>1
  <2> QED
    BY <1>4, <2>2, <2>3, <2>4, <2>5 DEF SnapshotInv, MapInv
<1>9. ReplyInv'
  <2>1. ASSUME NEW d \in Call, rpc(d) # a
        PROVE  /\ phase'[rpc(d)] \notin {"execute", "save"}
               /\ phase'[rpc(d)] \in {"release", "done"} => reply'[d] = Error \/ Told(disk, d)'
    <3>1. \A e \in Call : rpc(e) # a => reply'[e] = reply[e]
      <4>1. CASE a = rpc(c)
        <5>1. \A e \in Call : rpc(e) # a => e # c
          BY <4>1
        <5> QED
          BY <1>4, <4>1, <5>1 DEF Answer, SnapshotInv, TypeInv, TypeOK
      <4>2. CASE a # rpc(c)
        BY <1>4, <4>2
      <4> QED
        BY <4>1, <4>2
    <3> QED
      BY <1>1, <1>4, <1>5, <2>1, <3>1, OthersTold DEF Holding
  <2>2. ASSUME a = rpc(c) PROVE Told(tasks[home[c]], c)'
    <3>1. reply'[c] = [task |-> t, state |-> end[t].state]
      BY <1>1, <1>4, <2>2 DEF Answer, taskView, SnapshotInv, TypeInv, TypeOK
    <3>2. /\ Owns(tasks[home[c]], t, request[c].principal)
          /\ request[c].message \in tasks[home[c]][t].history
      BY <1>1, <2>2 DEF SnapshotInv, ReplyInv, t
    <3> QED
      BY <1>1, <1>3, <1>4, <1>7, <3>1, <3>2 DEF Told, Owns
  <2> QED
    <3> SUFFICES ASSUME NEW d \in Call
                 PROVE  /\ phase'[rpc(d)] # "execute"
                        /\ phase'[rpc(d)] = "save" => Told(tasks[home[d]], d)'
                        /\ phase'[rpc(d)] \in {"release", "done"} => reply'[d] = Error \/ Told(disk, d)'
      BY DEF ReplyInv
    <3>1. CASE rpc(d) = a
      <4>1. d = c
        BY <3>1, ActorFacts
      <4> QED
        BY <1>5, <2>2, <3>1, <4>1
    <3>2. CASE rpc(d) # a
      BY <2>1, <3>2
    <3> QED
      BY <3>1, <3>2
<1> QED
  BY <1>8, <1>9

\* The snapshot takes the one change that the transaction inside has made.
LEMMA SaveChange ==
  ASSUME SnapshotInv, NEW a \in Actor, Save(a)
  PROVE  Left(disk, disk', a[1]) /\ disk' \in Store /\ disk \in Store /\ a[1] \in Call
<1>1. a[1] \in Call /\ home[a[1]] \in Replica
  BY UnderWay DEF SnapshotInv, Save
<1> QED
  BY <1>1 DEF SnapshotInv, MapInv, Save, TypeInv, TypeOK

\* What was told of the snapshot is true of the next one.
LEMMA ToldOn ==
  ASSUME SnapshotInv, NEW a \in Actor, Save(a), NEW c \in Call, Told(disk, c)
  PROVE  Told(disk, c)'
<1>1. reply'[c] = reply[c] /\ request'[c] = request[c]
  BY DEF Save, transaction
<1>2. reply[c].task \in TaskId /\ disk[reply[c].task] # None
  BY DEF Told, Owns
<1> QED
  BY <1>1, <1>2, SaveChange, LeftStays DEF Told, Owns

\* Saving puts the snapshot where the map is; what others were told stays true.
LEMMA MapSave == ASSUME SnapshotInv, NEW a \in Actor, Save(a) PROVE MapInv' /\ ReplyInv'
<1>1. /\ phase[a] = "save" /\ phase'[a] = "release" /\ \A b \in Actor : b # a => phase'[b] = phase[b]
      /\ disk' = tasks[home[a[1]]] /\ UNCHANGED <<tasks, request, home, detached, reply>>
  BY DEF Save, Goto, transaction, SnapshotInv, TypeInv, TypeOK
<1>2. \A b \in Actor : b # a => phase[b] \notin Holding
  BY <1>1, Sole DEF SnapshotInv, Holding
<1>3. \A b \in Actor : phase'[b] \notin {"execute", "save"}
  BY <1>1, <1>2 DEF Holding
<1>4. \A c \in Call : phase'[rpc(c)] \in {"acquire", "load"} => disk'[c] = None
  <2> SUFFICES ASSUME NEW c \in Call, phase'[rpc(c)] \in {"acquire", "load"} PROVE disk'[c] = None
    OBVIOUS
  <2>1. phase[rpc(c)] \in {"acquire", "load"} /\ disk[c] = None
    BY <1>1, ActorFacts DEF SnapshotInv, MapInv
  <2>2. a[1] # c
    <3>1. a # rpc(c)
      BY <1>1, <2>1
    <3>2. a # job(c)
      BY <1>1, <2>1 DEF SnapshotInv, MapInv
    <3> QED
      BY <3>1, <3>2, ActorFacts
  <2> QED
    BY <2>1, <2>2, SaveChange DEF Left, TaskId
<1>5. \A c \in Call : phase'[job(c)] # "idle" => phase'[rpc(c)] \notin {"idle", "acquire", "load"}
  <2> SUFFICES ASSUME NEW c \in Call, phase'[job(c)] # "idle"
               PROVE  phase'[rpc(c)] \notin {"idle", "acquire", "load"}
    OBVIOUS
  <2>1. phase[job(c)] # "idle"
    BY <1>1, ActorFacts
  <2> QED
    BY <1>1, <2>1, ActorFacts DEF SnapshotInv, MapInv
<1>6. MapInv'
  BY <1>1, <1>3, <1>4, <1>5 DEF SnapshotInv, MapInv
<1>7. ReplyInv'
  <2> SUFFICES ASSUME NEW c \in Call, phase'[rpc(c)] \in {"release", "done"}
               PROVE  reply'[c] = Error \/ Told(disk, c)'
    BY <1>3, ActorFacts DEF ReplyInv
  <2>1. CASE rpc(c) = a
    <3>1. Told(tasks[home[c]], c) /\ a[1] = c
      BY <1>1, <2>1, ActorFacts DEF SnapshotInv, ReplyInv
    <3> QED
      BY <1>1, <3>1 DEF Told, Owns
  <2>2. CASE rpc(c) # a
    <3>1. reply[c] = Error \/ Told(disk, c)
      BY <1>1, <2>2, ActorFacts DEF SnapshotInv, ReplyInv
    <3> QED
      BY <1>1, <3>1, ToldOn
  <2> QED
    BY <2>1, <2>2
<1> QED
  BY <1>6, <1>7

\* The transactions of a process that stops are gone, those of others go on.
LEMMA MapCrash == ASSUME SnapshotInv, NEW p \in Replica, Crash(p) PROVE MapInv' /\ ReplyInv'
<1>1. /\ \A a \in Actor : \/ phase'[a] = phase[a] /\ (home[a[1]] = p => phase[a] \in {"idle", "done"})
                          \/ phase'[a] = "dead" /\ phase[a] # "idle"
      /\ UNCHANGED <<disk, request, home, reply>>
  BY DEF Crash
<1>2. \A r \in Replica : r # p => tasks'[r] = tasks[r]
  BY DEF Crash, SnapshotInv, TypeInv, TypeOK
<1>3. \A a \in Actor : phase'[a] \in {"execute", "save"} =>
        phase'[a] = phase[a] /\ tasks'[home[a[1]]] = tasks[home[a[1]]]
  <2> SUFFICES ASSUME NEW a \in Actor, phase'[a] \in {"execute", "save"}
               PROVE  phase'[a] = phase[a] /\ tasks'[home[a[1]]] = tasks[home[a[1]]]
    OBVIOUS
  <2>1. phase'[a] = phase[a] /\ home[a[1]] # p
    BY <1>1
  <2>2. home[a[1]] \in Replica
    BY <2>1, UnderWay DEF SnapshotInv
  <2> QED
    BY <1>2, <2>1, <2>2
<1>4. detached' = {}
  BY DEF Crash, SnapshotInv, MapInv
<1>5. \A c \in Call : phase'[rpc(c)] \in {"acquire", "load"} => phase'[rpc(c)] = phase[rpc(c)]
  BY <1>1, ActorFacts
<1>6. \A c \in Call : phase'[job(c)] # "idle" => phase'[rpc(c)] \notin {"idle", "acquire", "load"}
  <2> SUFFICES ASSUME NEW c \in Call, phase'[job(c)] # "idle"
               PROVE  phase'[rpc(c)] \notin {"idle", "acquire", "load"}
    OBVIOUS
  <2>1. phase[job(c)] # "idle"
    BY <1>1, ActorFacts
  <2> QED
    BY <1>1, <2>1, ActorFacts DEF SnapshotInv, MapInv
<1>7. MapInv'
  BY <1>1, <1>3, <1>4, <1>5, <1>6 DEF SnapshotInv, MapInv
<1>8. ReplyInv'
  <2> SUFFICES ASSUME NEW c \in Call
               PROVE  /\ phase'[rpc(c)] = "execute" =>
                           /\ request[c].method = "SendMessage"
                           /\ Owns(tasks'[home[c]], Target(c, request[c]), request[c].principal)
                           /\ request[c].message \in tasks'[home[c]][Target(c, request[c])].history
                      /\ phase'[rpc(c)] = "save" => Told(tasks[home[c]], c)'
                      /\ phase'[rpc(c)] \in {"release", "done"} => reply[c] = Error \/ Told(disk, c)'
    BY <1>1 DEF ReplyInv
  <2>1. phase'[rpc(c)] = "execute" =>
          /\ request[c].method = "SendMessage"
          /\ Owns(tasks'[home[c]], Target(c, request[c]), request[c].principal)
          /\ request[c].message \in tasks'[home[c]][Target(c, request[c])].history
    BY <1>3, ActorFacts DEF SnapshotInv, ReplyInv
  <2>2. phase'[rpc(c)] = "save" => Told(tasks[home[c]], c)'
    BY <1>1, <1>3, ActorFacts DEF SnapshotInv, ReplyInv, Told, Owns
  <2>3. phase'[rpc(c)] \in {"release", "done"} => reply[c] = Error \/ Told(disk, c)'
    BY <1>1, ActorFacts DEF SnapshotInv, ReplyInv, Told, Owns
  <2> QED
    BY <2>1, <2>2, <2>3
<1> QED
  BY <1>7, <1>8

\* Every step keeps the map one change ahead and the replies true.
LEMMA MapStep == ASSUME SnapshotInv, [Next]_vars PROVE MapInv' /\ ReplyInv'
<1> TypeOK
  BY DEF SnapshotInv, TypeInv
<1>1. ASSUME NEW c \in Call, NEW r \in Requests, NEW p \in Replica, Arrive(c, r, p)
      PROVE  MapInv' /\ ReplyInv'
  <2>1. /\ phase[rpc(c)] = "idle" /\ phase'[rpc(c)] = "acquire" /\ disk[c] = None
        /\ \A a \in Actor : a # rpc(c) => phase'[a] = phase[a]
        /\ \A d \in Call : d # c => request'[d] = request[d] /\ home'[d] = home[d]
        /\ UNCHANGED <<disk, tasks, detached, reply>>
    BY <1>1, ActorFacts DEF Arrive, Goto, TypeOK
  <2>2. phase[job(c)] = "idle"
    BY <2>1 DEF SnapshotInv, TypeInv
  <2>3. \A a \in Actor : phase'[a] \in {"execute", "save"} => a[1] # c /\ phase'[a] = phase[a] /\ a[1] \in Call
    BY <2>1, <2>2, ActorFacts
  <2>4. MapInv'
    <3>1. \A d \in Call : phase'[job(d)] # "idle" => phase'[rpc(d)] \notin {"idle", "acquire", "load"}
      BY <2>1, <2>2, ActorFacts DEF SnapshotInv, MapInv
    <3>2. \A d \in Call : phase'[rpc(d)] \in {"acquire", "load"} => disk[d] = None
      BY <2>1, ActorFacts DEF SnapshotInv, MapInv
    <3> QED
      BY <2>1, <2>3, <3>1, <3>2 DEF SnapshotInv, MapInv
  <2>5. ReplyInv'
    <3>1. \A d \in Call : phase'[rpc(d)] \in {"execute", "save", "release", "done"} =>
            d # c /\ phase'[rpc(d)] = phase[rpc(d)]
      BY <2>1, ActorFacts
    <3> QED
      BY <2>1, <3>1 DEF SnapshotInv, ReplyInv, Told, Owns
  <2> QED
    BY <2>4, <2>5
<1>2. ASSUME NEW c \in Call, Handler(c) PROVE MapInv' /\ ReplyInv'
  BY <1>2, MapHandler
<1>3. ASSUME NEW a \in Actor, Transaction(a) PROVE MapInv' /\ ReplyInv'
  <2>1. CASE Acquire(a)
    BY <2>1, QuietStep DEF Acquire, transaction
  <2>2. CASE FindStale(a) \/ BreakLock(a)
    BY <2>2 DEF FindStale, BreakLock, SnapshotInv, LockInv
  <2>3. CASE GiveUp(a)
    <3>1. \A c \in Call : reply'[c] = reply[c] \/ (a = rpc(c) /\ reply'[c] = Error)
      BY <2>3, ActorFacts DEF GiveUp, TypeOK
    <3>2. \A c \in Call : a = rpc(c) => reply'[c] = Error
      BY <2>3, ActorFacts DEF GiveUp, TypeOK
    <3> QED
      BY <2>3, <3>1, <3>2, QuietStep DEF GiveUp
  <2>4. CASE Release(a)
    BY <2>4, QuietStep DEF Release, transaction
  <2>5. CASE Save(a)
    BY <2>5, MapSave
  <2>6. CASE StoreFails(a)
    <3>1. \A c \in Call : reply'[c] = reply[c] \/ (a = rpc(c) /\ reply'[c] = Error)
      BY <2>6, ActorFacts DEF StoreFails, TypeOK
    <3>2. \A c \in Call : a = rpc(c) => reply'[c] = Error
      BY <2>6, ActorFacts DEF StoreFails, TypeOK
    <3> QED
      BY <2>6, <3>1, <3>2, QuietStep DEF StoreFails
  <2>7. ASSUME NEW outcome \in Outcomes, Finish(a, outcome) PROVE MapInv' /\ ReplyInv'
    BY <2>7, MapFinish
  <2> QED
    BY <1>3, <2>1, <2>2, <2>3, <2>4, <2>5, <2>6, <2>7 DEF Transaction
<1>4. ASSUME NEW p \in Replica, Crash(p) PROVE MapInv' /\ ReplyInv'
  BY <1>4, MapCrash
<1>5. CASE Age \/ UNCHANGED vars
  <2>1. UNCHANGED <<disk, tasks, request, home, phase, detached, reply>>
    BY <1>5 DEF Age, transaction, vars
  <2> QED
    BY <2>1 DEF SnapshotInv, MapInv, ReplyInv, Told, Owns
<1> QED
  BY <1>1, <1>2, <1>3, <1>4, <1>5 DEF Next, Idle

\* The invariant in every state, while no lock directory grows old.
LEMMA AlwaysSnapshot == ASSUME NoLockAges PROVE Spec => []SnapshotInv
<1>1. Init => SnapshotInv
  BY TypeInit, LockInit, MapInit DEF SnapshotInv
<1>2. SnapshotInv /\ [Next]_vars => SnapshotInv'
  BY TypeStep, LockStep, MapStep DEF SnapshotInv
<1> QED
  BY <1>1, <1>2, PTL DEF Spec

\* While nobody breaks a lock, what a client was told of a task is in the
\* snapshot and stays true there, whatever crashes, gives up or fails to save.
THEOREM AnswersDurable == ASSUME NoLockAges PROVE Spec => []AnswerIsDurable
<1>1. SnapshotInv => AnswerIsDurable
  BY DEF SnapshotInv, ReplyInv, AnswerIsDurable, Told
<1> QED
  BY <1>1, AlwaysSnapshot, PTL

\* A snapshot starts without tasks or with an open one of another producer.
LEMMA PromiseInit == Init => Promise!Init
<1> SUFFICES ASSUME Init PROVE Promise!Init
  OBVIOUS
<1>1. disk \in Store
  BY InitialDiskType DEF Init
<1>2. CASE disk = EmptyStore
  BY <1>1, <1>2, SameTerms DEF Promise!Init, EmptyStore
<1>3. CASE disk # EmptyStore
  <2>1. PICK t \in TaskId, p \in Principal, s \in ForeignStates, m \in MessageId :
          disk = [EmptyStore EXCEPT ![t] = [owner |-> p, state |-> s, history |-> {m}, artifacts |-> 0]]
    BY <1>3 DEF Init, InitialDisks
  <2>2. /\ disk[t] = [owner |-> p, state |-> s, history |-> {m}, artifacts |-> 0]
        /\ \A u \in TaskId : u # t => disk[u] = None
    BY <2>1 DEF EmptyStore
  <2>3. s \notin TERMINAL_TASK_STATES \cup {"WORKING"}
    BY StoreAssumption DEF StoreAssumption, TERMINAL_TASK_STATES
  <2>4. Indexed(disk, p, m) = {t}
    <3>1. disk[t] # None /\ disk[t].owner = p /\ m \in disk[t].history
      <4>1. disk[t] \in StoredTask
        BY <2>2, StoreAssumption DEF StoreAssumption, StoredTask, TASK_STATES
      <4> QED
        BY <2>2, <4>1, NoneAssumption DEF NoneAssumption
    <3> QED
      BY <2>2, <3>1 DEF Indexed, Owns
  <2>5. \A u \in TaskId : disk[u] # None => u = t
    BY <2>2
  <2>6. disk[t].owner = p /\ disk[t].history = {m} /\ disk[t].state = s
    BY <2>2
  <2> QED
    BY <1>1, <2>3, <2>4, <2>5, <2>6, SameTerms DEF Promise!Init
<1> QED
  BY <1>2, <1>3

\* Only Save changes the snapshot.
LEMMA OnlySaves == ASSUME [Next]_vars PROVE UNCHANGED disk \/ \E a \in Actor : Save(a)
BY DEF Next, Handler, SendKnown, SendRefused, SendAndWait, SendAndReturn, Get, Cancel, Denied, RunJob,
       Load, Transaction, Acquire, FindStale, BreakLock, GiveUp, Release, StoreFails, Finish,
       Arrive, Crash, Age, Idle, vars

\* While nobody breaks a lock, the snapshot that the replicas share keeps what
\* A2ATaskPromise says: the refinement PromiseKept, under every other fault.
THEOREM ImplementsPromise == ASSUME NoLockAges PROVE Spec => PromiseKept
<1>1. SnapshotInv /\ [Next]_vars => [Promise!Next]_disk
  <2> SUFFICES ASSUME SnapshotInv, [Next]_vars PROVE UNCHANGED disk \/ Promise!Promised(disk, disk')
    BY DEF Promise!Next
  <2>1. CASE UNCHANGED disk
    BY <2>1
  <2>2. ASSUME NEW a \in Actor, Save(a) PROVE UNCHANGED disk \/ Promise!Promised(disk, disk')
    BY <2>2, SaveChange DEF Left
  <2> QED
    BY <2>1, <2>2, OnlySaves
<1> QED
  BY <1>1, PromiseInit, AlwaysSnapshot, PTL DEF Spec, PromiseKept, Promise!Spec

-----------------------------------------------------------------------------
(* A settled message is not executed again *)

\* The snapshot has no tasks of another producer, so none that waits for input.
OnlyOwnTasks == ForeignStates = {}

\* The tasks of a store are those that calls created, each with the one message
\* of its call, working or ended, and no message has two.
Own(store, requests) ==
  /\ \A t \in TaskId : store[t] # None =>
       /\ requests[t] \in Requests /\ requests[t].method = "SendMessage" /\ requests[t].task = None
       /\ store[t].owner = requests[t].principal /\ store[t].history = {requests[t].message}
       /\ store[t].state \in TERMINAL_TASK_STATES \cup {"WORKING"}
  /\ \A p \in Principal, m \in MessageId : \A t, u \in Indexed(store, p, m) : t = u

\* No call continues a task, then; a job belongs to the call that made its task.
OwnInv ==
  /\ Own(disk, request)
  /\ \A a \in Actor : phase[a] \in {"execute", "save"} => Own(tasks[home[a[1]]], request)
  /\ \A c \in Call : phase[job(c)] # "idle" => request[c].task = None

\* A message is accepted for a task of its own.
LEMMA NotContinued ==
  ASSUME Own(disk, request), NEW r \in Request, r.method = "SendMessage", Fresh(r)
  PROVE  r.task = None
BY RequestFields DEF Own, Fresh, Refused, Continuable, Owns

\* A call that creates its task adds one to those of the store.
LEMMA OwnPrepare ==
  ASSUME NEW store \in Store, Own(store, request), NEW c \in Call, store[c] = None,
         request[c] \in Requests, request[c] \in Request, request[c].method = "SendMessage",
         request[c].task = None, Indexed(store, request[c].principal, request[c].message) = {}
  PROVE  Own(prepareTask(store, c, request[c]), request)
<1> DEFINE r == request[c]
           to == prepareTask(store, c, r)
<1>1. ~Refused(store, r) /\ Target(c, r) = c
  BY DEF Refused, Target
<1>2. /\ to[c] # None /\ to[c].state = "WORKING"
      /\ \A u \in TaskId : u # c => to[u] = store[u]
      /\ Indexed(to, r.principal, r.message) = {c}
      /\ \A p \in Principal, m \in MessageId :
           <<p, m>> # <<r.principal, r.message>> => Indexed(to, p, m) = Indexed(store, p, m)
  BY <1>1, PrepareEffect
<1>3. to[c].owner = r.principal /\ to[c].history = {r.message}
  <2>1. to = [store EXCEPT ![c] = [owner |-> r.principal, state |-> "WORKING",
                                   history |-> {r.message}, artifacts |-> 0]]
    BY DEF prepareTask, createTask
  <2> QED
    BY <2>1 DEF Store, TaskId
<1> HIDE DEF to
<1>4. \A p \in Principal, m \in MessageId : \A t, u \in Indexed(to, p, m) : t = u
  BY <1>2 DEF Own
<1>5. \A t \in TaskId : to[t] # None =>
       /\ request[t] \in Requests /\ request[t].method = "SendMessage" /\ request[t].task = None
       /\ to[t].owner = request[t].principal /\ to[t].history = {request[t].message}
       /\ to[t].state \in TERMINAL_TASK_STATES \cup {"WORKING"}
  BY <1>2, <1>3 DEF Own
<1> QED
  BY <1>4, <1>5 DEF Own, to

\* A result or a cancellation leaves the same tasks.
LEMMA OwnChange ==
  ASSUME NEW from \in Store, NEW to \in Store, Own(from, request), NEW t \in TaskId,
         from[t] # None, to[t] # None, \A u \in TaskId : u # t => to[u] = from[u],
         to[t].owner = from[t].owner, to[t].history = from[t].history,
         to[t].state \in TERMINAL_TASK_STATES \cup {"WORKING"}
  PROVE  Own(to, request)
<1>1. \A p \in Principal, m \in MessageId : Indexed(to, p, m) = Indexed(from, p, m)
  BY SameIndex
<1>2. \A p \in Principal, m \in MessageId : \A u, v \in Indexed(to, p, m) : u = v
  BY <1>1 DEF Own
<1>3. \A u \in TaskId : to[u] # None =>
       /\ request[u] \in Requests /\ request[u].method = "SendMessage" /\ request[u].task = None
       /\ to[u].owner = request[u].principal /\ to[u].history = {request[u].message}
       /\ to[u].state \in TERMINAL_TASK_STATES \cup {"WORKING"}
  <2> TAKE u \in TaskId
  <2>1. CASE u = t
    BY <2>1 DEF Own
  <2>2. CASE u # t
    BY <2>2 DEF Own
  <2> QED
    BY <2>1, <2>2
<1> QED
  BY <1>2, <1>3 DEF Own

\* A handler that has loaded leaves tasks of calls in the map.
LEMMA OwnLoaded ==
  ASSUME SnapshotInv, OwnInv, NEW a \in Actor, phase[a] = "load",
         NEW store, Own(store, request), Keep(a[1], store),
         \/ \E where \in {"execute", "save", "release"} : Goto(a, where)
         \/ /\ phase' = [phase EXCEPT ![a] = "save", ![job(a[1])] = "acquire"]
            /\ request[a[1]].task = None,
         UNCHANGED <<disk, request, home>>
  PROVE  OwnInv'
<1>1. a[1] \in Call /\ home[a[1]] \in Replica /\ job(a[1]) \in Actor
  BY UnderWay, ActorFacts DEF SnapshotInv
<1>2. \A b \in Actor : b # a => phase[b] \notin Holding
  BY Sole DEF SnapshotInv, Holding
<1>3. \A b \in Actor : phase'[b] \in {"execute", "save"} => b = a
  BY <1>1, <1>2 DEF SnapshotInv, TypeInv, TypeOK, Goto, Holding
<1>4. tasks'[home[a[1]]] = store
  BY <1>1 DEF SnapshotInv, TypeInv, TypeOK, Keep
<1>5. \A c \in Call : phase'[job(c)] # "idle" => request[c].task = None
  <2> TAKE c \in Call
  <2>1. CASE job(c) = job(a[1]) /\ phase' = [phase EXCEPT ![a] = "save", ![job(a[1])] = "acquire"]
    BY <1>1, <2>1, ActorFacts DEF SnapshotInv, TypeInv, TypeOK, Goto, OwnInv
  <2>2. CASE phase'[job(c)] # "idle" => phase[job(c)] # "idle"
    BY <2>2 DEF OwnInv
  <2> QED
    BY <1>1, <2>1, <2>2, ActorFacts DEF SnapshotInv, TypeInv, TypeOK, Goto
<1> QED
  BY <1>3, <1>4, <1>5 DEF OwnInv

\* Every handler: only a new task or a cancellation changes the map.
LEMMA OwnHandler == ASSUME SnapshotInv, OwnInv, NEW c \in Call, Handler(c) PROVE OwnInv'
<1> DEFINE r == request[c]
<1>1. rpc(c) \in Actor /\ rpc(c)[1] = c /\ job(c) \in Actor /\ job(c)[1] = c /\ disk \in Store
  BY ActorFacts DEF SnapshotInv, TypeInv, TypeOK
<1>2. phase[rpc(c)] = "load" => r \in Request /\ r \in Requests /\ disk[c] = None
  BY <1>1, UnderWay DEF SnapshotInv, MapInv, TypeInv
<1>3. Own(disk, request)
  BY DEF OwnInv
<1>4. phase[rpc(c)] = "load" /\ r.method = "SendMessage" /\ Fresh(r) =>
        r.task = None /\ Own(prepareTask(disk, c, r), request)
  BY <1>1, <1>2, <1>3, NotContinued, OwnPrepare DEF Fresh
<1>5. CASE SendKnown(c) \/ SendRefused(c) \/ Get(c) \/ Denied(c)
  <2>1. /\ phase[rpc(c)] = "load" /\ UNCHANGED <<disk, request, home>> /\ Keep(c, disk)
        /\ \E where \in {"execute", "save", "release"} : Goto(rpc(c), where)
    BY <1>5 DEF SendKnown, SendRefused, Get, Denied, Fail, Return, Load
  <2> QED
    BY <1>1, <1>3, <2>1, OwnLoaded
<1>6. CASE SendAndWait(c)
  <2>1. /\ phase[rpc(c)] = "load" /\ r.method = "SendMessage" /\ Fresh(r)
        /\ UNCHANGED <<disk, request, home>> /\ Keep(c, prepareTask(disk, c, r))
        /\ Goto(rpc(c), "execute")
    BY <1>6 DEF SendAndWait, Load
  <2> QED
    BY <1>1, <1>4, <2>1, OwnLoaded
<1>7. CASE SendAndReturn(c)
  <2>1. /\ phase[rpc(c)] = "load" /\ r.method = "SendMessage" /\ Fresh(r)
        /\ UNCHANGED <<disk, request, home>> /\ Keep(c, prepareTask(disk, c, r))
        /\ phase' = [phase EXCEPT ![rpc(c)] = "save", ![job(c)] = "acquire"]
    BY <1>7 DEF SendAndReturn, Load, Return
  <2> QED
    BY <1>1, <1>4, <2>1, OwnLoaded
<1>8. CASE Cancel(c)
  <2> DEFINE to == cancelTask(disk, r.task)
  <2>1. /\ phase[rpc(c)] = "load" /\ r.method = "CancelTask" /\ Cancelable(disk, r)
        /\ UNCHANGED <<disk, request, home>> /\ Goto(rpc(c), "save") /\ Keep(c, to)
    BY <1>8 DEF Cancel, Load, Return
  <2>2. to \in Store
    BY <1>1, <1>2, <2>1, CancelType
  <2>3. /\ r.task \in TaskId /\ disk[r.task] # None /\ to[r.task] # None
        /\ \A u \in TaskId : u # r.task => to[u] = disk[u]
        /\ to[r.task].state = "CANCELED"
        /\ to[r.task].owner = disk[r.task].owner /\ to[r.task].history = disk[r.task].history
    BY <1>1, <1>2, <2>1, <2>2, CancelEffect
  <2> HIDE DEF to
  <2>4. Own(to, request)
    BY <1>1, <1>3, <2>2, <2>3, OwnChange DEF TERMINAL_TASK_STATES
  <2> QED
    BY <1>1, <2>1, <2>4, OwnLoaded
<1>9. CASE RunJob(c)
  <2>1. /\ phase[job(c)] = "load" /\ UNCHANGED <<disk, request, home>> /\ Keep(c, disk)
        /\ \E where \in {"execute", "save", "release"} : Goto(job(c), where)
    BY <1>9 DEF RunJob
  <2> QED
    BY <1>1, <1>3, <2>1, OwnLoaded
<1> QED
  BY <1>5, <1>6, <1>7, <1>8, <1>9 DEF Handler

\* A call that arrives names no task of the snapshot, nor one of a map.
LEMMA OwnArrive ==
  ASSUME SnapshotInv, OwnInv, NEW c \in Call, NEW r \in Requests, NEW p \in Replica, Arrive(c, r, p)
  PROVE  OwnInv'
<1>1. /\ disk[c] = None /\ phase[rpc(c)] = "idle" /\ phase[job(c)] = "idle"
      /\ \A a \in Actor : a # rpc(c) => phase'[a] = phase[a]
      /\ phase'[rpc(c)] = "acquire"
      /\ \A d \in Call : d # c => request'[d] = request[d] /\ home'[d] = home[d]
      /\ UNCHANGED <<disk, tasks>>
  BY ActorFacts DEF Arrive, Goto, SnapshotInv, TypeInv, TypeOK
<1>2. ASSUME NEW store, Own(store, request), store[c] = None PROVE Own(store, request')
  BY <1>1, <1>2 DEF Own, TaskId
<1>3. ASSUME NEW a \in Actor, phase'[a] \in {"execute", "save"}
      PROVE  Own(tasks'[home'[a[1]]], request')
  <2>1. a[1] \in Call /\ a[1] # c /\ phase[a] = phase'[a]
    BY <1>1, <1>3, ActorFacts
  <2>2. home'[a[1]] = home[a[1]] /\ Own(tasks[home[a[1]]], request)
    BY <1>1, <1>3, <2>1 DEF OwnInv
  <2> DEFINE map == tasks[home[a[1]]]
             t == Target(a[1], request[a[1]])
  <2>3. CASE phase[a] = "save"
    <3>1. map[c] = None
      BY <1>1, <2>1, <2>3 DEF SnapshotInv, MapInv, Left, TaskId
    <3> QED
      BY <1>1, <1>2, <2>2, <3>1
  <2>4. CASE phase[a] = "execute"
    <3>1. Ahead(disk, map, a[1], t)
      BY <2>4 DEF SnapshotInv, MapInv
    <3> HIDE DEF map, t
    <3>2. t # c
      BY <1>1, <2>1, <3>1 DEF Ahead, Promise!Continued
    <3>3. PICK v : map = [disk EXCEPT ![t] = v]
      BY <3>1 DEF Ahead
    <3>4. map[c] = None
      BY <1>1, <3>2, <3>3 DEF SnapshotInv, TypeInv, TypeOK, Store, TaskId
    <3> QED
      BY <1>1, <1>2, <2>2, <3>4 DEF map
  <2> QED
    BY <1>3, <2>1, <2>3, <2>4
<1>4. \A d \in Call : phase'[job(d)] # "idle" => request'[d].task = None
  BY <1>1, ActorFacts DEF OwnInv
<1> QED
  BY <1>1, <1>2, <1>3, <1>4 DEF OwnInv

\* A result ends the task the map holds.
LEMMA OwnFinish ==
  ASSUME SnapshotInv, OwnInv, NEW a \in Actor, NEW outcome \in Outcomes, Finish(a, outcome)
  PROVE  OwnInv'
<1> DEFINE c == a[1]
           t == Target(c, request[c])
           map == tasks[home[c]]
           end == settle(map, t, outcome)
<1>1. c \in Call /\ home[c] \in Replica /\ t \in TaskId /\ phase[a] = "execute" /\ map \in Store
  BY UnderWay DEF Finish, SnapshotInv, TypeInv, TypeOK
<1>2. a \notin detached /\ Own(map, request) /\ map[t] # None
  BY <1>1 DEF SnapshotInv, MapInv, OwnInv, Ahead
<1>3. /\ end \in Store /\ end[t] # None
      /\ \A u \in TaskId : u # t => end[u] = map[u]
      /\ end[t].owner = map[t].owner /\ end[t].history = map[t].history
      /\ map[t].state = "CANCELED" => end = map
      /\ map[t].state # "CANCELED" => end[t].state = outcome
  BY <1>1, <1>2, SettleEffect
<1>4. Keep(c, end) /\ Goto(a, "save") /\ UNCHANGED <<disk, request, home>>
  BY <1>2 DEF Finish
<1> HIDE DEF t, end
<1>5. Own(end, request)
  <2>1. end[t].state \in TERMINAL_TASK_STATES \cup {"WORKING"}
    BY <1>3 DEF TERMINAL_TASK_STATES, Outcomes
  <2> HIDE DEF map
  <2> QED
    BY <1>1, <1>2, <1>3, <2>1, OwnChange
<1>6. phase'[a] = "save" /\ \A b \in Actor : b # a => phase'[b] = phase[b]
  BY <1>4 DEF Goto, SnapshotInv, TypeInv, TypeOK
<1>7. \A b \in Actor : phase'[b] \in {"execute", "save"} => b = a
  BY <1>1, <1>6, Sole DEF SnapshotInv, Holding
<1>8. tasks'[home[c]] = end
  BY <1>1, <1>4 DEF Keep, SnapshotInv, TypeInv, TypeOK
<1>9. \A d \in Call : phase'[job(d)] # "idle" => request[d].task = None
  BY <1>1, <1>6, ActorFacts DEF OwnInv
<1> QED
  BY <1>4, <1>5, <1>7, <1>8, <1>9 DEF OwnInv

\* Steps that start no execution, no save and no job, and change no map that one
\* of them uses.
LEMMA OwnQuiet ==
  ASSUME OwnInv, UNCHANGED <<disk, request, home>>,
         \A a \in Actor : phase'[a] \in {"execute", "save"} =>
           phase'[a] = phase[a] /\ tasks'[home[a[1]]] = tasks[home[a[1]]],
         \A a \in Actor : phase'[a] # "idle" => phase[a] # "idle"
  PROVE  OwnInv'
<1>1. \A a \in Actor : phase'[a] \in {"execute", "save"} => Own(tasks'[home[a[1]]], request)
  BY DEF OwnInv
<1>2. \A c \in Call : phase'[job(c)] # "idle" => request[c].task = None
  BY ActorFacts DEF OwnInv
<1> QED
  BY <1>1, <1>2 DEF OwnInv

\* Every step keeps the tasks those of the calls.
LEMMA OwnStep == ASSUME SnapshotInv, OwnInv, [Next]_vars PROVE OwnInv'
<1>1. ASSUME NEW c \in Call, NEW r \in Requests, NEW p \in Replica, Arrive(c, r, p) PROVE OwnInv'
  BY <1>1, OwnArrive
<1>2. ASSUME NEW c \in Call, Handler(c) PROVE OwnInv'
  BY <1>2, OwnHandler
<1>3. ASSUME NEW a \in Actor, Transaction(a) PROVE OwnInv'
  <2>1. ASSUME NEW where \in {"load", "acquire", "stat", "release", "done"}, phase[a] # "idle",
               Goto(a, where), UNCHANGED <<disk, tasks, request, home>>
        PROVE  OwnInv'
    <3>1. \A b \in Actor : phase'[b] = phase[b] \/ (b = a /\ phase'[b] = where)
      BY <2>1 DEF Goto, SnapshotInv, TypeInv, TypeOK
    <3>2. /\ \A b \in Actor : phase'[b] \in {"execute", "save"} =>
               phase'[b] = phase[b] /\ tasks'[home[b[1]]] = tasks[home[b[1]]]
          /\ \A b \in Actor : phase'[b] # "idle" => phase[b] # "idle"
      BY <2>1, <3>1
    <3> QED
      BY <2>1, <3>2, OwnQuiet
  <2>2. CASE Save(a)
    <3>1. /\ disk' = tasks[home[a[1]]] /\ phase[a] = "save" /\ phase'[a] = "release"
          /\ \A b \in Actor : b # a => phase'[b] = phase[b]
          /\ UNCHANGED <<tasks, request, home>>
      BY <2>2 DEF Save, Goto, transaction, SnapshotInv, TypeInv, TypeOK
    <3>2. \A b \in Actor : phase'[b] \notin {"execute", "save"}
      BY <3>1, Sole DEF SnapshotInv, Holding
    <3>3. Own(disk', request)
      BY <3>1 DEF OwnInv
    <3>4. \A c \in Call : phase'[job(c)] # "idle" => request[c].task = None
      BY <3>1, ActorFacts DEF OwnInv
    <3> QED
      BY <3>1, <3>2, <3>3, <3>4 DEF OwnInv
  <2>3. ASSUME NEW outcome \in Outcomes, Finish(a, outcome) PROVE OwnInv'
    BY <2>3, OwnFinish
  <2>4. CASE Acquire(a) \/ FindStale(a) \/ BreakLock(a) \/ GiveUp(a) \/ Release(a) \/ StoreFails(a)
    BY <2>1, <2>4 DEF Acquire, FindStale, BreakLock, GiveUp, Release, StoreFails, transaction
  <2> QED
    BY <1>3, <2>2, <2>3, <2>4 DEF Transaction
<1>4. ASSUME NEW p \in Replica, Crash(p) PROVE OwnInv'
  <2>1. \A a \in Actor : phase'[a] \in {"execute", "save"} =>
          phase'[a] = phase[a] /\ tasks'[home[a[1]]] = tasks[home[a[1]]]
    <3> SUFFICES ASSUME NEW a \in Actor, phase'[a] \in {"execute", "save"}
                 PROVE  phase'[a] = phase[a] /\ tasks'[home[a[1]]] = tasks[home[a[1]]]
      OBVIOUS
    <3>1. phase'[a] = phase[a] /\ home[a[1]] # p
      BY <1>4 DEF Crash
    <3>2. home[a[1]] \in Replica
      BY <3>1, UnderWay DEF SnapshotInv
    <3> QED
      BY <1>4, <3>1, <3>2 DEF Crash, SnapshotInv, TypeInv, TypeOK
  <2>2. \A a \in Actor : phase'[a] # "idle" => phase[a] # "idle"
    BY <1>4 DEF Crash
  <2> QED
    BY <1>4, <2>1, <2>2, OwnQuiet DEF Crash
<1>5. CASE Age \/ UNCHANGED vars
  BY <1>5, OwnQuiet DEF Age, transaction, vars
<1> QED
  BY <1>1, <1>2, <1>3, <1>4, <1>5 DEF Next, Idle

\* Two handlers start an execution.
LEMMA OnlyStarts ==
  ASSUME [Next]_vars
  PROVE  \/ UNCHANGED started
         \/ \E c \in Call : SendAndWait(c)
         \/ \E c \in Call : RunJob(c) /\ InState(disk, Target(c, request[c]), {"WORKING"})
BY DEF Next, Handler, SendKnown, SendRefused, SendAndReturn, Get, Cancel, Denied, RunJob, Return, Fail,
       Load, Transaction, Acquire, FindStale, BreakLock, GiveUp, Release, Save, StoreFails, Finish,
       Arrive, Crash, Age, Idle, vars, transaction

\* While nobody breaks a lock and the snapshot is this program's own, no replica
\* executes a message whose task is settled, after any crash or failed save.
THEOREM SettledStaysSettled == ASSUME NoLockAges, OnlyOwnTasks PROVE Spec => SettledNotRerun
<1> DEFINE Rerun == \A p \in Principal, m \in MessageId :
                      started'[<<p, m>>] # started[<<p, m>>] =>
                        \A t \in Indexed(disk, p, m) : disk[t].state = "WORKING"
<1>1. Init => OwnInv
  <2> SUFFICES ASSUME Init PROVE OwnInv
    OBVIOUS
  <2>1. disk = EmptyStore
    BY DEF Init, InitialDisks, OnlyOwnTasks
  <2>2. Own(disk, request)
    BY <2>1 DEF Own, Indexed, Owns, EmptyStore
  <2> QED
    BY <2>2, ActorFacts DEF Init, OwnInv
<1>2. SnapshotInv /\ OwnInv /\ [Next]_vars => OwnInv'
  BY OwnStep
<1>3. SnapshotInv /\ OwnInv /\ [Next]_vars => [Rerun]_vars
  <2> SUFFICES ASSUME SnapshotInv, OwnInv, [Next]_vars,
                      NEW p \in Principal, NEW m \in MessageId,
                      started'[<<p, m>>] # started[<<p, m>>],
                      NEW t \in Indexed(disk, p, m)
               PROVE  disk[t].state = "WORKING"
    OBVIOUS
  <2>1. ASSUME NEW r, Start(r) PROVE <<p, m>> = <<r.principal, r.message>>
    BY <2>1 DEF Start, SnapshotInv, TypeInv, TypeOK, Key
  <2>2. ASSUME NEW c \in Call, SendAndWait(c) PROVE FALSE
    BY <2>1, <2>2 DEF SendAndWait, Fresh
  <2>3. ASSUME NEW c \in Call, RunJob(c), InState(disk, Target(c, request[c]), {"WORKING"})
        PROVE  disk[t].state = "WORKING"
    <3>1. p = request[c].principal /\ m = request[c].message
      BY <2>1, <2>3 DEF RunJob
    <3>2. Target(c, request[c]) = c
      BY <2>3 DEF RunJob, OwnInv, Target
    <3>3. c \in Indexed(disk, p, m) /\ disk[c].state = "WORKING"
      BY <2>3, <3>1, <3>2 DEF InState, OwnInv, Own, Indexed, Owns, TaskId
    <3>4. t = c
      BY <3>3 DEF OwnInv, Own
    <3> QED
      BY <3>3, <3>4
  <2> QED
    BY <2>2, <2>3, OnlyStarts
<1> QED
  BY <1>1, <1>2, <1>3, AlwaysSnapshot, PTL DEF Spec, SettledNotRerun

-----------------------------------------------------------------------------
(* A message is executed once *)

\* No process crashes and every snapshot is written; waiters may give up.
OnlyTimeouts == Faults \subseteq {"timeout"}

\* A task has the message, in the snapshot or in the map that will be saved.
Entered(p, m) ==
  \/ Indexed(disk, p, m) # {}
  \/ \E a \in Actor : phase[a] \in {"execute", "save"} /\ Indexed(tasks[home[a[1]]], p, m) # {}

\* The message of a call is entered.
Submitted(c) == Entered(request[c].principal, request[c].message)

SameMessage(r, s) == r.principal = s.principal /\ r.message = s.message

\* The inductive invariant: only an entered message has been started, and it has
\* one job, which has not started it as long as it waits.
OnceInv ==
  /\ \A p \in Principal, m \in MessageId :
       started[<<p, m>>] <= 1 /\ (started[<<p, m>>] # 0 => Entered(p, m))
  /\ \A c \in Call : phase[job(c)] # "idle" =>
       /\ Submitted(c)
       /\ phase[job(c)] \in {"acquire", "load"} =>
            started[<<request[c].principal, request[c].message>>] = 0
  /\ \A c, d \in Call :
       phase[job(c)] # "idle" /\ phase[job(d)] # "idle" /\ SameMessage(request[c], request[d]) => c = d

\* The handler of c runs in one of the two transactions of c, alone.
LEMMA HandlerAlone ==
  ASSUME SnapshotInv, NEW c \in Call, Handler(c)
  PROVE  \E a \in {rpc(c), job(c)} :
           /\ phase[a] = "load"
           /\ \A b \in Actor : b # a => phase[b] \notin Holding
           /\ UNCHANGED <<disk, request, home>>
           /\ phase'[a] \in {"execute", "save", "release"}
           /\ \A b \in Actor : b # a => phase'[b] = phase[b] \/ (b = job(c) /\ SendAndReturn(c))
<1>1. rpc(c) \in Actor /\ job(c) \in Actor /\ phase \in [Actor -> Phase]
  BY ActorFacts DEF SnapshotInv, TypeInv, TypeOK
<1>2. ASSUME NEW a \in {rpc(c), job(c)}, phase[a] = "load", UNCHANGED <<disk, request, home>>,
             NEW where \in {"execute", "save", "release"},
             Goto(a, where) \/ (SendAndReturn(c) /\ a = rpc(c) /\ where = "save")
      PROVE  \E x \in {rpc(c), job(c)} :
               /\ phase[x] = "load"
               /\ \A b \in Actor : b # x => phase[b] \notin Holding
               /\ UNCHANGED <<disk, request, home>>
               /\ phase'[x] \in {"execute", "save", "release"}
               /\ \A b \in Actor : b # x => phase'[b] = phase[b] \/ (b = job(c) /\ SendAndReturn(c))
  <2>1. \A b \in Actor : b # a => phase[b] \notin Holding
    BY <1>1, <1>2, Sole DEF SnapshotInv, Holding
  <2>2. /\ phase'[a] = where
        /\ \A b \in Actor : b # a => phase'[b] = phase[b] \/ (b = job(c) /\ SendAndReturn(c))
    BY <1>1, <1>2, ActorFacts DEF Goto, SendAndReturn
  <2> QED
    BY <1>2, <2>1, <2>2
<1>3. CASE SendKnown(c)
  BY <1>2, <1>3 DEF SendKnown, Load
<1>4. CASE SendRefused(c) \/ Denied(c)
  BY <1>2, <1>4 DEF SendRefused, Denied, Fail, Load
<1>5. CASE SendAndWait(c)
  BY <1>2, <1>5 DEF SendAndWait, Load
<1>6. CASE SendAndReturn(c)
  BY <1>2, <1>6 DEF SendAndReturn, Load
<1>7. CASE Get(c) \/ Cancel(c)
  BY <1>2, <1>7 DEF Get, Cancel, Load
<1>8. CASE RunJob(c)
  <2>1. \E where \in {"execute", "save", "release"} : Goto(job(c), where)
    BY <1>8 DEF RunJob
  <2> QED
    BY <1>2, <1>8, <2>1 DEF RunJob
<1> QED
  BY <1>3, <1>4, <1>5, <1>6, <1>7, <1>8 DEF Handler

\* A message that a task has stays entered: what is in the map is saved.
LEMMA EnteredStays ==
  ASSUME OnlyTimeouts, SnapshotInv, [Next]_vars,
         NEW p \in Principal, NEW m \in MessageId, Entered(p, m)
  PROVE  Entered(p, m)'
<1> DEFINE InMap(a) == phase[a] \in {"execute", "save"} /\ Indexed(tasks[home[a[1]]], p, m) # {}
<1>1. ASSUME UNCHANGED disk, \A a \in Actor : InMap(a) => InMap(a)' PROVE Entered(p, m)'
  BY <1>1 DEF Entered
<1>2. ASSUME NEW c \in Call, Handler(c) PROVE Entered(p, m)'
  <2>1. \A b \in Actor : phase[b] \notin {"execute", "save"}
    BY <1>2, HandlerAlone, ActorFacts DEF Holding
  <2>2. UNCHANGED disk
    BY <1>2, HandlerAlone
  <2> QED
    BY <2>1, <2>2 DEF Entered
<1>3. ASSUME NEW a \in Actor, Save(a) PROVE Entered(p, m)'
  <2>1. CASE Indexed(disk, p, m) # {}
    <3>1. PICK t \in TaskId : disk[t] # None /\ disk[t].owner = p /\ m \in disk[t].history
      BY <2>1 DEF Indexed, Owns
    <3>2. disk'[t] # None /\ disk'[t].owner = p /\ m \in disk'[t].history
      BY <1>3, <3>1, SaveChange, LeftStays
    <3> QED
      BY <3>2 DEF Entered, Indexed, Owns
  <2>2. ASSUME NEW b \in Actor, InMap(b) PROVE Entered(p, m)'
    <3>1. b = a
      BY <1>3, <2>2, Sole DEF Save, Holding, SnapshotInv
    <3>2. disk' = tasks[home[b[1]]]
      BY <1>3, <3>1 DEF Save
    <3>3. Indexed(disk', p, m) # {}
      BY <2>2, <3>2
    <3> QED
      BY <3>3 DEF Entered, Indexed, Owns
  <2> QED
    BY <2>1, <2>2 DEF Entered
<1>4. ASSUME NEW a \in Actor, NEW outcome \in Outcomes, Finish(a, outcome) PROVE Entered(p, m)'
  <2> DEFINE c == a[1]
             t == Target(c, request[c])
             map == tasks[home[c]]
             end == settle(map, t, outcome)
  <2>1. c \in Call /\ home[c] \in Replica /\ t \in TaskId /\ phase[a] = "execute" /\ map \in Store
    BY <1>4, UnderWay DEF Finish, SnapshotInv, TypeInv, TypeOK
  <2>2. a \notin detached /\ map[t] # None
    BY <2>1 DEF SnapshotInv, MapInv, Ahead
  <2>3. Indexed(end, p, m) = Indexed(map, p, m)
    BY <2>1, <2>2, SettleEffect
  <2>4. Keep(c, end) /\ Goto(a, "save") /\ UNCHANGED <<disk, request, home>>
    BY <1>4, <2>2 DEF Finish
  <2> HIDE DEF end, t
  <2>5. tasks'[home[c]] = end /\ phase'[a] = "save"
    BY <2>1, <2>4 DEF Keep, Goto, SnapshotInv, TypeInv, TypeOK
  <2>6. \A b \in Actor : InMap(b) => b = a
    BY <2>1, Sole DEF Holding, SnapshotInv
  <2>7. InMap(a) => InMap(a)'
    <3> SUFFICES ASSUME InMap(a) PROVE InMap(a)'
      OBVIOUS
    <3>1. tasks'[home'[a[1]]] = end /\ Indexed(end, p, m) # {}
      BY <2>3, <2>4, <2>5
    <3> QED
      BY <2>5, <3>1 DEF Indexed, Owns
  <2> QED
    BY <1>1, <2>4, <2>6, <2>7
<1>5. ASSUME UNCHANGED <<disk, tasks>>,
             \A b \in Actor : phase[b] \in {"execute", "save"} =>
               phase'[b] = phase[b] /\ home'[b[1]] = home[b[1]]
      PROVE  Entered(p, m)'
  <2>1. \A b \in Actor : InMap(b) => InMap(b)'
    BY <1>5 DEF Indexed, Owns
  <2> QED
    BY <1>1, <1>5, <2>1
<1>6. ASSUME NEW a \in Actor, NEW where, phase[a] \notin {"execute", "save"}, Goto(a, where),
             UNCHANGED <<disk, tasks, home>>
      PROVE  Entered(p, m)'
  <2>1. \A b \in Actor : b # a => phase'[b] = phase[b]
    BY <1>6 DEF Goto, SnapshotInv, TypeInv, TypeOK
  <2> QED
    BY <1>5, <1>6, <2>1
<1>7. ASSUME NEW c \in Call, NEW r \in Requests, NEW q \in Replica, Arrive(c, r, q) PROVE Entered(p, m)'
  <2>1. \A b \in Actor : phase[b] \in {"execute", "save"} =>
          phase'[b] = phase[b] /\ home'[b[1]] = home[b[1]]
    <3> TAKE b \in Actor
    <3> HAVE phase[b] \in {"execute", "save"}
    <3>1. phase[job(c)] = "idle"
      BY <1>7 DEF Arrive, SnapshotInv, TypeInv
    <3>2. b[1] # c /\ b # rpc(c) /\ b[1] \in Call
      BY <1>7, <3>1, ActorFacts DEF Arrive
    <3> QED
      BY <1>7, <3>2 DEF Arrive, Goto, SnapshotInv, TypeInv, TypeOK
  <2> QED
    BY <1>5, <1>7, <2>1 DEF Arrive
<1>8. ASSUME NEW a \in Actor, Acquire(a) \/ FindStale(a) \/ BreakLock(a) \/ GiveUp(a) \/ Release(a)
      PROVE  Entered(p, m)'
  BY <1>6, <1>8 DEF Acquire, FindStale, BreakLock, GiveUp, Release, transaction
<1>9. ASSUME Age \/ UNCHANGED vars PROVE Entered(p, m)'
  BY <1>5, <1>9 DEF Age, vars, transaction
<1>10. /\ \A a \in Actor : ~StoreFails(a)
       /\ \A q \in Replica : ~Crash(q)
  BY DEF OnlyTimeouts, StoreFails, Crash
<1> QED
  BY <1>2, <1>3, <1>4, <1>7, <1>8, <1>9, <1>10 DEF Next, Transaction, Idle

\* Steps that start nothing and schedule no job.
LEMMA OnceQuiet ==
  ASSUME OnlyTimeouts, SnapshotInv, OnceInv, [Next]_vars, UNCHANGED started,
         \A c \in Call : phase'[job(c)] # "idle" =>
           /\ phase[job(c)] # "idle" /\ request'[c] = request[c]
           /\ phase'[job(c)] \in {"acquire", "load"} => phase[job(c)] \in {"acquire", "load"}
  PROVE  OnceInv'
<1>1. \A p \in Principal, m \in MessageId : Entered(p, m) => Entered(p, m)'
  BY EnteredStays
<1>2. ASSUME NEW c \in Call, phase[job(c)] # "idle"
      PROVE  request[c].principal \in Principal /\ request[c].message \in MessageId
  <2>1. request[c] \in Request /\ request[c].method = "SendMessage"
    BY <1>2, StoreAssumption DEF SnapshotInv, TypeInv, StoreAssumption
  <2> QED
    BY <2>1, RequestFields
<1>3. \A p \in Principal, m \in MessageId :
        started'[<<p, m>>] <= 1 /\ (started'[<<p, m>>] # 0 => Entered(p, m)')
  BY <1>1 DEF OnceInv
<1>4. ASSUME NEW c \in Call, phase'[job(c)] # "idle"
      PROVE  /\ Submitted(c)'
             /\ phase'[job(c)] \in {"acquire", "load"} =>
                  started'[<<request'[c].principal, request'[c].message>>] = 0
  <2>1. phase[job(c)] # "idle" /\ request'[c] = request[c]
    BY <1>4
  <2>2. PICK p \in Principal, m \in MessageId : p = request[c].principal /\ m = request[c].message
    BY <1>2, <2>1
  <2>3. Entered(p, m)'
    BY <1>1, <2>1, <2>2 DEF OnceInv, Submitted
  <2>4. Submitted(c)'
    BY <2>1, <2>2, <2>3 DEF Submitted, Entered
  <2> QED
    BY <1>4, <2>1, <2>4 DEF OnceInv
<1>5. ASSUME NEW c \in Call, NEW d \in Call, phase'[job(c)] # "idle", phase'[job(d)] # "idle",
             SameMessage(request'[c], request'[d])
      PROVE  c = d
  BY <1>5 DEF OnceInv
<1> QED
  BY <1>3, <1>4, <1>5 DEF OnceInv

\* The message of a call that has a job.
LEMMA JobRequest ==
  ASSUME SnapshotInv, NEW c \in Call, phase[job(c)] # "idle"
  PROVE  request[c].principal \in Principal /\ request[c].message \in MessageId
<1>1. request[c] \in Request /\ request[c].method = "SendMessage"
  BY StoreAssumption DEF SnapshotInv, TypeInv, StoreAssumption
<1> QED
  BY <1>1, RequestFields

\* An execution of a message starts, the first one.
LEMMA OnceStart ==
  ASSUME OnlyTimeouts, SnapshotInv, OnceInv, [Next]_vars,
         NEW p \in Principal, NEW m \in MessageId, started[<<p, m>>] = 0, Entered(p, m)',
         started' = [started EXCEPT ![<<p, m>>] = @ + 1],
         \A c \in Call : phase'[job(c)] # "idle" =>
           /\ phase[job(c)] # "idle" /\ request'[c] = request[c]
           /\ phase'[job(c)] \in {"acquire", "load"} =>
                /\ phase[job(c)] \in {"acquire", "load"}
                /\ request[c].principal # p \/ request[c].message # m
  PROVE  OnceInv'
<1>1. \A q \in Principal, n \in MessageId : Entered(q, n) => Entered(q, n)'
  BY EnteredStays
<1>2. \A q \in Principal, n \in MessageId :
        started'[<<q, n>>] = IF q = p /\ n = m THEN 1 ELSE started[<<q, n>>]
  BY DEF SnapshotInv, TypeInv, TypeOK, Key
<1>3. \A q \in Principal, n \in MessageId :
        started'[<<q, n>>] <= 1 /\ (started'[<<q, n>>] # 0 => Entered(q, n)')
  <2> TAKE q \in Principal, n \in MessageId
  <2>1. CASE q = p /\ n = m
    BY <1>2, <2>1
  <2>2. CASE ~(q = p /\ n = m)
    BY <1>1, <1>2, <2>2 DEF OnceInv
  <2> QED
    BY <2>1, <2>2
<1>4. ASSUME NEW c \in Call, phase'[job(c)] # "idle"
      PROVE  /\ Submitted(c)'
             /\ phase'[job(c)] \in {"acquire", "load"} =>
                  started'[<<request'[c].principal, request'[c].message>>] = 0
  <2>1. phase[job(c)] # "idle" /\ request'[c] = request[c]
    BY <1>4
  <2>2. PICK q \in Principal, n \in MessageId : q = request[c].principal /\ n = request[c].message
    BY <2>1, JobRequest
  <2>3. Entered(q, n)'
    BY <1>1, <2>1, <2>2 DEF OnceInv, Submitted
  <2>4. Submitted(c)'
    BY <2>1, <2>2, <2>3 DEF Submitted, Entered
  <2>5. phase'[job(c)] \in {"acquire", "load"} => started'[<<q, n>>] = 0
    BY <1>2, <1>4, <2>1, <2>2 DEF OnceInv
  <2> QED
    BY <2>1, <2>2, <2>4, <2>5
<1>5. ASSUME NEW c \in Call, NEW d \in Call, phase'[job(c)] # "idle", phase'[job(d)] # "idle",
             SameMessage(request'[c], request'[d])
      PROVE  c = d
  BY <1>5 DEF OnceInv
<1> QED
  BY <1>3, <1>4, <1>5 DEF OnceInv

\* A message that the handler of c accepts as new was nowhere, and is entered.
LEMMA FreshIsEntered ==
  ASSUME SnapshotInv, NEW c \in Call, Handler(c), phase[rpc(c)] = "load",
         request[c].method = "SendMessage", Fresh(request[c]),
         Keep(c, prepareTask(disk, c, request[c])), phase'[rpc(c)] \in {"execute", "save"},
         UNCHANGED home,
         NEW p \in Principal, NEW m \in MessageId,
         p = request[c].principal, m = request[c].message
  PROVE  ~Entered(p, m) /\ Entered(p, m)'
<1>1. /\ rpc(c) \in Actor /\ rpc(c)[1] = c /\ request[c] \in Request /\ home[c] \in Replica
      /\ disk \in Store /\ disk[c] = None
  BY ActorFacts, UnderWay DEF SnapshotInv, MapInv, TypeInv, TypeOK
<1>2. ~Entered(p, m)
  <2>1. \A b \in Actor : phase[b] \notin {"execute", "save"}
    BY <1>1, Sole DEF SnapshotInv, Holding
  <2> QED
    BY <2>1 DEF Entered, Fresh
<1>3. Indexed(prepareTask(disk, c, request[c]), p, m) = {Target(c, request[c])}
  BY <1>1, PrepareEffect DEF Fresh
<1>4. tasks'[home[c]] = prepareTask(disk, c, request[c])
  BY <1>1 DEF Keep, SnapshotInv, TypeInv, TypeOK
<1>5. Entered(p, m)'
  <2>1. Indexed(tasks'[home'[c]], p, m) # {}
    BY <1>3, <1>4
  <2> QED
    BY <1>1, <2>1 DEF Entered, Indexed, Owns
<1> QED
  BY <1>2, <1>5

\* Only a new message and a job that has waited start anything.
LEMMA OnceHandler ==
  ASSUME OnlyTimeouts, SnapshotInv, OnceInv, NEW c \in Call, Handler(c)
  PROVE  OnceInv'
<1> DEFINE r == request[c]
<1>1. [Next]_vars
  BY DEF Next
<1>2. rpc(c) \in Actor /\ job(c) \in Actor /\ phase \in [Actor -> Phase]
  BY ActorFacts DEF SnapshotInv, TypeInv, TypeOK
<1>3. CASE SendAndWait(c)
  <2>1. /\ phase[rpc(c)] = "load" /\ r.method = "SendMessage" /\ Fresh(r)
        /\ Keep(c, prepareTask(disk, c, r)) /\ Goto(rpc(c), "execute") /\ Start(r)
        /\ UNCHANGED <<request, home>>
    BY <1>3 DEF SendAndWait, Load
  <2>2. PICK p \in Principal, m \in MessageId : p = r.principal /\ m = r.message
    <3>1. r \in Request
      BY <1>2, <2>1, UnderWay, ActorFacts DEF SnapshotInv
    <3> QED
      BY <2>1, <3>1, RequestFields
  <2>3. phase'[rpc(c)] = "execute" /\ \A d \in Call : phase'[job(d)] = phase[job(d)]
    BY <1>2, <2>1, ActorFacts DEF Goto
  <2>4. ~Entered(p, m) /\ Entered(p, m)'
    BY <2>1, <2>2, <2>3, FreshIsEntered
  <2>5. started[<<p, m>>] = 0
    BY <2>4 DEF OnceInv
  <2>6. \A d \in Call : phase[job(d)] # "idle" => request[d].principal # p \/ request[d].message # m
    BY <2>4 DEF OnceInv, Submitted
  <2>7. started' = [started EXCEPT ![<<p, m>>] = @ + 1]
    BY <2>1, <2>2 DEF Start
  <2>8. \A d \in Call : phase'[job(d)] # "idle" =>
          /\ phase[job(d)] # "idle" /\ request'[d] = request[d]
          /\ phase'[job(d)] \in {"acquire", "load"} =>
               /\ phase[job(d)] \in {"acquire", "load"}
               /\ request[d].principal # p \/ request[d].message # m
    BY <2>1, <2>3, <2>6
  <2> QED
    BY <1>1, <2>4, <2>5, <2>7, <2>8, OnceStart
<1>4. CASE SendAndReturn(c)
  <2>1. /\ phase[rpc(c)] = "load" /\ r.method = "SendMessage" /\ Fresh(r)
        /\ Keep(c, prepareTask(disk, c, r)) /\ UNCHANGED <<request, home, started>>
        /\ phase' = [phase EXCEPT ![rpc(c)] = "save", ![job(c)] = "acquire"]
    BY <1>4 DEF SendAndReturn, Load, Return
  <2>2. PICK p \in Principal, m \in MessageId : p = r.principal /\ m = r.message
    <3>1. r \in Request
      BY <1>2, <2>1, UnderWay, ActorFacts DEF SnapshotInv
    <3> QED
      BY <2>1, <3>1, RequestFields
  <2>3. phase'[rpc(c)] = "save" /\ \A d \in Call : d # c => phase'[job(d)] = phase[job(d)]
    BY <1>2, <2>1, ActorFacts
  <2>4. ~Entered(p, m) /\ Entered(p, m)'
    BY <2>1, <2>2, <2>3, FreshIsEntered
  <2>5. \A q \in Principal, n \in MessageId : Entered(q, n) => Entered(q, n)'
    BY <1>1, EnteredStays
  <2>6. \A q \in Principal, n \in MessageId :
          started'[<<q, n>>] <= 1 /\ (started'[<<q, n>>] # 0 => Entered(q, n)')
    BY <2>1, <2>5 DEF OnceInv
  <2>7. ASSUME NEW d \in Call, phase'[job(d)] # "idle"
        PROVE  /\ Submitted(d)'
               /\ phase'[job(d)] \in {"acquire", "load"} =>
                    started'[<<request'[d].principal, request'[d].message>>] = 0
    <3>1. CASE d = c
      <4>1. Submitted(c)'
        BY <2>1, <2>2, <2>4 DEF Submitted, Entered
      <4>2. started[<<p, m>>] = 0
        BY <2>4 DEF OnceInv
      <4> QED
        BY <2>1, <2>2, <3>1, <4>1, <4>2
    <3>2. CASE d # c
      <4>1. phase[job(d)] # "idle" /\ phase'[job(d)] = phase[job(d)]
        BY <2>3, <2>7, <3>2
      <4>2. PICK q \in Principal, n \in MessageId : q = request[d].principal /\ n = request[d].message
        BY <4>1, JobRequest
      <4>3. Entered(q, n)'
        BY <2>5, <4>1, <4>2 DEF OnceInv, Submitted
      <4>4. Submitted(d)'
        BY <2>1, <4>2, <4>3 DEF Submitted, Entered
      <4> QED
        BY <2>1, <4>1, <4>4 DEF OnceInv
    <3> QED
      BY <3>1, <3>2
  <2>8. ASSUME NEW d \in Call, phase[job(d)] # "idle", SameMessage(r, request[d]) PROVE FALSE
    BY <2>2, <2>4, <2>8 DEF OnceInv, Submitted, SameMessage
  <2>9. ASSUME NEW d \in Call, NEW e \in Call, phase'[job(d)] # "idle", phase'[job(e)] # "idle",
               SameMessage(request'[d], request'[e])
        PROVE  d = e
    BY <2>1, <2>3, <2>8, <2>9 DEF OnceInv, SameMessage
  <2> QED
    BY <2>6, <2>7, <2>9 DEF OnceInv
<1>5. CASE RunJob(c)
  <2>1. phase[job(c)] = "load" /\ UNCHANGED <<disk, request, home>>
    BY <1>5 DEF RunJob
  <2>2. PICK p \in Principal, m \in MessageId : p = r.principal /\ m = r.message
    BY <2>1, JobRequest
  <2>3. \A d \in Call : d # c => phase'[job(d)] = phase[job(d)]
    BY <1>2, <1>5, ActorFacts DEF RunJob, Goto
  <2>4. CASE Goto(job(c), "execute") /\ Start(r)
    <3>1. phase'[job(c)] = "execute"
      BY <1>2, <2>4 DEF Goto
    <3>2. started[<<p, m>>] = 0 /\ Entered(p, m)
      BY <2>1, <2>2 DEF OnceInv, Submitted
    <3>3. Entered(p, m)'
      BY <1>1, <3>2, EnteredStays
    <3>4. started' = [started EXCEPT ![<<p, m>>] = @ + 1]
      BY <2>2, <2>4 DEF Start
    <3>5. \A d \in Call : d # c /\ phase[job(d)] # "idle" => request[d].principal # p \/ request[d].message # m
      BY <2>1, <2>2 DEF OnceInv, SameMessage
    <3>6. \A d \in Call : phase'[job(d)] # "idle" =>
            /\ phase[job(d)] # "idle" /\ request'[d] = request[d]
            /\ phase'[job(d)] \in {"acquire", "load"} =>
                 /\ phase[job(d)] \in {"acquire", "load"}
                 /\ request[d].principal # p \/ request[d].message # m
      BY <2>1, <2>3, <3>1, <3>5
    <3> QED
      BY <1>1, <3>2, <3>3, <3>4, <3>6, OnceStart
  <2>5. CASE Goto(job(c), "save") /\ UNCHANGED started
    <3>1. phase'[job(c)] = "save"
      BY <1>2, <2>5 DEF Goto
    <3> QED
      BY <1>1, <2>1, <2>3, <2>5, <3>1, OnceQuiet
  <2> QED
    BY <1>5, <2>4, <2>5 DEF RunJob
<1>6. CASE SendKnown(c) \/ SendRefused(c) \/ Get(c) \/ Cancel(c) \/ Denied(c)
  <2>1. /\ UNCHANGED <<request, started>>
        /\ \E where \in Phase : Goto(rpc(c), where)
    BY <1>6 DEF SendKnown, SendRefused, Get, Cancel, Denied, Fail, Return, Load, Phase
  <2>2. \A d \in Call : phase'[job(d)] = phase[job(d)]
    BY <1>2, <2>1, ActorFacts DEF Goto
  <2> QED
    BY <1>1, <2>1, <2>2, OnceQuiet
<1> QED
  BY <1>3, <1>4, <1>5, <1>6 DEF Handler

\* Every step of replicas that do not crash and whose writes succeed.
LEMMA OnceStep == ASSUME OnlyTimeouts, SnapshotInv, OnceInv, [Next]_vars PROVE OnceInv'
<1>1. phase \in [Actor -> Phase]
  BY DEF SnapshotInv, TypeInv, TypeOK
<1>2. ASSUME NEW c \in Call, Handler(c) PROVE OnceInv'
  BY <1>2, OnceHandler
<1>3. ASSUME NEW a \in Actor, phase[a] # "idle", NEW where, Goto(a, where),
             where = "load" => phase[a] = "acquire", where # "acquire",
             UNCHANGED <<request, started>>
      PROVE  OnceInv'
  <2>1. \A b \in Actor : phase'[b] = phase[b] \/ (b = a /\ phase'[b] = where)
    BY <1>1, <1>3 DEF Goto
  <2>2. \A c \in Call : phase'[job(c)] # "idle" =>
          /\ phase[job(c)] # "idle" /\ request'[c] = request[c]
          /\ phase'[job(c)] \in {"acquire", "load"} => phase[job(c)] \in {"acquire", "load"}
    BY <1>3, <2>1, ActorFacts
  <2> QED
    BY <1>3, <2>2, OnceQuiet
<1>4. ASSUME NEW a \in Actor, Transaction(a) PROVE OnceInv'
  <2>1. CASE Acquire(a) \/ GiveUp(a) \/ Release(a) \/ Save(a)
    BY <1>3, <2>1 DEF Acquire, GiveUp, Release, Save, transaction
  <2>2. ASSUME NEW outcome \in Outcomes, Finish(a, outcome) PROVE OnceInv'
    BY <1>3, <2>2 DEF Finish
  <2>3. ~FindStale(a) /\ ~BreakLock(a) /\ ~StoreFails(a)
    BY DEF FindStale, BreakLock, StoreFails, OnlyTimeouts, SnapshotInv, LockInv
  <2> QED
    BY <1>4, <2>1, <2>2, <2>3 DEF Transaction
<1>5. ASSUME NEW c \in Call, NEW r \in Requests, NEW p \in Replica, Arrive(c, r, p) PROVE OnceInv'
  <2>1. phase[job(c)] = "idle" /\ \A d \in Call : phase'[job(d)] = phase[job(d)]
    BY <1>1, <1>5, ActorFacts DEF Arrive, Goto, SnapshotInv, TypeInv
  <2>2. UNCHANGED started /\ \A d \in Call : d # c => request'[d] = request[d]
    BY <1>5 DEF Arrive, SnapshotInv, TypeInv, TypeOK
  <2> QED
    BY <2>1, <2>2, OnceQuiet
<1>6. CASE Age \/ UNCHANGED vars
  <2>1. UNCHANGED <<phase, request, started>>
    BY <1>6 DEF Age, transaction, vars
  <2> QED
    BY <2>1, OnceQuiet
<1>7. \A p \in Replica : ~Crash(p)
  BY DEF OnlyTimeouts, Crash
<1> QED
  BY <1>2, <1>4, <1>5, <1>6, <1>7 DEF Next, Idle

\* Replicas that neither crash nor fail to save execute a message at most once,
\* however many of them receive it, however often, and even if some give up.
THEOREM MessagesRunOnce == ASSUME OnlyTimeouts PROVE Spec => []ExecutedOnce
<1>1. Init => OnceInv
  BY ActorFacts DEF Init, OnceInv, Key
<1>2. SnapshotInv /\ OnceInv /\ [Next]_vars => OnceInv'
  BY OnceStep
<1>3. OnceInv => ExecutedOnce
  BY DEF OnceInv, ExecutedOnce, Key
<1>4. NoLockAges
  BY DEF OnlyTimeouts, NoLockAges
<1>5. Spec => []SnapshotInv
  BY <1>4, AlwaysSnapshot
<1> QED
  BY <1>1, <1>2, <1>3, <1>5, PTL DEF Spec

-----------------------------------------------------------------------------
(* Every working task has a job that will settle it *)

\* Nothing goes wrong: no job is lost, gives up or leaves its result unsaved.
NoFaults == Faults = {}

\* The job of c is for the task t and is in one of the phases given.
Attends(c, t, phases) ==
  /\ request[c] # None /\ request[c].method = "SendMessage" /\ Target(c, request[c]) = t
  /\ phase[job(c)] \in phases

\* The inductive invariant: a working task of the snapshot has a job that waits
\* or is inside, one of a map about to be saved has a job that waits.
AttendInv ==
  /\ \A t \in TaskId : InState(disk, t, {"WORKING"}) =>
       \E c \in Call : Attends(c, t, {"acquire", "load", "execute", "save"})
  /\ \A a \in Actor : phase[a] = "save" =>
       \A t \in TaskId : InState(tasks[home[a[1]]], t, {"WORKING"}) =>
         \E c \in Call : Attends(c, t, {"acquire"})

\* While a transaction is inside, other jobs for working tasks wait.
LEMMA OthersWait ==
  ASSUME SnapshotInv, AttendInv, NEW a \in Actor, phase[a] \in Holding,
         NEW t \in TaskId, InState(disk, t, {"WORKING"}),
         a = job(a[1]) => Target(a[1], request[a[1]]) # t
  PROVE  \E c \in Call : Attends(c, t, {"acquire"}) /\ job(c) # a
<1>1. PICK c \in Call : Attends(c, t, {"acquire", "load", "execute", "save"})
  BY DEF AttendInv
<1>2. job(c) # a
  BY <1>1, ActorFacts DEF Attends
<1>3. phase[job(c)] \notin Holding
  BY <1>2, Sole, ActorFacts DEF SnapshotInv
<1> QED
  BY <1>1, <1>2, <1>3 DEF Attends, Holding

\* A transaction goes on to the save with a map in which other tasks than its
\* own are those of the snapshot.
LEMMA AttendedSave ==
  ASSUME SnapshotInv, AttendInv, NEW a \in Actor, phase[a] \in Holding,
         NEW store, Keep(a[1], store), UNCHANGED <<disk, request, home>>,
         phase'[a] = "save",
         \A b \in Actor : b # a /\ phase[b] # "idle" => phase'[b] = phase[b],
         \A b \in Actor : b # a /\ phase'[b] = "save" => phase[b] = "save",
         a = job(a[1]) => ~InState(store, Target(a[1], request[a[1]]), {"WORKING"}),
         \A t \in TaskId : InState(store, t, {"WORKING"}) =>
           InState(disk, t, {"WORKING"}) \/ \E c \in Call : Attends(c, t, {"acquire"})'
  PROVE  AttendInv'
<1>1. a[1] \in Call /\ home[a[1]] \in Replica
  BY UnderWay DEF SnapshotInv, Holding
<1>2. \A b \in Actor : phase'[b] = "save" => b = a
  BY Sole DEF SnapshotInv, Holding
<1>3. tasks'[home[a[1]]] = store
  BY <1>1 DEF Keep, SnapshotInv, TypeInv, TypeOK
<1>4. ASSUME NEW t \in TaskId, InState(store, t, {"WORKING"})
      PROVE  \E c \in Call : Attends(c, t, {"acquire"})'
  <2>1. CASE InState(disk, t, {"WORKING"})
    <3>1. a = job(a[1]) => Target(a[1], request[a[1]]) # t
      BY <1>4
    <3>2. PICK c \in Call : Attends(c, t, {"acquire"}) /\ job(c) # a
      BY <2>1, <3>1, OthersWait
    <3>3. phase'[job(c)] = phase[job(c)]
      BY <3>2, ActorFacts DEF Attends
    <3> QED
      BY <3>2, <3>3 DEF Attends
  <2> QED
    BY <1>4, <2>1
<1>5. ASSUME NEW t \in TaskId, InState(disk, t, {"WORKING"})
      PROVE  \E c \in Call : Attends(c, t, {"acquire", "load", "execute", "save"})'
  <2>1. PICK c \in Call : Attends(c, t, {"acquire", "load", "execute", "save"})
    BY <1>5 DEF AttendInv
  <2>2. phase'[job(c)] \in {"acquire", "load", "execute", "save"}
    BY <2>1, ActorFacts DEF Attends
  <2> QED
    BY <2>1, <2>2 DEF Attends
<1>6. \A b \in Actor : phase'[b] = "save" =>
        \A t \in TaskId : InState(tasks'[home[b[1]]], t, {"WORKING"}) =>
          \E c \in Call : Attends(c, t, {"acquire"})'
  BY <1>2, <1>3, <1>4
<1>7. \A t \in TaskId : InState(disk', t, {"WORKING"}) =>
        \E c \in Call : Attends(c, t, {"acquire", "load", "execute", "save"})'
  BY <1>5 DEF InState
<1> QED
  BY <1>6, <1>7 DEF AttendInv, InState

\* Steps that leave the snapshot alone, save nothing and end no job.
LEMMA AttendQuiet ==
  ASSUME AttendInv, UNCHANGED disk,
         \A a \in Actor : phase'[a] # "save",
         \A c \in Call : phase[job(c)] \in {"acquire", "load", "execute", "save"} =>
           phase'[job(c)] \in {"acquire", "load", "execute", "save"} /\ request'[c] = request[c]
  PROVE  AttendInv'
<1>1. ASSUME NEW t \in TaskId, InState(disk, t, {"WORKING"})
      PROVE  \E c \in Call : Attends(c, t, {"acquire", "load", "execute", "save"})'
  <2>1. PICK c \in Call : Attends(c, t, {"acquire", "load", "execute", "save"})
    BY <1>1 DEF AttendInv
  <2> QED
    BY <2>1 DEF Attends
<1> QED
  BY <1>1 DEF AttendInv, InState

\* What a handler saves are the tasks of the snapshot, a canceled one and one
\* whose job is scheduled.
LEMMA AttendHandler == ASSUME SnapshotInv, AttendInv, NEW c \in Call, Handler(c) PROVE AttendInv'
<1> DEFINE r == request[c]
<1>1. /\ rpc(c) \in Actor /\ rpc(c)[1] = c /\ job(c) \in Actor /\ job(c)[1] = c
      /\ rpc(c) # job(c) /\ phase \in [Actor -> Phase] /\ disk \in Store
  BY ActorFacts DEF SnapshotInv, TypeInv, TypeOK
<1>2. ASSUME phase[rpc(c)] = "load", NEW store, Keep(c, store), UNCHANGED <<disk, request, home>>,
             Goto(rpc(c), "save"),
             \A t \in TaskId : InState(store, t, {"WORKING"}) => InState(disk, t, {"WORKING"})
      PROVE  AttendInv'
  <2>1. phase'[rpc(c)] = "save" /\ \A b \in Actor : b # rpc(c) => phase'[b] = phase[b]
    BY <1>1, <1>2 DEF Goto
  <2> QED
    BY <1>1, <1>2, <2>1, AttendedSave DEF Holding
<1>3. ASSUME NEW a \in {rpc(c), job(c)}, phase[a] = "load", UNCHANGED <<disk, request>>,
             NEW where \in {"execute", "release"}, Goto(a, where), a = job(c) => where = "execute"
      PROVE  AttendInv'
  <2>1. phase'[a] = where /\ \A b \in Actor : b # a => phase'[b] = phase[b]
    BY <1>1, <1>3 DEF Goto
  <2>2. \A b \in Actor : phase'[b] # "save"
    BY <1>1, <1>3, <2>1, Sole DEF SnapshotInv, Holding
  <2>3. \A d \in Call : phase[job(d)] \in {"acquire", "load", "execute", "save"} =>
          phase'[job(d)] \in {"acquire", "load", "execute", "save"} /\ request'[d] = request[d]
    BY <1>1, <1>3, <2>1, ActorFacts
  <2> QED
    BY <1>3, <2>2, <2>3, AttendQuiet
<1>4. CASE SendKnown(c) \/ Get(c)
  BY <1>2, <1>4 DEF SendKnown, Get, Return, Load
<1>5. CASE SendRefused(c) \/ Denied(c)
  BY <1>1, <1>3, <1>5 DEF SendRefused, Denied, Fail, Load
<1>6. CASE SendAndWait(c)
  BY <1>3, <1>6 DEF SendAndWait, Load
<1>7. CASE SendAndReturn(c)
  <2> DEFINE store == prepareTask(disk, c, r)
             t == Target(c, r)
  <2>1. /\ phase[rpc(c)] = "load" /\ r.method = "SendMessage" /\ Fresh(r)
        /\ Keep(c, store) /\ UNCHANGED <<disk, request, home>>
        /\ phase' = [phase EXCEPT ![rpc(c)] = "save", ![job(c)] = "acquire"]
    BY <1>7 DEF SendAndReturn, Load, Return
  <2>2. r \in Request /\ r \in Requests /\ disk[c] = None
    BY <1>1, <2>1, UnderWay DEF SnapshotInv, MapInv, TypeInv
  <2>3. \A u \in TaskId : u # t => store[u] = disk[u]
    BY <1>1, <2>1, <2>2, PrepareEffect DEF Fresh
  <2>4. phase[job(c)] = "idle"
    BY <2>1 DEF SnapshotInv, MapInv
  <2>5. \A u \in TaskId : u = t => Attends(c, u, {"acquire"})'
    <3>1. r # None
      BY <2>2, NoneAssumption DEF NoneAssumption
    <3> QED
      BY <1>1, <2>1, <3>1 DEF Attends
  <2> HIDE DEF store, t
  <2>6. \A u \in TaskId : InState(store, u, {"WORKING"}) =>
          InState(disk, u, {"WORKING"}) \/ \E d \in Call : Attends(d, u, {"acquire"})'
    <3> TAKE u \in TaskId
    <3>1. CASE u = t
      BY <2>5, <3>1
    <3>2. CASE u # t
      BY <2>3, <3>2 DEF InState
    <3> QED
      BY <3>1, <3>2
  <2>7. /\ phase'[rpc(c)] = "save" /\ \A b \in Actor : b # rpc(c) /\ phase[b] # "idle" => phase'[b] = phase[b]
        /\ \A b \in Actor : b # rpc(c) /\ phase'[b] = "save" => phase[b] = "save"
    BY <1>1, <2>1, <2>4
  <2>8. phase[rpc(c)] \in Holding /\ rpc(c) # job(rpc(c)[1])
    BY <1>1, <2>1 DEF Holding
  <2>9. Keep(rpc(c)[1], store)
    BY <1>1, <2>1
  <2> QED
    BY <1>1, <2>1, <2>6, <2>7, <2>8, <2>9, AttendedSave
<1>8. CASE Cancel(c)
  <2> DEFINE to == cancelTask(disk, r.task)
  <2>1. /\ phase[rpc(c)] = "load" /\ r.method = "CancelTask" /\ Cancelable(disk, r)
        /\ UNCHANGED <<disk, request, home>> /\ Goto(rpc(c), "save") /\ Keep(c, to)
    BY <1>8 DEF Cancel, Load, Return
  <2>2. r \in Request
    BY <1>1, <2>1, UnderWay DEF SnapshotInv
  <2>3. to \in Store
    BY <1>1, <2>1, <2>2, CancelType
  <2>4. to[r.task].state = "CANCELED" /\ \A u \in TaskId : u # r.task => to[u] = disk[u]
    BY <1>1, <2>1, <2>2, <2>3, CancelEffect
  <2> HIDE DEF to
  <2>5. \A u \in TaskId : InState(to, u, {"WORKING"}) => InState(disk, u, {"WORKING"})
    <3> TAKE u \in TaskId
    <3>1. CASE u = r.task
      BY <2>4, <3>1 DEF InState
    <3>2. CASE u # r.task
      BY <2>4, <3>2 DEF InState
    <3> QED
      BY <3>1, <3>2
  <2> QED
    BY <1>2, <2>1, <2>5
<1>9. CASE RunJob(c)
  <2>1. phase[job(c)] = "load" /\ Keep(c, disk) /\ UNCHANGED <<disk, request, home>>
    BY <1>9 DEF RunJob
  <2>2. CASE InState(disk, Target(c, r), {"WORKING"})
    <3>1. Goto(job(c), "execute")
      BY <1>9, <2>2 DEF RunJob
    <3> QED
      BY <1>3, <2>1, <3>1
  <2>3. CASE ~InState(disk, Target(c, r), {"WORKING"})
    <3>1. Goto(job(c), "save")
      BY <1>9, <2>3 DEF RunJob
    <3>2. phase'[job(c)] = "save" /\ \A b \in Actor : b # job(c) => phase'[b] = phase[b]
      BY <1>1, <3>1 DEF Goto
    <3> QED
      BY <1>1, <2>1, <2>3, <3>2, AttendedSave DEF Holding
  <2> QED
    BY <2>2, <2>3
<1> QED
  BY <1>4, <1>5, <1>6, <1>7, <1>8, <1>9 DEF Handler

\* An execution that ends leaves its own task settled.
LEMMA AttendFinish ==
  ASSUME SnapshotInv, AttendInv, NEW a \in Actor, NEW outcome \in Outcomes, Finish(a, outcome)
  PROVE  AttendInv'
<1> DEFINE c == a[1]
           t == Target(c, request[c])
           map == tasks[home[c]]
           end == settle(map, t, outcome)
<1>1. c \in Call /\ home[c] \in Replica /\ t \in TaskId /\ phase[a] = "execute" /\ disk \in Store
  BY UnderWay DEF Finish, SnapshotInv, TypeInv, TypeOK
<1>2. Ahead(disk, map, c, t) /\ a \notin detached
  BY <1>1 DEF SnapshotInv, MapInv
<1>3. /\ map \in Store /\ map[t] # None /\ map[t].state = "WORKING"
      /\ \A u \in TaskId : u # t => map[u] = disk[u]
  <2> HIDE DEF map, t
  <2>1. PICK v : map = [disk EXCEPT ![t] = v]
    BY <1>2 DEF Ahead
  <2> QED
    BY <1>1, <1>2, <2>1 DEF Ahead, Store
<1>4. end[t].state = outcome /\ \A u \in TaskId : u # t => end[u] = map[u]
  BY <1>1, <1>3, SettleEffect
<1>5. Keep(c, end) /\ Goto(a, "save") /\ UNCHANGED <<disk, request, home>>
  BY <1>2 DEF Finish
<1>6. phase'[a] = "save" /\ \A b \in Actor : b # a => phase'[b] = phase[b]
  BY <1>5 DEF Goto, SnapshotInv, TypeInv, TypeOK
<1> HIDE DEF t, end
<1>7. ~InState(end, t, {"WORKING"})
  BY <1>4 DEF InState, Outcomes
<1>8. \A u \in TaskId : InState(end, u, {"WORKING"}) => InState(disk, u, {"WORKING"})
  <2> TAKE u \in TaskId
  <2>1. CASE u = t
    BY <1>7, <2>1
  <2>2. CASE u # t
    BY <1>3, <1>4, <2>2 DEF InState
  <2> QED
    BY <2>1, <2>2
<1> QED
  BY <1>1, <1>5, <1>6, <1>7, <1>8, AttendedSave DEF Holding, t

\* Every step of replicas to which nothing happens.
LEMMA AttendStep == ASSUME NoFaults, SnapshotInv, AttendInv, [Next]_vars PROVE AttendInv'
<1>1. phase \in [Actor -> Phase]
  BY DEF SnapshotInv, TypeInv, TypeOK
<1>2. ASSUME NEW c \in Call, Handler(c) PROVE AttendInv'
  BY <1>2, AttendHandler
<1>3. ASSUME NEW a \in Actor, Transaction(a) PROVE AttendInv'
  <2>1. CASE Acquire(a)
    <3>1. /\ phase[a] = "acquire" /\ lock = None /\ phase'[a] = "load"
          /\ \A b \in Actor : b # a => phase'[b] = phase[b]
          /\ UNCHANGED <<disk, request>>
      BY <1>1, <2>1 DEF Acquire, Goto, transaction
    <3>2. \A b \in Actor : phase'[b] # "save"
      BY <3>1, StoreAssumption DEF SnapshotInv, LockInv, Holding, StoreAssumption
    <3>3. \A d \in Call : phase[job(d)] \in {"acquire", "load", "execute", "save"} =>
            phase'[job(d)] \in {"acquire", "load", "execute", "save"} /\ request'[d] = request[d]
      BY <3>1, ActorFacts
    <3> QED
      BY <3>1, <3>2, <3>3, AttendQuiet
  <2>2. CASE Release(a)
    <3>1. /\ phase[a] = "release" /\ phase'[a] = "done"
          /\ \A b \in Actor : b # a => phase'[b] = phase[b]
          /\ UNCHANGED <<disk, request>>
      BY <1>1, <2>2 DEF Release, Goto, transaction
    <3>2. \A b \in Actor : phase'[b] # "save"
      BY <3>1, Sole DEF SnapshotInv, Holding
    <3>3. \A d \in Call : phase[job(d)] \in {"acquire", "load", "execute", "save"} =>
            phase'[job(d)] \in {"acquire", "load", "execute", "save"} /\ request'[d] = request[d]
      BY <3>1, ActorFacts
    <3> QED
      BY <3>1, <3>2, <3>3, AttendQuiet
  <2>3. CASE Save(a)
    <3>1. /\ phase[a] = "save" /\ phase'[a] = "release" /\ disk' = tasks[home[a[1]]]
          /\ \A b \in Actor : b # a => phase'[b] = phase[b]
          /\ UNCHANGED request
      BY <1>1, <2>3 DEF Save, Goto, transaction
    <3>2. \A b \in Actor : phase'[b] # "save"
      BY <3>1, Sole DEF SnapshotInv, Holding
    <3>3. ASSUME NEW t \in TaskId, InState(disk', t, {"WORKING"})
          PROVE  \E c \in Call : Attends(c, t, {"acquire", "load", "execute", "save"})'
      <4>1. PICK c \in Call : Attends(c, t, {"acquire"})
        BY <3>1, <3>3 DEF AttendInv, InState
      <4>2. phase'[job(c)] = phase[job(c)]
        BY <3>1, <4>1, ActorFacts DEF Attends
      <4> QED
        BY <3>1, <4>1, <4>2 DEF Attends
    <3> QED
      BY <3>2, <3>3 DEF AttendInv, InState
  <2>4. ASSUME NEW outcome \in Outcomes, Finish(a, outcome) PROVE AttendInv'
    BY <2>4, AttendFinish
  <2>5. ~FindStale(a) /\ ~BreakLock(a) /\ ~StoreFails(a) /\ ~GiveUp(a)
    BY DEF FindStale, BreakLock, StoreFails, GiveUp, NoFaults, SnapshotInv, LockInv
  <2> QED
    BY <1>3, <2>1, <2>2, <2>3, <2>4, <2>5 DEF Transaction
<1>4. ASSUME NEW c \in Call, NEW r \in Requests, NEW p \in Replica, Arrive(c, r, p) PROVE AttendInv'
  <2>1. /\ phase[job(c)] = "idle" /\ phase[rpc(c)] = "idle"
        /\ \A b \in Actor : b # rpc(c) => phase'[b] = phase[b]
        /\ phase'[rpc(c)] = "acquire"
        /\ \A d \in Call : d # c => request'[d] = request[d] /\ home'[d] = home[d]
        /\ UNCHANGED <<disk, tasks>>
    BY <1>1, <1>4, ActorFacts DEF Arrive, Goto, SnapshotInv, TypeInv, TypeOK
  <2>2. \A d \in Call, t \in TaskId, phases \in {{"acquire"}, {"acquire", "load", "execute", "save"}} :
          Attends(d, t, phases) => Attends(d, t, phases)'
    BY <2>1, ActorFacts DEF Attends
  <2>3. \A t \in TaskId : InState(disk, t, {"WORKING"}) =>
          \E d \in Call : Attends(d, t, {"acquire", "load", "execute", "save"})'
    BY <2>2 DEF AttendInv
  <2>4. ASSUME NEW a \in Actor, phase'[a] = "save", NEW t \in TaskId,
               InState(tasks'[home'[a[1]]], t, {"WORKING"})
        PROVE  \E d \in Call : Attends(d, t, {"acquire"})'
    <3>1. a[1] \in Call /\ a[1] # c /\ phase[a] = "save"
      BY <2>1, <2>4, ActorFacts
    <3>2. InState(tasks[home[a[1]]], t, {"WORKING"})
      BY <2>1, <2>4, <3>1
    <3> QED
      BY <2>2, <3>1, <3>2 DEF AttendInv
  <2> QED
    BY <2>1, <2>3, <2>4 DEF AttendInv, InState
<1>5. CASE Age \/ UNCHANGED vars
  BY <1>5 DEF Age, transaction, vars, AttendInv, Attends, InState
<1>6. \A p \in Replica : ~Crash(p)
  BY DEF NoFaults, Crash
<1> QED
  BY <1>2, <1>3, <1>4, <1>5, <1>6 DEF Next, Idle

\* Where nothing goes wrong, a task that the snapshot shows as WORKING has a job
\* that will settle it; the run a2a_abandoned shows what a fault does to that.
THEOREM WorkingTasksAttended == ASSUME NoFaults PROVE Spec => []WorkingIsAttended
<1>1. Init => AttendInv
  <2> SUFFICES ASSUME Init PROVE AttendInv
    OBVIOUS
  <2>1. \A t \in TaskId : ~InState(disk, t, {"WORKING"})
    <3> SUFFICES ASSUME NEW t \in TaskId, disk[t] # None PROVE disk[t].state # "WORKING"
      BY DEF InState
    <3>1. Promise!Init
      BY PromiseInit
    <3> QED
      BY <3>1, SameTerms DEF Promise!Init
  <2> QED
    BY <2>1 DEF Init, AttendInv
<1>2. SnapshotInv /\ AttendInv /\ [Next]_vars => AttendInv'
  BY AttendStep
<1>3. AttendInv => WorkingIsAttended
  BY DEF AttendInv, Attends, WorkingIsAttended
<1>4. NoLockAges
  BY DEF NoFaults, NoLockAges
<1>5. Spec => []SnapshotInv
  BY <1>4, AlwaysSnapshot
<1> QED
  BY <1>1, <1>2, <1>3, <1>5, PTL DEF Spec
=============================================================================

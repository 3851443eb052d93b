--------------------------- MODULE IntakeService ---------------------------
(***************************************************************************)
(* The governed intake: an event-sourced registry of participants and      *)
(* their messages (communication/intake-service.ts, intake-store.ts).      *)
(* Client processes share the event directory, the append.lock file, the   *)
(* registry file and the role files.  A command is decided on a snapshot   *)
(* read without the lock, appended under the lock if the envelope's        *)
(* expectedVersion is the version found there, and published to the        *)
(* registry or a role file after the lock is gone.  Any read or write may  *)
(* fail, and somebody may put a file of their own where a role file goes.  *)
(*                                                                         *)
(* Hashes, timestamps and message texts are left out: two payloads hash    *)
(* alike when their commands are equal, and a role file is the set of      *)
(* versions whose messages it shows.                                       *)
(***************************************************************************)
EXTENDS Integers, FiniteSets, Sequences

CONSTANTS Client,         \* concurrent callers of GovernedIntakeService.command
          ParticipantId,
          Human,          \* the participants of kind human; the others are agents
          Principal,      \* authenticated principals, as principalKey gives them
          Role,
          Ticket,
          Key,            \* idempotency keys
          Submissions,    \* what clients send in this instance, but expectedVersion
          Streams,        \* event streams an instance may start from
          Legacy,         \* role files that no projection wrote, <<role, id, ticket>>
          ByHand,         \* role files somebody may replace by one of their own
          Bootstrapping,  \* principals whose calls come with allowBootstrap
          Pipelining,     \* may a client name a version it has not seen yet
          MaxEvents,      \* bound on the length of the stream
          MaxCrashes,     \* bound on the number of crashes
          None

Capability == {"assign_participant", "assign_role", "capture_own_message",
               "rebuild_projection", "verify_event_stream"}

Participant == [role : Role \cup {None}, capabilities : SUBSET Capability,
                principals : SUBSET Principal, tickets : SUBSET Ticket]

Command ==
  [type : {"RegisterParticipant"}, id : ParticipantId, participant : Participant]
    \cup [type : {"BindExternalIdentity"}, id : ParticipantId, principal : Principal]
    \cup [type : {"AssignRole"}, id : ParticipantId, role : Role,
          tickets : SUBSET Ticket, capabilities : SUBSET Capability]
    \cup [type : {"CaptureMessage"}, id : ParticipantId, role : Role, ticket : Ticket,
          secret : BOOLEAN]
    \cup [type : {"RebuildProjection"}, id : ParticipantId, ticket : Ticket]
    \cup [type : {"VerifyEventStream"}]

Submission == [key : Key, principal : Principal, command : Command]

\* An event is the accepted submission; its version is its place in the stream.
Event == Submission

RoleFile == Role \X ParticipantId \X Ticket

IntakeAssumption ==
  /\ Human \subseteq ParticipantId
  /\ Submissions \subseteq Submission
  /\ Legacy \subseteq RoleFile
  /\ ByHand \subseteq RoleFile
  /\ Bootstrapping \subseteq Principal
  /\ Pipelining \in BOOLEAN
  /\ MaxEvents \in Nat /\ MaxCrashes \in Nat
  /\ None \notin Participant \cup Submission \cup Client \cup Role
  /\ None \notin {"accepted", "duplicate", "rejected", "drift", "failed"}
ASSUME IntakeAssumption

-----------------------------------------------------------------------------
(* replay and decide *)

applyEvent(state, e) ==
  LET cmd == e.command IN
  CASE cmd.type = "RegisterParticipant"  -> [state EXCEPT ![cmd.id] = cmd.participant]
    [] cmd.type = "BindExternalIdentity" ->
         [state EXCEPT ![cmd.id].principals = @ \cup {cmd.principal}]
    [] cmd.type = "AssignRole" ->
         [state EXCEPT ![cmd.id] = [@ EXCEPT !.role = cmd.role, !.tickets = cmd.tickets,
                                             !.capabilities = cmd.capabilities]]
    [] OTHER -> state

\* The participants after the events, None for an id that is not registered.
replay(stream) ==
  LET after[n \in 0 .. Len(stream)] ==
        IF n = 0 THEN [p \in ParticipantId |-> None] ELSE applyEvent(after[n - 1], stream[n])
  IN after[Len(stream)]

\* The messages of a participant on a ticket, by their versions.
messages(stream, id, ticket) ==
  {v \in DOMAIN stream :
     /\ stream[v].command.type = "CaptureMessage"
     /\ stream[v].command.id = id
     /\ stream[v].command.ticket = ticket}

Known(state) == {p \in ParticipantId : state[p] # None}

\* resolveActor: the participants a principal is bound to; more than one is an error.
Actors(state, principal) == {p \in Known(state) : principal \in state[p].principals}

HasCapability(state, principal, capability) ==
  \E p \in ParticipantId :
    Actors(state, principal) = {p} /\ capability \in state[p].capabilities

\* Mutant: any principal is available.
Available_Any(state, principal, id) == TRUE

\* ensurePrincipalAvailable: no other participant has the principal.
Available(state, principal, id) == Actors(state, principal) \subseteq {id}

\* Mutant: the ticket of a message is not compared with the participant's.
MayCapture_AnyTicket(state, e) ==
  LET cmd == e.command IN
  /\ Actors(state, e.principal) = {cmd.id}
  /\ cmd.id \in Human
  /\ HasCapability(state, e.principal, "capture_own_message")
  /\ state[cmd.id].role = cmd.role
  /\ ~cmd.secret

\* The author of a message writes in their own name, role and ticket.
MayCapture(state, e) ==
  LET cmd == e.command IN
  /\ Actors(state, e.principal) = {cmd.id}
  /\ cmd.id \in Human
  /\ HasCapability(state, e.principal, "capture_own_message")
  /\ state[cmd.id].role = cmd.role
  /\ cmd.ticket \in state[cmd.id].tickets
  /\ ~cmd.secret

\* decide, without its look at the role files: the first participant needs no
\* capability where the caller allows it, and only humans have role files.
Authorized(state, e) ==
  LET cmd == e.command
      may(capability) == HasCapability(state, e.principal, capability)
  IN
  \/ /\ cmd.type = "RegisterParticipant"
     /\ \/ Known(state) = {} /\ e.principal \in Bootstrapping
        \/ may("assign_participant")
     /\ state[cmd.id] = None
     /\ \A principal \in cmd.participant.principals : Available(state, principal, cmd.id)
  \/ cmd.type = "VerifyEventStream" /\ may("verify_event_stream")
  \/ /\ cmd.type = "BindExternalIdentity"
     /\ may("assign_participant")
     /\ state[cmd.id] # None
     /\ Available(state, cmd.principal, cmd.id)
  \/ /\ cmd.type = "AssignRole"
     /\ may("assign_role")
     /\ state[cmd.id] # None
     /\ cmd.id \in Human
  \/ cmd.type = "CaptureMessage" /\ MayCapture(state, e)
  \/ /\ cmd.type = "RebuildProjection"
     /\ may("rebuild_projection")
     /\ state[cmd.id] # None
     /\ cmd.id \in Human

\* Every event of a stream was allowed by the events before it.
AuthorizedInOrder(stream) ==
  \A v \in DOMAIN stream : Authorized(replay(SubSeq(stream, 1, v - 1)), stream[v])

KeysOnce(stream) == \A v, w \in DOMAIN stream : stream[v].key = stream[w].key => v = w

\* The streams to start from are ones that accepted commands left.
StreamsAssumption ==
  \A s \in Streams : /\ s \in Seq(Event) /\ Len(s) <= MaxEvents
                     /\ AuthorizedInOrder(s) /\ KeysOnce(s)
ASSUME StreamsAssumption

-----------------------------------------------------------------------------
VARIABLES events,    \* the complete event files, in order
          torn,      \* is there a next event file whose content is not complete
          lock,      \* who created append.lock, None without one
          registry,  \* participants.v2.json
          files,     \* the versions each role file shows, None without a file
          phase,     \* where the command of each client is
          sent,      \* the command of each client, the last one that could read the stream
          expected,  \* and its expectedVersion
          seen,      \* the version of the snapshot it is decided on
          stored,    \* the version of the event it appended, 0 if none
          result,    \* and the answer
          crashes    \* crashes so far

vars == <<events, torn, lock, registry, files, phase, sent, expected, seen, stored, result, crashes>>

Phase == {"idle", "decide", "append", "locked", "write", "unlock", "publish", "replace"}

\* "duplicate" is an accepted command whose event was stored before.  A refusal
\* carries a diagnostic: "drift" says that a role file is not the participant's
\* own, "failed" that the storage failed, "rejected" names any other reason.
Result == {None, "accepted", "duplicate", "rejected", "drift", "failed"}

UNTRUSTED == {-1}

TypeOK ==
  /\ events \in Seq(Event) /\ Len(events) <= MaxEvents
  /\ torn \in BOOLEAN
  /\ lock \in Client \cup {None}
  /\ registry \in [version : 0 .. MaxEvents, participants : [ParticipantId -> Participant \cup {None}]]
  /\ files \in [RoleFile -> (SUBSET (1 .. MaxEvents)) \cup {UNTRUSTED, None}]
  /\ phase \in [Client -> Phase]
  /\ sent \in [Client -> Submissions \cup {None}]
  /\ expected \in [Client -> 0 .. MaxEvents]
  /\ seen \in [Client -> 0 .. MaxEvents]
  /\ stored \in [Client -> 0 .. MaxEvents]
  /\ result \in [Client -> Result]
  /\ crashes \in 0 .. MaxCrashes

\* A stream that sequential commands left, with its registry; its messages, if
\* any, are not projected yet.
Init ==
  /\ events \in Streams
  /\ torn = FALSE
  /\ lock = None
  /\ registry = [version |-> Len(events), participants |-> replay(events)]
  /\ files = [f \in RoleFile |-> IF f \in Legacy THEN UNTRUSTED ELSE None]
  /\ phase = [c \in Client |-> "idle"]
  /\ sent = [c \in Client |-> None]
  /\ expected = [c \in Client |-> 0]
  /\ seen = [c \in Client |-> 0]
  /\ stored = [c \in Client |-> 0]
  /\ result = [c \in Client |-> None]
  /\ crashes = 0

Goto(c, where) == phase' = [phase EXCEPT ![c] = where]

\* The command is over.
Answer(c, what) == Goto(c, "idle") /\ result' = [result EXCEPT ![c] = what]

disk == <<events, torn, lock, registry, files>>
call == <<sent, expected, seen, stored>>

\* Mutant: the last event is not looked at.
Stored_OffByOne(version, key) == {v \in 1 .. version - 1 : events[v].key = key}

\* The events a snapshot of the given version holds under an idempotency key.
Stored(version, key) == {v \in 1 .. version : events[v].key = key}

\* Mutant: the payload hash is not compared.
Repeat_AnyPayload(s, v) == "duplicate"

\* Of a key that is stored: the same payload is a duplicate, another is refused.
Repeat(s, v) == IF events[v].command = s.command THEN "duplicate" ELSE "rejected"

-----------------------------------------------------------------------------
(* command: read, decide *)

\* The command reads the stream, which it can without a torn file only (see
\* Fail); a known key ends the command.
Submit(c, s, v) ==
  /\ phase[c] = "idle" /\ ~torn
  /\ Len(events) < MaxEvents
  /\ Pipelining \/ v <= Len(events)
  /\ sent' = [sent EXCEPT ![c] = s]
  /\ expected' = [expected EXCEPT ![c] = v]
  /\ seen' = [seen EXCEPT ![c] = Len(events)]
  /\ stored' = [stored EXCEPT ![c] = 0]
  /\ \/ \E w \in Stored(Len(events), s.key) : Answer(c, Repeat(s, w))
     \/ /\ Stored(Len(events), s.key) = {}
        /\ Goto(c, "decide")
        /\ result' = [result EXCEPT ![c] = None]
  /\ UNCHANGED <<disk, crashes>>

Projects(cmd) == cmd.type \in {"CaptureMessage", "RebuildProjection"}

\* assertProjectionWritable, for the two commands that write a role file.
Writable(state, cmd) ==
  Projects(cmd) =>
    /\ \A role \in Role \ {state[cmd.id].role} : files[<<role, cmd.id, cmd.ticket>>] = None
    /\ files[<<state[cmd.id].role, cmd.id, cmd.ticket>>] # UNTRUSTED

Snapshot(c) == SubSeq(events, 1, seen[c])

Decide(c) ==
  LET state == replay(Snapshot(c)) IN
  /\ phase[c] = "decide"
  /\ \/ ~Authorized(state, sent[c]) /\ Answer(c, "rejected")
     \/ /\ Authorized(state, sent[c])
        /\ IF Writable(state, sent[c].command)
             THEN Goto(c, "append") /\ UNCHANGED result
             ELSE Answer(c, "drift")
  /\ UNCHANGED <<disk, call, crashes>>

-----------------------------------------------------------------------------
(* append *)

\* Mutant: open 'w' takes over an existing lock file.
OpenLock_Overwrite(c) ==
  /\ phase[c] = "append"
  /\ lock' = c
  /\ Goto(c, "locked")
  /\ UNCHANGED <<events, torn, registry, files, call, result, crashes>>

\* open 'wx' creates append.lock, or reports another append in progress.
OpenLock(c) ==
  /\ phase[c] = "append"
  /\ IF lock = None
       THEN lock' = c /\ Goto(c, "locked") /\ UNCHANGED result
       ELSE UNCHANGED lock /\ Answer(c, "rejected")
  /\ UNCHANGED <<events, torn, registry, files, call, crashes>>

\* Mutant: the lock file stays when nothing is appended.
AppendNothing_KeepLock(c) ==
  /\ phase[c] = "locked"
  /\ torn \/ Stored(Len(events), sent[c].key) # {} \/ expected[c] # Len(events)
  /\ Answer(c, IF torn THEN "failed" ELSE "rejected")
  /\ UNCHANGED <<disk, call, crashes>>

\* Under the lock the stream cannot be read, the key is known by now, or the
\* version is another one.
AppendNothing(c) ==
  /\ phase[c] = "locked"
  /\ \/ torn /\ result' = [result EXCEPT ![c] = "failed"]
     \/ ~torn /\ \E w \in Stored(Len(events), sent[c].key) :
                  result' = [result EXCEPT ![c] = Repeat(sent[c], w)]
     \/ /\ ~torn /\ Stored(Len(events), sent[c].key) = {}
        /\ expected[c] # Len(events)
        /\ result' = [result EXCEPT ![c] = "rejected"]
  /\ Goto(c, "unlock")
  /\ UNCHANGED <<disk, call, crashes>>

\* Mutant: expectedVersion is not compared.
BeginWrite_AnyVersion(c) ==
  /\ phase[c] = "locked" /\ ~torn
  /\ Len(events) < MaxEvents
  /\ Stored(Len(events), sent[c].key) = {}
  /\ torn' = TRUE
  /\ Goto(c, "write")
  /\ UNCHANGED <<events, lock, registry, files, call, result, crashes>>

\* writeFile with 'wx' creates the next event file, then fills it.
BeginWrite(c) ==
  /\ phase[c] = "locked" /\ ~torn
  /\ Stored(Len(events), sent[c].key) = {}
  /\ expected[c] = Len(events)
  /\ torn' = TRUE
  /\ Goto(c, "write")
  /\ UNCHANGED <<events, lock, registry, files, call, result, crashes>>

EndWrite(c) ==
  /\ phase[c] = "write"
  /\ torn' = FALSE
  /\ events' = Append(events, sent[c])
  /\ stored' = [stored EXCEPT ![c] = Len(events')]
  /\ Goto(c, "unlock")
  /\ UNCHANGED <<lock, registry, files, sent, expected, seen, result, crashes>>

\* finally: the lock file is unlinked, whatever the append came to.
Unlock(c) ==
  /\ phase[c] = "unlock"
  /\ lock' = None
  /\ Goto(c, IF stored[c] = 0 THEN "idle" ELSE "publish")
  /\ UNCHANGED <<events, torn, registry, files, call, result, crashes>>

-----------------------------------------------------------------------------
(* publish: after the append, without the lock *)

\* The stream the command replays: its snapshot and its own event.
Updated(c) == Append(Snapshot(c), sent[c])

\* Mutant: the registry carries the next version.
PublishRegistry_NextVersion(c) ==
  /\ phase[c] = "publish"
  /\ sent[c].command.type \in {"RegisterParticipant", "BindExternalIdentity", "AssignRole"}
  /\ registry' = [version |-> stored[c] + 1, participants |-> replay(Updated(c))]
  /\ Answer(c, "accepted")
  /\ UNCHANGED <<events, torn, lock, files, call, crashes>>

\* Mutant: the stream is read again, the version is still the command's.
PublishRegistry_Reread(c) ==
  /\ phase[c] = "publish"
  /\ sent[c].command.type \in {"RegisterParticipant", "BindExternalIdentity", "AssignRole"}
  /\ registry' = [version |-> stored[c], participants |-> replay(events)]
  /\ Answer(c, "accepted")
  /\ UNCHANGED <<events, torn, lock, files, call, crashes>>

PublishRegistry(c) ==
  /\ phase[c] = "publish"
  /\ sent[c].command.type \in {"RegisterParticipant", "BindExternalIdentity", "AssignRole"}
  /\ registry' = [version |-> stored[c], participants |-> replay(Updated(c))]
  /\ Answer(c, "accepted")
  /\ UNCHANGED <<events, torn, lock, files, call, crashes>>

\* Mutant: only the message just captured is written.
Shown_New(c) == IF sent[c].command.type = "CaptureMessage" THEN {stored[c]} ELSE {}

\* The versions of the snapshot's messages, and that of a message just captured.
Shown(c) ==
  LET cmd == sent[c].command IN
  messages(Snapshot(c), cmd.id, cmd.ticket)
    \cup IF cmd.type = "CaptureMessage" THEN {stored[c]} ELSE {}

\* The role file of a command, of the role its snapshot gives the participant:
\* its own event does not change that.
Target(c) ==
  LET cmd == sent[c].command IN <<replay(Snapshot(c))[cmd.id].role, cmd.id, cmd.ticket>>

\* writeProjection throws for a participant who is not on the ticket and for a
\* file that is not its own.
CheckProjection(c) ==
  LET cmd == sent[c].command IN
  /\ phase[c] = "publish"
  /\ Projects(cmd)
  /\ \/ /\ cmd.ticket \notin replay(Updated(c))[cmd.id].tickets
        /\ Answer(c, "rejected")
     \/ /\ cmd.ticket \in replay(Updated(c))[cmd.id].tickets
        /\ IF files[Target(c)] = UNTRUSTED
             THEN Answer(c, "drift")
             ELSE Goto(c, "replace") /\ UNCHANGED result
  /\ UNCHANGED <<disk, call, crashes>>

\* Then it replaces the file, whatever it is by now (atomicWrite).
ReplaceProjection(c) ==
  /\ phase[c] = "replace"
  /\ files' = [files EXCEPT ![Target(c)] = Shown(c)]
  /\ Answer(c, "accepted")
  /\ UNCHANGED <<events, torn, lock, registry, call, crashes>>

PublishNothing(c) ==
  /\ phase[c] = "publish"
  /\ sent[c].command.type = "VerifyEventStream"
  /\ Answer(c, "accepted")
  /\ UNCHANGED <<disk, call, crashes>>

-----------------------------------------------------------------------------
(* What may go wrong *)

\* A read or write fails and command answers with a storage failure: a command
\* that cannot read the stream, torn or not, of which nothing is recorded; one
\* that has not stored its event; one that writes it, of which nothing or a part
\* is left; or, with the event stored, one that publishes the registry or its
\* role file.
Fail(c) ==
  /\ \/ /\ \/ phase[c] \in {"idle", "append", "replace"}
           \/ phase[c] = "decide" /\ Projects(sent[c].command)
           \/ phase[c] = "publish" /\ sent[c].command.type # "VerifyEventStream"
        /\ Answer(c, "failed") /\ UNCHANGED torn
     \/ /\ phase[c] \in {"locked", "write"}
        /\ Goto(c, "unlock") /\ result' = [result EXCEPT ![c] = "failed"]
        /\ IF phase[c] = "write" THEN torn' \in BOOLEAN ELSE UNCHANGED torn
  /\ UNCHANGED <<events, lock, registry, files, call, crashes>>

\* Somebody puts a file of their own in the place of a role file.
WriteByHand ==
  /\ \E f \in ByHand : files[f] # UNTRUSTED /\ files' = [files EXCEPT ![f] = UNTRUSTED]
  /\ UNCHANGED <<events, torn, lock, registry, phase, call, result, crashes>>

\* The process of a client dies; its files stay as they are.
Crash(c) ==
  /\ crashes < MaxCrashes
  /\ crashes' = crashes + 1
  /\ phase[c] # "idle"
  /\ Goto(c, "idle")
  /\ result' = [result EXCEPT ![c] = None]
  /\ UNCHANGED <<disk, call>>

Step(c) ==
  \/ Decide(c) \/ OpenLock(c) \/ AppendNothing(c) \/ BeginWrite(c) \/ EndWrite(c) \/ Unlock(c)
  \/ PublishRegistry(c) \/ CheckProjection(c) \/ ReplaceProjection(c) \/ PublishNothing(c)

\* The stream is at its bound and no command is under way.
Idle ==
  /\ Len(events) = MaxEvents
  /\ \A c \in Client : phase[c] = "idle"
  /\ UNCHANGED vars

Next ==
  \/ \E c \in Client :
       \/ \E s \in Submissions, v \in 0 .. MaxEvents - 1 : Submit(c, s, v)
       \/ Step(c)
       \/ Fail(c)
       \/ Crash(c)
  \/ WriteByHand
  \/ Idle

\* A command that runs takes its steps.
Fairness == \A c \in Client : WF_vars(Step(c))

Spec == Init /\ [][Next]_vars /\ Fairness

-----------------------------------------------------------------------------
(* Properties *)

\* append.lock admits one append at a time (the 'wx' open in append).
LockIsTheirs == \A c \in Client : phase[c] \in {"locked", "write", "unlock"} => lock = c

\* Every event of the stream was allowed by the events before it: the decision,
\* taken on a snapshot without the lock, still stands when the event is
\* appended (decide, and the expectedVersion check in append).
EveryEventAuthorized == AuthorizedInOrder(events)

\* An idempotency key is stored once, whoever else sends it, and however often
\* (the second lookup of the key, under the lock).
KeysUnique == KeysOnce(events)

\* A principal never names two participants, so resolveActor is never ambiguous.
PrincipalsUnambiguous ==
  \A principal \in Principal : Cardinality(Actors(replay(events), principal)) <= 1

\* An accepted command is in the stream: its own event if the answer is not a
\* duplicate, the same payload under the same key if it is.
AcceptedIsStored ==
  \A c \in Client : result[c] \in {"accepted", "duplicate"} =>
    \E v \in DOMAIN events :
      /\ events[v].key = sent[c].key /\ events[v].command = sent[c].command
      /\ result[c] = "accepted" => v = stored[c] /\ events[v] = sent[c]

\* A refusal that is no storage failure tells the client that nothing was stored,
\* with two exceptions, for both of which the event is in the stream: a
\* RebuildProjection whose ticket decide looks up nowhere, but writeProjection
\* does, and a role file that somebody wrote since decide looked at it.
RefusedStoredNothing ==
  \A c \in Client : stored[c] # 0 =>
    /\ result[c] = "rejected" => sent[c].command.type = "RebuildProjection"
    /\ result[c] = "drift" => Target(c) \in ByHand

\* The registry file is the participants of the events up to its own version: a
\* command that publishes late never mixes in, nor leaves out, another's event.
RegistryIsReplay ==
  /\ registry.version <= Len(events)
  /\ registry.participants = replay(SubSeq(events, 1, registry.version))

\* A role file shows exactly the messages of its participant and ticket up to
\* some version of the stream.
RoleFileIsPrefix ==
  \A f \in RoleFile : files[f] \notin {None, UNTRUSTED} =>
    \E n \in 0 .. Len(events) : files[f] = messages(SubSeq(events, 1, n), f[2], f[3])

\* A human has at most one role file per ticket (AC-06: "exactly one").
OneRoleFile ==
  \A f, g \in RoleFile :
    (files[f] # None /\ files[g] # None /\ f[2] = g[2] /\ f[3] = g[3]) => f = g

\* Appends let go of the lock, whether they store an event, find a duplicate or
\* conflict (the finally in append).
LockIsFreed == []<>(lock = None)
=============================================================================

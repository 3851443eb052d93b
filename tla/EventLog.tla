------------------------------ MODULE EventLog ------------------------------
(***************************************************************************)
(* The event log of a run (pipeline/event-log.ts): events in recording     *)
(* order, each with the digest of the one before it, and the checks a      *)
(* reader makes.                                                           *)
(*                                                                         *)
(* A digest is the value it was taken of, in a tuple: no two values share  *)
(* one.  Times, sources and event names are numbers, which stand for their *)
(* order as text.  sound says that the remaining fields of an event pass   *)
(* their checks: names, timestamps, commit hashes, evidence references and *)
(* nothing that looks like a secret.                                       *)
(***************************************************************************)
LOCAL INSTANCE Integers
LOCAL INSTANCE Sequences
LOCAL INSTANCE Functions

EventInput(Id, Time, Source, Type, Trust, Outcome, Evidence) ==
  [eventId : Id, recordedAt : Time, source : Source, type : Type,
   trustClass : Trust, outcome : Outcome, evidence : Evidence, sound : BOOLEAN]

EVENT_LOG_GENESIS_DIGEST == <<>>
hash(value) == <<value>>
AnotherDigest == <<0, 0>>

\* compareInputs and compareEvents.
Precedes(l, r) ==
  \/ l.recordedAt < r.recordedAt
  \/ l.recordedAt = r.recordedAt /\ l.source < r.source
  \/ l.recordedAt = r.recordedAt /\ l.source = r.source /\ l.eventId < r.eventId

\* What the digest of an event is taken of: every field but the digest itself.
canonicalEventPayload(e) ==
  [eventId |-> e.eventId, recordedAt |-> e.recordedAt, source |-> e.source, type |-> e.type,
   trustClass |-> e.trustClass, outcome |-> e.outcome, sound |-> e.sound,
   sequence |-> e.sequence, evidenceDigest |-> e.evidenceDigest, previousDigest |-> e.previousDigest]

\* validateEvent, as far as the remaining fields are concerned.
validateEvent(e) ==
  /\ e.sound
  /\ ~(e.type = "approval.attested" /\ e.trustClass = "ADVISORY_INFERENCE")

\* As if the digest of the stream were not compared.
assertEventLog_Unsealed(doc) ==
  LET at(i) == doc.events[i]
      before(i) == IF i = 1 THEN doc.genesisDigest ELSE at(i - 1).eventDigest
      n == Len(doc.events)
  IN /\ doc.genesisDigest = EVENT_LOG_GENESIS_DIGEST
     /\ \A i \in 1 .. n :
          /\ validateEvent(at(i))
          /\ at(i).sequence = i
          /\ \A j \in 1 .. i - 1 : at(j).eventId # at(i).eventId
          /\ at(i).previousDigest = before(i)
          /\ at(i).eventDigest = hash(canonicalEventPayload(at(i)))
          /\ i > 1 => ~Precedes(at(i), at(i - 1))

assertEventLog(doc) ==
  LET at(i) == doc.events[i]
      before(i) == IF i = 1 THEN doc.genesisDigest ELSE at(i - 1).eventDigest
      n == Len(doc.events)
  IN /\ doc.genesisDigest = EVENT_LOG_GENESIS_DIGEST
     /\ \A i \in 1 .. n :
          /\ validateEvent(at(i))
          /\ at(i).sequence = i
          /\ \A j \in 1 .. i - 1 : at(j).eventId # at(i).eventId
          /\ at(i).previousDigest = before(i)
          /\ at(i).eventDigest = hash(canonicalEventPayload(at(i)))
          /\ i > 1 => ~Precedes(at(i), at(i - 1))
     /\ doc.streamDigest = before(n + 1)

ChainedEvent(input, i, previous) ==
  LET payload == [eventId |-> input.eventId, recordedAt |-> input.recordedAt,
                  source |-> input.source, type |-> input.type,
                  trustClass |-> input.trustClass, outcome |-> input.outcome,
                  sound |-> input.sound, sequence |-> i,
                  evidenceDigest |-> hash(input.evidence), previousDigest |-> previous]
  IN [f \in DOMAIN payload \cup {"eventDigest"} |->
        IF f = "eventDigest" THEN hash(payload) ELSE payload[f]]

\* The inputs sorted into recording order.
inOrder(inputs) ==
  LET place == 1 .. Len(inputs) IN
  CHOOSE sorted \in {[i \in place |-> inputs[p[i]]] : p \in Bijection(place, place)} :
    \A i \in place \ {1} : ~Precedes(sorted[i], sorted[i - 1])

chained(inputs) ==
  LET event[i \in 1 .. Len(inputs)] ==
        ChainedEvent(inputs[i], i, IF i = 1 THEN EVENT_LOG_GENESIS_DIGEST
                                   ELSE event[i - 1].eventDigest)
  IN event

Sealed(streamId, events) ==
  [streamId |-> streamId, genesisDigest |-> EVENT_LOG_GENESIS_DIGEST, events |-> events,
   streamDigest |-> IF events = <<>> THEN EVENT_LOG_GENESIS_DIGEST
                    ELSE events[Len(events)].eventDigest]

\* The documents createEventLog returns for these events: one, or none when
\* it throws.
createEventLog(streamId, inputs) ==
  {doc \in {Sealed(streamId, chained(inOrder(inputs)))} : assertEventLog(doc)}

\* The text of a document says how many events follow, and is read back block
\* by block: too few or too many of them are an error.
renderEventLog(doc) == [count |-> Len(doc.events), doc |-> doc]
parseEventLog(text) == {d \in {text.doc} : text.count = Len(d.events) /\ assertEventLog(d)}

-----------------------------------------------------------------------------
\* What may befall the text on its way: an event is dropped, repeated or
\* swapped with its neighbour, a field of one is changed, or the end is cut
\* off with the count put right.
Damaged(text) ==
  LET es == text.doc.events
      n == Len(es)
      with(s, c) == [count |-> c, doc |-> [text.doc EXCEPT !.events = s]]
      without(i) == [j \in 1 .. n - 1 |-> es[IF j < i THEN j ELSE j + 1]]
      twice(i) == [j \in 1 .. n + 1 |-> es[IF j <= i THEN j ELSE j - 1]]
      swapped(i) == [es EXCEPT ![i] = es[i + 1], ![i + 1] = es[i]]
      altered(i, e) == [es EXCEPT ![i] = e]
      changes(e) ==
        {[e EXCEPT !.outcome = o] : o \in {"PASSED", "FAILED"} \ {e.outcome}} \cup
        {[e EXCEPT !.recordedAt = @ + 1], [e EXCEPT !.sequence = @ + 1],
         [e EXCEPT !.evidenceDigest = AnotherDigest], [e EXCEPT !.previousDigest = AnotherDigest],
         [e EXCEPT !.eventDigest = AnotherDigest]}
  IN (UNION {{with(without(i), c) : c \in {n - 1, n}} \cup
             {with(twice(i), c) : c \in {n, n + 1}} \cup
             {with(altered(i, e), n) : e \in changes(es[i])} : i \in 1 .. n})
     \cup {with(swapped(i), n) : i \in 1 .. n - 1}
     \cup {with(SubSeq(es, 1, i), i) : i \in 0 .. n - 1}

(***************************************************************************)
(* The log shows every tampering with its events (assertEventLog behind    *)
(* parseEventLog): what createEventLog has made of any events, in whatever *)
(* order they came, reads back as it was written, and no dropped, repeated,*)
(* swapped, altered or cut-off event gets past the reader.                 *)
(***************************************************************************)
TamperEvident(streamId, inputs) ==
  \A doc \in createEventLog(streamId, inputs) :
    /\ parseEventLog(renderEventLog(doc)) = {doc}
    /\ \A text \in Damaged(renderEventLog(doc)) : parseEventLog(text) = {}
=============================================================================

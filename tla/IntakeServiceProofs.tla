------------------------ MODULE IntakeServiceProofs ------------------------
(***************************************************************************)
(* Theorems about IntakeService, for any clients, participants, commands   *)
(* and keys.  The first parts need of replay only that equal streams have  *)
(* equal replays; the last ones go through what it computes, by a least    *)
(* counterexample where one would make an induction over the stream.       *)
(***************************************************************************)
EXTENDS IntakeService, SequenceTheorems, FiniteSetTheorems, WellFoundedInduction, TLAPS

-----------------------------------------------------------------------------
(* Streams *)

\* The events of Append(stream, e) (IntakeEventStore.append).
LEMMA StreamGrows ==
  ASSUME NEW stream \in Seq(Event), NEW e \in Event
  PROVE  /\ Append(stream, e) \in Seq(Event)
         /\ Len(Append(stream, e)) = Len(stream) + 1
         /\ \A v \in 1 .. Len(stream) : Append(stream, e)[v] = stream[v]
         /\ Append(stream, e)[Len(stream) + 1] = e
BY AppendProperties

\* Appending an event changes no earlier snapshot.
LEMMA SnapshotStays ==
  ASSUME NEW stream \in Seq(Event), NEW e \in Event, NEW n \in 0 .. Len(stream)
  PROVE  SubSeq(Append(stream, e), 1, n) = SubSeq(stream, 1, n)
<1>1. CASE n = 0
  BY <1>1, SubSeqEmpty
<1>2. CASE n # 0
  <2>1. n \in 1 .. Len(stream) /\ 1 \in 1 .. Len(stream) /\ <<e>> \in Seq(Event)
    BY <1>2, LenProperties
  <2>2. Append(stream, e) = stream \o <<e>>
    BY AppendIsConcat
  <2> QED
    BY <2>1, <2>2, SubSeqOfConcat1
<1> QED
  BY <1>1, <1>2

\* A snapshot and the event that follows it are a longer snapshot.
LEMMA SnapshotGrows ==
  ASSUME NEW stream \in Seq(Event), NEW n \in 1 .. Len(stream)
  PROVE  SubSeq(stream, 1, n) = Append(SubSeq(stream, 1, n - 1), stream[n])
<1>1. 1 \in 1 .. Len(stream) /\ n \in 1 .. Len(stream) /\ Len(stream) \in Nat
  BY LenProperties
<1>2. SubSeq(stream, 1, n) = SubSeq(stream, 1, n - 1) \o <<stream[n]>>
  BY <1>1, SubSeqRecursiveSecond
<1>3. SubSeq(stream, 1, n - 1) \in Seq(Event)
  <2>1. \A i \in 1 .. n - 1 : stream[i] \in Event
    BY <1>1, ElementOfSeq
  <2> QED
    BY <1>1, <2>1, SubSeqProperties
<1>4. stream[n] \in Event
  BY <1>1, ElementOfSeq
<1> QED
  BY <1>2, <1>3, <1>4, AppendIsConcat

\* An event that its predecessors allow, under a new key, keeps a stream lawful.
LEMMA LawfulGrows ==
  ASSUME NEW stream \in Seq(Event), NEW e \in Event,
         AuthorizedInOrder(stream), Authorized(replay(stream), e)
  PROVE  AuthorizedInOrder(Append(stream, e))
<1> DEFINE next == Append(stream, e)
<1>1. DOMAIN stream = 1 .. Len(stream) /\ Len(stream) \in Nat
  BY LenProperties
<1>2. DOMAIN next = 1 .. (Len(stream) + 1)
  BY StreamGrows, LenProperties
<1>3. ASSUME NEW v \in 1 .. Len(stream)
      PROVE  Authorized(replay(SubSeq(next, 1, v - 1)), next[v])
  <2>1. v - 1 \in 0 .. Len(stream)
    BY <1>1
  <2>2. SubSeq(next, 1, v - 1) = SubSeq(stream, 1, v - 1)
    BY <2>1, SnapshotStays
  <2> QED
    BY <1>1, <1>3, <2>2, StreamGrows DEF AuthorizedInOrder
<1>4. Authorized(replay(SubSeq(next, 1, (Len(stream) + 1) - 1)), next[Len(stream) + 1])
  <2>1. SubSeq(next, 1, Len(stream)) = stream
    BY <1>1, SnapshotStays, SubSeqFull
  <2>2. (Len(stream) + 1) - 1 = Len(stream)
    BY <1>1
  <2> QED
    BY <2>1, <2>2, StreamGrows
<1> HIDE DEF next
<1>5. ASSUME NEW v \in DOMAIN next PROVE Authorized(replay(SubSeq(next, 1, v - 1)), next[v])
  <2>1. v \in 1 .. Len(stream) \/ v = Len(stream) + 1
    BY <1>1, <1>2, <1>5
  <2> QED
    BY <1>3, <1>4, <2>1
<1> QED
  BY <1>5 DEF AuthorizedInOrder, next

\* An event with a new key leaves the keys unique.
LEMMA KeysGrow ==
  ASSUME NEW stream \in Seq(Event), NEW e \in Event, KeysOnce(stream),
         \A v \in 1 .. Len(stream) : stream[v].key # e.key
  PROVE  KeysOnce(Append(stream, e))
<1>1. DOMAIN stream = 1 .. Len(stream) /\ Len(stream) \in Nat
  BY LenProperties
<1>2. DOMAIN Append(stream, e) = 1 .. (Len(stream) + 1)
  BY StreamGrows, LenProperties
<1> QED
  BY <1>1, <1>2, StreamGrows DEF KeysOnce

-----------------------------------------------------------------------------
(* The lock, the keys and the answers *)

\* The inductive invariant.  Besides the types: an append that writes has found
\* its version and no event of its key, an answer is given once, and what a
\* command stored stays where it is.
AppendInv ==
  /\ events \in Seq(Event)
  /\ lock \in Client \cup {None}
  /\ phase \in [Client -> Phase]
  /\ sent \in [Client -> Submissions \cup {None}]
  /\ expected \in [Client -> Nat]
  /\ seen \in [Client -> Nat]
  /\ stored \in [Client -> Nat]
  /\ result \in [Client -> Result]
  /\ LockIsTheirs
  /\ KeysUnique
  /\ \A c \in Client :
       /\ phase[c] # "idle" => sent[c] \in Submissions
       /\ seen[c] <= Len(events)
       /\ phase[c] \in {"decide", "append", "locked", "write"} => result[c] = None /\ stored[c] = 0
       /\ phase[c] = "write" =>
            expected[c] = Len(events) /\ Stored(Len(events), sent[c].key) = {}
       /\ phase[c] \in {"publish", "replace"} => stored[c] # 0
       /\ stored[c] # 0 => stored[c] \in 1 .. Len(events) /\ events[stored[c]] = sent[c]
  /\ AcceptedIsStored

\* No command has been submitted, and the streams given have unique keys.
LEMMA AppendInit == Init => AppendInv
<1> SUFFICES ASSUME Init PROVE AppendInv
  OBVIOUS
<1>1. events \in Seq(Event) /\ KeysUnique
  BY StreamsAssumption DEF Init, StreamsAssumption, KeysUnique
<1>2. Len(events) \in Nat
  BY <1>1, LenProperties
<1>3. \A c \in Client : result[c] = None
  BY DEF Init
<1>4. AcceptedIsStored
  BY <1>3, IntakeAssumption DEF AcceptedIsStored, IntakeAssumption
<1> QED
  BY <1>1, <1>2, <1>3, <1>4 DEF Init, AppendInv, Phase, Result, LockIsTheirs

\* A step of one client that leaves the stream alone and submits nothing.
LEMMA QuietStep ==
  ASSUME AppendInv, NEW c \in Client,
         NEW where \in Phase, Goto(c, where), phase[c] # "idle" \/ where = "idle",
         NEW what \in Result, result' = [result EXCEPT ![c] = what],
         UNCHANGED <<events, sent, expected, seen, stored>>,
         where \in {"locked", "write", "unlock"} => lock' = c,
         \/ UNCHANGED lock
         \/ lock = None /\ lock' = c
         \/ lock = c /\ lock' = None,
         where \in {"decide", "append", "locked", "write"} => what = None /\ stored[c] = 0,
         where = "write" => expected[c] = Len(events) /\ Stored(Len(events), sent[c].key) = {},
         where \in {"publish", "replace"} => stored[c] # 0,
         what \in {"accepted", "duplicate"} =>
           \E v \in DOMAIN events :
             /\ events[v].key = sent[c].key /\ events[v].command = sent[c].command
             /\ what = "accepted" => v = stored[c] /\ events[v] = sent[c]
  PROVE  AppendInv'
<1>1. /\ phase' \in [Client -> Phase] /\ phase'[c] = where
      /\ \A d \in Client : d # c => phase'[d] = phase[d]
  BY DEF AppendInv, Goto
<1>2. /\ result' \in [Client -> Result] /\ result'[c] = what
      /\ \A d \in Client : d # c => result'[d] = result[d]
  BY DEF AppendInv
<1>3. lock' \in Client \cup {None} /\ LockIsTheirs'
  BY <1>1, IntakeAssumption DEF AppendInv, LockIsTheirs, IntakeAssumption
<1>4. AcceptedIsStored'
  BY <1>2 DEF AppendInv, AcceptedIsStored
<1>5. ASSUME NEW d \in Client
      PROVE  /\ phase'[d] # "idle" => sent'[d] \in Submissions
             /\ seen'[d] <= Len(events')
             /\ phase'[d] \in {"decide", "append", "locked", "write"} => result'[d] = None /\ stored'[d] = 0
             /\ phase'[d] = "write" =>
                  expected'[d] = Len(events') /\ Stored(Len(events), sent[d].key) = {}
             /\ phase'[d] \in {"publish", "replace"} => stored'[d] # 0
             /\ stored'[d] # 0 => stored'[d] \in 1 .. Len(events') /\ events'[stored'[d]] = sent'[d]
  <2>1. CASE d = c
    BY <1>1, <1>2, <2>1 DEF AppendInv
  <2>2. CASE d # c
    BY <1>1, <1>2, <2>2 DEF AppendInv
  <2> QED
    BY <2>1, <2>2
<1> QED
  BY <1>1, <1>2, <1>3, <1>4, <1>5 DEF AppendInv, KeysUnique, Stored

\* A repeated key is a duplicate of the same command, or rejected.
LEMMA RepeatFacts ==
  ASSUME NEW s, NEW v
  PROVE  /\ Repeat(s, v) \in {"duplicate", "rejected"}
         /\ Repeat(s, v) = "duplicate" => events[v].command = s.command
BY DEF Repeat

\* A command that is submitted has stored nothing yet.
LEMMA SubmitAppend ==
  ASSUME AppendInv, NEW c \in Client, NEW s \in Submissions, NEW v \in Nat, Submit(c, s, v)
  PROVE  AppendInv'
<1>1. Len(events) \in Nat /\ DOMAIN events = 1 .. Len(events)
  BY LenProperties DEF AppendInv
<1> DEFINE Ends(where, what) ==
             /\ Goto(c, where) /\ result' = [result EXCEPT ![c] = what]
             /\ where = "decide" => what = None
             /\ what # "accepted"
             /\ what = "duplicate" => \E w \in DOMAIN events :
                  events[w].key = s.key /\ events[w].command = s.command
<1>2. \E where \in {"idle", "decide"}, what \in Result : Ends(where, what)
  <2>1. ASSUME NEW w \in Stored(Len(events), s.key), Answer(c, Repeat(s, w))
        PROVE  \E where \in {"idle", "decide"}, what \in Result : Ends(where, what)
    <3>1. Ends("idle", Repeat(s, w))
      BY <1>1, <2>1, RepeatFacts DEF Answer, Stored
    <3> QED
      BY <3>1, RepeatFacts DEF Result
  <2>2. CASE Goto(c, "decide") /\ result' = [result EXCEPT ![c] = None]
    <3>1. Ends("decide", None)
      BY <2>2, IntakeAssumption DEF IntakeAssumption
    <3> QED
      BY <3>1 DEF Result
  <2> QED
    BY <2>1, <2>2 DEF Submit
<1>2a. PICK where \in {"idle", "decide"}, what \in Result : Ends(where, what)
  BY <1>2
<1>3. /\ sent' = [sent EXCEPT ![c] = s] /\ expected' = [expected EXCEPT ![c] = v]
      /\ seen' = [seen EXCEPT ![c] = Len(events)] /\ stored' = [stored EXCEPT ![c] = 0]
      /\ UNCHANGED <<events, lock>> /\ phase[c] = "idle"
  BY DEF Submit, disk
<1>4. /\ phase' \in [Client -> Phase] /\ phase'[c] = where
      /\ result' \in [Client -> Result] /\ result'[c] = what
      /\ \A d \in Client : d # c => phase'[d] = phase[d] /\ result'[d] = result[d]
  BY <1>2a DEF AppendInv, Goto, Phase
<1>5. /\ sent' \in [Client -> Submissions \cup {None}] /\ sent'[c] = s
      /\ expected' \in [Client -> Nat] /\ seen' \in [Client -> Nat] /\ seen'[c] = Len(events)
      /\ stored' \in [Client -> Nat] /\ stored'[c] = 0
      /\ \A d \in Client : d # c => /\ sent'[d] = sent[d] /\ expected'[d] = expected[d]
                                    /\ seen'[d] = seen[d] /\ stored'[d] = stored[d]
  BY <1>1, <1>3 DEF AppendInv
<1>6. LockIsTheirs'
  BY <1>2a, <1>3, <1>4 DEF AppendInv, LockIsTheirs
<1>7. AcceptedIsStored'
  BY <1>2a, <1>3, <1>4, <1>5 DEF AppendInv, AcceptedIsStored
<1>8. \A d \in Client :
        /\ phase'[d] # "idle" => sent'[d] \in Submissions
        /\ seen'[d] <= Len(events)
        /\ phase'[d] \in {"decide", "append", "locked", "write"} => result'[d] = None /\ stored'[d] = 0
        /\ phase'[d] = "write" =>
             expected'[d] = Len(events) /\ Stored(Len(events), sent'[d].key) = {}
        /\ phase'[d] \in {"publish", "replace"} => stored'[d] # 0
        /\ stored'[d] # 0 => stored'[d] \in 1 .. Len(events) /\ events[stored'[d]] = sent'[d]
  <2> TAKE d \in Client
  <2>1. CASE d = c
    BY <1>1, <1>2a, <1>4, <1>5, <2>1
  <2>2. CASE d # c
    BY <1>1, <1>4, <1>5, <2>2 DEF AppendInv
  <2> QED
    BY <2>1, <2>2
<1> QED
  BY <1>3, <1>4, <1>5, <1>6, <1>7, <1>8 DEF AppendInv, KeysUnique, Stored

\* The event file is complete: the stream grows by the command of c.
LEMMA EndWriteAppend ==
  ASSUME AppendInv, NEW c \in Client, EndWrite(c) PROVE AppendInv'
<1>1. /\ events \in Seq(Event) /\ sent[c] \in Submissions /\ sent[c] \in Event
      /\ Len(events) \in Nat /\ DOMAIN events = 1 .. Len(events)
      /\ expected[c] = Len(events) /\ Stored(Len(events), sent[c].key) = {}
      /\ lock = c /\ result[c] = None
  BY LenProperties, IntakeAssumption
  DEF EndWrite, AppendInv, LockIsTheirs, IntakeAssumption, Event
<1>2. /\ events' \in Seq(Event) /\ Len(events') = Len(events) + 1
      /\ DOMAIN events' = 1 .. (Len(events) + 1)
      /\ \A v \in 1 .. Len(events) : events'[v] = events[v]
      /\ events'[Len(events) + 1] = sent[c]
  BY <1>1, StreamGrows, LenProperties DEF EndWrite
<1>3. KeysUnique'
  BY <1>1, KeysGrow DEF EndWrite, KeysUnique, AppendInv, Stored
<1>4. /\ phase' \in [Client -> Phase] /\ phase'[c] = "unlock"
      /\ stored' \in [Client -> Nat] /\ stored'[c] = Len(events) + 1
      /\ \A d \in Client : d # c => phase'[d] = phase[d] /\ stored'[d] = stored[d]
      /\ UNCHANGED <<lock, sent, expected, seen, result>>
  BY <1>1, <1>2 DEF EndWrite, AppendInv, Goto, Phase
<1>5. \A d \in Client : d # c => phase[d] # "write"
  BY <1>1, IntakeAssumption DEF AppendInv, LockIsTheirs, IntakeAssumption
<1>6. LockIsTheirs'
  BY <1>1, <1>4 DEF AppendInv, LockIsTheirs
<1>7. ASSUME NEW d \in Client, result'[d] \in {"accepted", "duplicate"}
      PROVE  \E v \in DOMAIN events' :
               /\ events'[v].key = sent'[d].key /\ events'[v].command = sent'[d].command
               /\ result'[d] = "accepted" => v = stored'[d] /\ events'[v] = sent'[d]
  <2>1. d # c /\ result[d] \in {"accepted", "duplicate"}
    BY <1>1, <1>4, <1>7, IntakeAssumption DEF IntakeAssumption
  <2>2. PICK v \in DOMAIN events :
          /\ events[v].key = sent[d].key /\ events[v].command = sent[d].command
          /\ result[d] = "accepted" => v = stored[d] /\ events[v] = sent[d]
    BY <2>1 DEF AppendInv, AcceptedIsStored
  <2> QED
    BY <1>1, <1>2, <1>4, <2>1, <2>2
<1>8. ASSUME NEW d \in Client
      PROVE  /\ phase'[d] # "idle" => sent'[d] \in Submissions
             /\ seen'[d] <= Len(events')
             /\ phase'[d] \in {"decide", "append", "locked", "write"} => result'[d] = None /\ stored'[d] = 0
             /\ phase'[d] # "write"
             /\ phase'[d] \in {"publish", "replace"} => stored'[d] # 0
             /\ stored'[d] # 0 => stored'[d] \in 1 .. Len(events') /\ events'[stored'[d]] = sent'[d]
  <2>1. seen[d] \in Nat /\ seen[d] <= Len(events)
    BY DEF AppendInv
  <2>2. CASE d = c
    BY <1>1, <1>2, <1>4, <2>1, <2>2
  <2>3. CASE d # c
    BY <1>1, <1>2, <1>4, <1>5, <2>1, <2>3 DEF AppendInv
  <2> QED
    BY <2>2, <2>3
<1> QED
  BY <1>2, <1>3, <1>4, <1>6, <1>7, <1>8 DEF AppendInv, AcceptedIsStored

\* Every step, failure and crash preserves the invariant of the append.
LEMMA AppendStep == ASSUME AppendInv, [Next]_vars PROVE AppendInv'
<1> USE DEF Phase, Result
<1>a. ASSUME NEW c \in Client
      PROVE  /\ result = [result EXCEPT ![c] = result[c]] /\ result[c] \in Result
             /\ stored[c] # 0 => \E v \in DOMAIN events : v = stored[c] /\ events[v] = sent[c]
             /\ result[c] \in {"accepted", "duplicate"} => \E v \in DOMAIN events :
                  /\ events[v].key = sent[c].key /\ events[v].command = sent[c].command
                  /\ result[c] = "accepted" => v = stored[c] /\ events[v] = sent[c]
  BY LenProperties DEF AppendInv, AcceptedIsStored
<1>b. None \notin {"accepted", "duplicate"}
  BY IntakeAssumption DEF IntakeAssumption
<1>1. ASSUME NEW c \in Client, NEW s \in Submissions, NEW v \in 0 .. MaxEvents - 1, Submit(c, s, v)
      PROVE  AppendInv'
  BY <1>1, SubmitAppend
<1>2. ASSUME NEW c \in Client, Step(c) PROVE AppendInv'
  <2>1. CASE Decide(c)
    <3>1. result[c] = None /\ stored[c] = 0
      BY <2>1 DEF Decide, AppendInv
    <3>2. CASE Goto(c, "append") /\ UNCHANGED result
      BY <1>a, <1>b, <2>1, <3>1, <3>2, QuietStep DEF Decide, disk, call
    <3>3. ASSUME NEW what \in {"rejected", "drift"}, Answer(c, what) PROVE AppendInv'
      BY <2>1, <3>3, QuietStep DEF Decide, Answer, disk, call
    <3> QED
      BY <2>1, <3>2, <3>3 DEF Decide
  <2>2. CASE OpenLock(c)
    <3>1. result[c] = None /\ stored[c] = 0
      BY <2>2 DEF OpenLock, AppendInv
    <3>2. CASE lock = None /\ lock' = c /\ Goto(c, "locked") /\ UNCHANGED result
      BY <1>a, <1>b, <2>2, <3>1, <3>2, QuietStep DEF OpenLock, call
    <3>3. CASE UNCHANGED lock /\ Answer(c, "rejected")
      BY <2>2, <3>3, QuietStep DEF OpenLock, Answer, call
    <3> QED
      BY <2>2, <3>2, <3>3 DEF OpenLock
  <2>3. CASE AppendNothing(c)
    <3>1. phase[c] = "locked" /\ lock = c /\ DOMAIN events = 1 .. Len(events)
      BY <2>3, LenProperties DEF AppendNothing, AppendInv, LockIsTheirs
    <3>2. ASSUME NEW w \in Stored(Len(events), sent[c].key),
                 result' = [result EXCEPT ![c] = Repeat(sent[c], w)]
          PROVE  AppendInv'
      <4>1. w \in DOMAIN events /\ events[w].key = sent[c].key
        BY <3>1 DEF Stored
      <4>2. Repeat(sent[c], w) \in {"duplicate", "rejected"}
            /\ (Repeat(sent[c], w) = "duplicate" => events[w].command = sent[c].command)
        BY RepeatFacts
      <4> QED
        BY <2>3, <3>1, <3>2, <4>1, <4>2, QuietStep DEF AppendNothing, disk, call
    <3>3. ASSUME NEW what \in {"rejected", "failed"}, result' = [result EXCEPT ![c] = what]
          PROVE  AppendInv'
      BY <2>3, <3>1, <3>3, QuietStep DEF AppendNothing, disk, call
    <3> QED
      BY <2>3, <3>2, <3>3 DEF AppendNothing
  <2>4. CASE BeginWrite(c)
    <3>1. result[c] = None /\ stored[c] = 0 /\ lock = c
      BY <2>4 DEF BeginWrite, AppendInv, LockIsTheirs
    <3> QED
      BY <1>a, <1>b, <2>4, <3>1, QuietStep DEF BeginWrite, call
  <2>5. CASE EndWrite(c)
    BY <2>5, EndWriteAppend
  <2>6. CASE Unlock(c)
    <3>1. lock = c
      BY <2>6 DEF Unlock, AppendInv, LockIsTheirs
    <3>2. UNCHANGED <<events, sent, expected, seen, stored, result>> /\ lock' = None
      BY <2>6 DEF Unlock, call
    <3>3. CASE stored[c] = 0
      <4>1. Goto(c, "idle")
        BY <2>6, <3>3 DEF Unlock
      <4> QED
        BY <1>a, <1>b, <2>6, <3>1, <3>2, <4>1, QuietStep DEF Unlock
    <3>4. CASE stored[c] # 0
      <4>1. Goto(c, "publish")
        BY <2>6, <3>4 DEF Unlock
      <4> QED
        BY <1>a, <1>b, <2>6, <3>1, <3>2, <3>4, <4>1, QuietStep DEF Unlock
    <3> QED
      BY <3>3, <3>4
  <2>7. ASSUME phase[c] \in {"publish", "replace"}, NEW what \in {"accepted", "rejected", "drift"},
               Answer(c, what), UNCHANGED <<events, lock, call>>
        PROVE  AppendInv'
    <3>1. stored[c] # 0
      BY <2>7 DEF AppendInv
    <3> QED
      BY <1>a, <2>7, <3>1, QuietStep DEF Answer, call
  <2>8. CASE PublishRegistry(c)
    BY <2>7, <2>8 DEF PublishRegistry
  <2>9. CASE CheckProjection(c)
    <3>1. CASE Goto(c, "replace") /\ UNCHANGED result
      <4>1. stored[c] # 0
        BY <2>9 DEF CheckProjection, AppendInv
      <4> QED
        BY <1>a, <2>9, <3>1, <4>1, QuietStep DEF CheckProjection, disk, call
    <3>2. ASSUME NEW what \in {"rejected", "drift"}, Answer(c, what) PROVE AppendInv'
      BY <2>7, <2>9, <3>2 DEF CheckProjection, disk
    <3> QED
      BY <2>9, <3>1, <3>2 DEF CheckProjection
  <2>10. CASE ReplaceProjection(c)
    BY <2>7, <2>10 DEF ReplaceProjection
  <2>11. CASE PublishNothing(c)
    BY <2>7, <2>11 DEF PublishNothing, disk
  <2> QED
    BY <1>2, <2>1, <2>2, <2>3, <2>4, <2>5, <2>6, <2>8, <2>9, <2>10, <2>11 DEF Step
<1>3. ASSUME NEW c \in Client, Fail(c) PROVE AppendInv'
  <2>1. UNCHANGED <<events, lock, sent, expected, seen, stored>>
    BY <1>3 DEF Fail, call
  <2>2. CASE Answer(c, "failed")
    BY <2>1, <2>2, QuietStep DEF Answer
  <2>3. CASE phase[c] \in {"locked", "write"} /\ Goto(c, "unlock") /\ result' = [result EXCEPT ![c] = "failed"]
    <3>1. lock = c
      BY <2>3 DEF AppendInv, LockIsTheirs
    <3> QED
      BY <2>1, <2>3, <3>1, QuietStep
  <2> QED
    BY <1>3, <2>2, <2>3 DEF Fail
<1>4. ASSUME NEW c \in Client, Crash(c) PROVE AppendInv'
  BY <1>4, <1>b, QuietStep DEF Crash, disk, call
<1>5. CASE UNCHANGED vars \/ WriteByHand
  <2>1. UNCHANGED <<events, lock, phase, sent, expected, seen, stored, result>>
    BY <1>5 DEF vars, call, WriteByHand
  <2> QED
    BY <2>1 DEF AppendInv, LockIsTheirs, KeysUnique, Stored, AcceptedIsStored
<1> QED
  BY <1>1, <1>2, <1>3, <1>4, <1>5 DEF Next, Idle

\* The invariant of the append holds for all clients, honest about versions or not.
LEMMA AppendAlways == Spec => []AppendInv
BY AppendInit, AppendStep, PTL DEF Spec

\* append.lock admits one append at a time, for any number of clients that may
\* fail or die anywhere.
THEOREM LockHolds == Spec => []LockIsTheirs
<1>1. AppendInv => LockIsTheirs
  BY DEF AppendInv
<1> QED
  BY <1>1, AppendAlways, PTL

\* No idempotency key is ever stored twice, whatever versions clients name.
THEOREM KeysStayUnique == Spec => []KeysUnique
<1>1. AppendInv => KeysUnique
  BY DEF AppendInv
<1> QED
  BY <1>1, AppendAlways, PTL

\* What a client is told is in the stream.
THEOREM AnswersHold == Spec => []AcceptedIsStored
<1>1. AppendInv => AcceptedIsStored
  BY DEF AppendInv
<1> QED
  BY <1>1, AppendAlways, PTL

-----------------------------------------------------------------------------
(* The decision still stands when the event is appended *)

\* A client names no version that it has not seen.
Seen == ~Pipelining

\* The inductive invariant, beside AppendInv: a command that got past decide was
\* allowed by its snapshot, its version is not beyond that snapshot, and the
\* event it stored is the one right after the snapshot.
DecisionInv ==
  /\ \A c \in Client :
       /\ phase[c] # "idle" => expected[c] <= seen[c]
       /\ phase[c] \in {"append", "locked", "write"} => Authorized(replay(Snapshot(c)), sent[c])
       /\ phase[c] \in {"unlock", "publish", "replace"} /\ stored[c] # 0 => stored[c] = seen[c] + 1
  /\ EveryEventAuthorized
  /\ registry.version \in Nat /\ RegistryIsReplay

\* The stream given is lawful and the registry is its replay.
LEMMA DecisionInit == Init => DecisionInv
<1> SUFFICES ASSUME Init PROVE DecisionInv
  OBVIOUS
<1>1. events \in Seq(Event) /\ EveryEventAuthorized
  BY StreamsAssumption DEF Init, StreamsAssumption, EveryEventAuthorized
<1>2. SubSeq(events, 1, Len(events)) = events /\ Len(events) \in Nat
  BY <1>1, SubSeqFull, LenProperties
<1>3. registry.version \in Nat /\ RegistryIsReplay
  <2>1. registry.version = Len(events) /\ registry.participants = replay(events)
    BY DEF Init
  <2>2. registry.version <= Len(events) /\ registry.version \in Nat
    BY <1>2, <2>1
  <2>3. SubSeq(events, 1, registry.version) = events
    BY <1>2, <2>1
  <2> QED
    BY <2>1, <2>2, <2>3 DEF RegistryIsReplay
<1> QED
  BY <1>1, <1>3 DEF Init, DecisionInv

\* Of a command that writes, the snapshot is the whole stream.
LEMMA SnapshotIsStream ==
  ASSUME AppendInv, DecisionInv, NEW c \in Client, phase[c] = "write"
  PROVE  seen[c] = Len(events) /\ Snapshot(c) = events
<1>1. events \in Seq(Event) /\ Len(events) \in Nat /\ seen[c] \in Nat
  BY LenProperties DEF AppendInv
<1>2. expected[c] = Len(events) /\ seen[c] <= Len(events) /\ expected[c] <= seen[c]
  BY DEF AppendInv, DecisionInv
<1>3. seen[c] = Len(events)
  BY <1>1, <1>2
<1> QED
  BY <1>1, <1>3, SubSeqFull DEF Snapshot

\* A step of one client that leaves the stream and the registry alone and
\* submits nothing.
LEMMA QuietDecision ==
  ASSUME AppendInv, DecisionInv, NEW c \in Client,
         NEW where \in Phase, Goto(c, where), phase[c] # "idle" \/ where = "idle",
         where \in {"append", "locked", "write"} => Authorized(replay(Snapshot(c)), sent[c]),
         where \in {"unlock", "publish", "replace"} /\ stored[c] # 0 => stored[c] = seen[c] + 1,
         UNCHANGED <<events, registry, sent, expected, seen, stored>>
  PROVE  DecisionInv'
<1>1. /\ phase'[c] = where
      /\ \A d \in Client : d # c => phase'[d] = phase[d]
  BY DEF AppendInv, Goto
<1>2. \A d \in Client :
        /\ phase'[d] # "idle" => expected'[d] <= seen'[d]
        /\ phase'[d] \in {"append", "locked", "write"} => Authorized(replay(Snapshot(d)), sent[d])
        /\ phase'[d] \in {"unlock", "publish", "replace"} /\ stored'[d] # 0 => stored'[d] = seen'[d] + 1
  BY <1>1 DEF DecisionInv
<1>3. Snapshot(c)' = Snapshot(c) /\ \A d \in Client : Snapshot(d)' = Snapshot(d)
  BY DEF Snapshot
<1>4. EveryEventAuthorized'
  BY DEF DecisionInv, EveryEventAuthorized
<1>5. registry'.version \in Nat /\ RegistryIsReplay'
  BY DEF DecisionInv, RegistryIsReplay
<1> QED
  BY <1>2, <1>3, <1>4, <1>5 DEF DecisionInv

\* The snapshot of a new command is the stream of that moment.
LEMMA SubmitDecision ==
  ASSUME Seen, AppendInv, DecisionInv, NEW c \in Client, NEW s \in Submissions,
         NEW v \in 0 .. MaxEvents - 1, Submit(c, s, v)
  PROVE  DecisionInv'
<1>1. /\ expected' = [expected EXCEPT ![c] = v] /\ seen' = [seen EXCEPT ![c] = Len(events)]
      /\ sent' = [sent EXCEPT ![c] = s] /\ stored' = [stored EXCEPT ![c] = 0]
      /\ v <= Len(events) /\ UNCHANGED <<events, registry>>
      /\ \E where \in {"idle", "decide"} : Goto(c, where)
  BY DEF Submit, Answer, disk, Seen
<1>2. /\ phase'[c] \in {"idle", "decide"} /\ expected'[c] = v /\ seen'[c] = Len(events)
      /\ \A d \in Client : d # c => /\ phase'[d] = phase[d] /\ sent'[d] = sent[d]
                                    /\ expected'[d] = expected[d] /\ seen'[d] = seen[d]
                                    /\ stored'[d] = stored[d]
  BY <1>1 DEF AppendInv, Goto
<1>3. \A d \in Client : d # c => Snapshot(d)' = Snapshot(d)
  BY <1>1, <1>2 DEF Snapshot
<1>4. EveryEventAuthorized' /\ registry'.version \in Nat /\ RegistryIsReplay'
  BY <1>1 DEF DecisionInv, EveryEventAuthorized, RegistryIsReplay
<1>5. ASSUME NEW d \in Client
      PROVE  /\ phase'[d] # "idle" => expected'[d] <= seen'[d]
             /\ phase'[d] \in {"append", "locked", "write"} =>
                  Authorized(replay(Snapshot(d)'), sent'[d])
             /\ phase'[d] \in {"unlock", "publish", "replace"} /\ stored'[d] # 0 => stored'[d] = seen'[d] + 1
  <2>1. CASE d = c
    BY <1>1, <1>2, <2>1
  <2>2. CASE d # c
    BY <1>2, <1>3, <2>2 DEF DecisionInv
  <2> QED
    BY <2>1, <2>2
<1> QED
  BY <1>4, <1>5 DEF DecisionInv

\* The stream an event is written to is the snapshot it was decided on.
LEMMA EndWriteDecision ==
  ASSUME AppendInv, DecisionInv, NEW c \in Client, EndWrite(c) PROVE DecisionInv'
<1>1. /\ phase[c] = "write" /\ events' = Append(events, sent[c])
      /\ stored' = [stored EXCEPT ![c] = Len(events')] /\ Goto(c, "unlock")
      /\ UNCHANGED <<registry, sent, expected, seen>>
  BY DEF EndWrite
<1>2. events \in Seq(Event) /\ sent[c] \in Event /\ Len(events) \in Nat
  BY <1>1, LenProperties, IntakeAssumption DEF AppendInv, IntakeAssumption, Event
<1>3. seen[c] = Len(events) /\ Authorized(replay(events), sent[c])
  BY <1>1, SnapshotIsStream DEF DecisionInv
<1>4. Len(events') = Len(events) + 1
  BY <1>1, <1>2, StreamGrows
<1>5. EveryEventAuthorized'
  BY <1>1, <1>2, <1>3, LawfulGrows DEF DecisionInv, EveryEventAuthorized
<1>6. registry'.version \in Nat /\ RegistryIsReplay'
  <2>1. /\ registry.version \in 0 .. Len(events)
        /\ registry.participants = replay(SubSeq(events, 1, registry.version))
    BY <1>2 DEF DecisionInv, RegistryIsReplay
  <2>2. SubSeq(events', 1, registry.version) = SubSeq(events, 1, registry.version)
    BY <1>1, <1>2, <2>1, SnapshotStays
  <2>3. registry.version \in Nat /\ registry.version <= Len(events) + 1
    BY <1>2, <2>1
  <2> QED
    BY <1>1, <1>4, <2>1, <2>2, <2>3 DEF RegistryIsReplay
<1>7. ASSUME NEW d \in Client
      PROVE  /\ phase'[d] # "idle" => expected'[d] <= seen'[d]
             /\ phase'[d] \in {"append", "locked", "write"} =>
                  Authorized(replay(Snapshot(d)'), sent'[d])
             /\ phase'[d] \in {"unlock", "publish", "replace"} /\ stored'[d] # 0 => stored'[d] = seen'[d] + 1
  <2>1. CASE d = c
    BY <1>1, <1>3, <1>4, <2>1 DEF AppendInv, DecisionInv, Goto
  <2>2. CASE d # c
    <3>1. phase'[d] = phase[d] /\ stored'[d] = stored[d]
      BY <1>1, <2>2 DEF AppendInv, Goto
    <3>2. seen[d] \in 0 .. Len(events)
      BY <1>2 DEF AppendInv
    <3>3. Snapshot(d)' = Snapshot(d)
      BY <1>1, <1>2, <3>2, SnapshotStays DEF Snapshot
    <3> QED
      BY <1>1, <3>1, <3>3 DEF DecisionInv
  <2> QED
    BY <2>1, <2>2
<1> QED
  BY <1>5, <1>6, <1>7 DEF DecisionInv

\* The snapshot of a command that has stored its event, with that event, is the
\* stream up to it.
LEMMA UpdatedIsPrefix ==
  ASSUME AppendInv, DecisionInv, NEW c \in Client, phase[c] \in {"publish", "replace"}
  PROVE  /\ stored[c] \in 1 .. Len(events) /\ events[stored[c]] = sent[c]
         /\ Snapshot(c) = SubSeq(events, 1, stored[c] - 1)
         /\ Updated(c) = SubSeq(events, 1, stored[c])
<1>1. /\ events \in Seq(Event) /\ seen[c] \in Nat
      /\ stored[c] \in 1 .. Len(events) /\ events[stored[c]] = sent[c] /\ stored[c] = seen[c] + 1
  BY DEF AppendInv, DecisionInv
<1>2. stored[c] - 1 = seen[c]
  BY <1>1
<1>3. SubSeq(events, 1, stored[c]) = Append(SubSeq(events, 1, stored[c] - 1), events[stored[c]])
  BY <1>1, SnapshotGrows
<1> QED
  BY <1>1, <1>2, <1>3 DEF Updated, Snapshot

\* The registry written is the replay of the stream up to the event stored.
LEMMA PublishDecision ==
  ASSUME AppendInv, DecisionInv, NEW c \in Client, PublishRegistry(c) PROVE DecisionInv'
<1>1. /\ phase[c] = "publish" /\ Goto(c, "idle")
      /\ registry' = [version |-> stored[c], participants |-> replay(Updated(c))]
      /\ UNCHANGED <<events, sent, expected, seen, stored>>
  BY DEF PublishRegistry, Answer, call
<1>2. /\ registry'.version = stored[c]
      /\ registry'.participants = replay(SubSeq(events, 1, stored[c]))
      /\ stored[c] \in 1 .. Len(events)
  BY <1>1, UpdatedIsPrefix
<1>3. registry'.version \in Nat /\ RegistryIsReplay'
  <2>1. stored[c] <= Len(events) /\ stored[c] \in Nat
    BY <1>2
  <2>2. SubSeq(events, 1, registry'.version) = SubSeq(events, 1, stored[c])
    BY <1>2
  <2> QED
    BY <1>1, <1>2, <2>1, <2>2 DEF RegistryIsReplay
<1>4. EveryEventAuthorized' /\ \A d \in Client : Snapshot(d)' = Snapshot(d)
  BY <1>1 DEF DecisionInv, EveryEventAuthorized, Snapshot
<1>5. phase'[c] = "idle" /\ \A d \in Client : d # c => phase'[d] = phase[d]
  BY <1>1 DEF AppendInv, Goto
<1> QED
  BY <1>1, <1>3, <1>4, <1>5 DEF DecisionInv

\* Every step, failure and crash preserves the invariant of the decision.
LEMMA DecisionStep ==
  ASSUME Seen, AppendInv, DecisionInv, [Next]_vars PROVE DecisionInv'
<1> USE DEF Phase
<1>1. ASSUME NEW c \in Client, NEW s \in Submissions, NEW v \in 0 .. MaxEvents - 1, Submit(c, s, v)
      PROVE  DecisionInv'
  BY <1>1, SubmitDecision
<1>2. ASSUME NEW c \in Client, Step(c) PROVE DecisionInv'
  <2>a. ASSUME NEW what, Answer(c, what), UNCHANGED <<events, registry, call>>
        PROVE  DecisionInv'
    BY <2>a, QuietDecision DEF Answer, call
  <2>1. CASE Decide(c)
    <3>1. CASE Authorized(replay(Snapshot(c)), sent[c]) /\ Goto(c, "append")
      BY <2>1, <3>1, QuietDecision DEF Decide, disk, call
    <3>2. ASSUME NEW what, Answer(c, what) PROVE DecisionInv'
      BY <2>1, <2>a, <3>2 DEF Decide, disk
    <3> QED
      BY <2>1, <3>1, <3>2 DEF Decide
  <2>2. CASE OpenLock(c)
    <3>1. CASE Goto(c, "locked")
      <4>1. Authorized(replay(Snapshot(c)), sent[c])
        BY <2>2 DEF OpenLock, DecisionInv
      <4> QED
        BY <2>2, <3>1, <4>1, QuietDecision DEF OpenLock, call
    <3>2. CASE Answer(c, "rejected")
      BY <2>2, <2>a, <3>2 DEF OpenLock
    <3> QED
      BY <2>2, <3>1, <3>2 DEF OpenLock
  <2>3. CASE AppendNothing(c)
    <3>1. stored[c] = 0
      BY <2>3 DEF AppendNothing, AppendInv
    <3> QED
      BY <2>3, <3>1, QuietDecision DEF AppendNothing, disk, call
  <2>4. CASE BeginWrite(c)
    <3>1. Authorized(replay(Snapshot(c)), sent[c])
      BY <2>4 DEF BeginWrite, DecisionInv
    <3> QED
      BY <2>4, <3>1, QuietDecision DEF BeginWrite, call
  <2>5. CASE EndWrite(c)
    BY <2>5, EndWriteDecision
  <2>6. CASE Unlock(c)
    <3>1. stored[c] # 0 => stored[c] = seen[c] + 1
      BY <2>6 DEF Unlock, DecisionInv
    <3>2. \E where \in {"idle", "publish"} : Goto(c, where)
      BY <2>6 DEF Unlock
    <3> QED
      BY <2>6, <3>1, <3>2, QuietDecision DEF Unlock, call
  <2>7. CASE PublishRegistry(c)
    BY <2>7, PublishDecision
  <2>8. CASE CheckProjection(c)
    <3>1. CASE Goto(c, "replace")
      <4>1. stored[c] # 0 => stored[c] = seen[c] + 1
        BY <2>8 DEF CheckProjection, DecisionInv
      <4> QED
        BY <2>8, <3>1, <4>1, QuietDecision DEF CheckProjection, disk, call
    <3>2. ASSUME NEW what, Answer(c, what) PROVE DecisionInv'
      BY <2>8, <2>a, <3>2 DEF CheckProjection, disk
    <3> QED
      BY <2>8, <3>1, <3>2 DEF CheckProjection
  <2>9. CASE ReplaceProjection(c)
    BY <2>9, <2>a DEF ReplaceProjection
  <2>10. CASE PublishNothing(c)
    BY <2>10, <2>a DEF PublishNothing, disk
  <2> QED
    BY <1>2, <2>1, <2>2, <2>3, <2>4, <2>5, <2>6, <2>7, <2>8, <2>9, <2>10 DEF Step
<1>3. ASSUME NEW c \in Client, Fail(c) PROVE DecisionInv'
  <2>1. UNCHANGED <<events, registry, sent, expected, seen, stored>>
    BY <1>3 DEF Fail, call
  <2>2. CASE Goto(c, "idle")
    BY <2>1, <2>2, QuietDecision
  <2>3. CASE phase[c] \in {"locked", "write"} /\ Goto(c, "unlock")
    <3>1. stored[c] = 0
      BY <2>3 DEF AppendInv
    <3> QED
      BY <2>1, <2>3, <3>1, QuietDecision
  <2> QED
    BY <1>3, <2>2, <2>3 DEF Fail, Answer
<1>4. ASSUME NEW c \in Client, Crash(c) PROVE DecisionInv'
  BY <1>4, QuietDecision DEF Crash, disk, call
<1>5. CASE UNCHANGED vars \/ WriteByHand
  <2>1. UNCHANGED <<events, registry, phase, sent, expected, seen, stored>>
    BY <1>5 DEF vars, call, WriteByHand
  <2>2. EveryEventAuthorized' /\ \A d \in Client : Snapshot(d)' = Snapshot(d)
    BY <2>1 DEF DecisionInv, EveryEventAuthorized, Snapshot
  <2> QED
    BY <2>1, <2>2 DEF DecisionInv, RegistryIsReplay
<1> QED
  BY <1>1, <1>2, <1>3, <1>4, <1>5 DEF Next, Idle

\* The invariant of the decision holds while clients name versions they have seen.
LEMMA DecisionAlways == ASSUME Seen PROVE Spec => []DecisionInv
BY AppendAlways, DecisionInit, DecisionStep, PTL DEF Spec

\* As long as clients name only versions they have seen, every event of the
\* stream was allowed by the events before it, although decide runs without the
\* lock.
THEOREM EventsAuthorized == ASSUME Seen PROVE Spec => []EveryEventAuthorized
<1>1. DecisionInv => EveryEventAuthorized
  BY DEF DecisionInv
<1> QED
  BY <1>1, DecisionAlways, PTL

\* Under the same condition the registry file is the replay of a prefix of the
\* stream, in whatever order commands publish.
THEOREM RegistryIsPrefix == ASSUME Seen PROVE Spec => []RegistryIsReplay
<1>1. DecisionInv => RegistryIsReplay
  BY DEF DecisionInv
<1> QED
  BY <1>1, DecisionAlways, PTL

-----------------------------------------------------------------------------
(* The role files *)

\* A role file that a projection wrote shows a prefix of the stream.
FileInv ==
  /\ files = [f \in RoleFile |-> files[f]]
  /\ RoleFileIsPrefix

\* The messages of a longer snapshot: the last event may be one of them.
LEMMA MessagesGrow ==
  ASSUME NEW stream \in Seq(Event), NEW n \in 1 .. Len(stream), NEW id, NEW ticket
  PROVE  messages(SubSeq(stream, 1, n), id, ticket) =
           messages(SubSeq(stream, 1, n - 1), id, ticket)
             \cup {v \in {n} : /\ stream[v].command.type = "CaptureMessage"
                               /\ stream[v].command.id = id
                               /\ stream[v].command.ticket = ticket}
<1>1. n \in Nat /\ Len(stream) \in Nat /\ n <= Len(stream) /\ DOMAIN stream = 1 .. Len(stream)
  BY LenProperties
<1>2. ASSUME NEW m \in 0 .. Len(stream)
      PROVE  /\ DOMAIN SubSeq(stream, 1, m) = 1 .. m
             /\ \A v \in 1 .. m : SubSeq(stream, 1, m)[v] = stream[v]
  BY <1>1
<1>3. /\ DOMAIN SubSeq(stream, 1, n) = 1 .. n
      /\ \A v \in 1 .. n : SubSeq(stream, 1, n)[v] = stream[v]
  BY <1>1, <1>2
<1>4. /\ DOMAIN SubSeq(stream, 1, n - 1) = 1 .. n - 1
      /\ \A v \in 1 .. n - 1 : SubSeq(stream, 1, n - 1)[v] = stream[v]
  <2>1. n - 1 \in 0 .. Len(stream)
    BY <1>1
  <2> QED
    BY <1>2, <2>1
<1>5. 1 .. n = (1 .. n - 1) \cup {n}
  BY <1>1
<1> QED
  BY <1>3, <1>4, <1>5 DEF messages

\* What a projection shows are the messages of the stream up to its event.
LEMMA ShownIsPrefix ==
  ASSUME AppendInv, DecisionInv, NEW c \in Client, phase[c] \in {"publish", "replace"}
  PROVE  /\ stored[c] \in 0 .. Len(events)
         /\ Shown(c) = messages(SubSeq(events, 1, stored[c]), sent[c].command.id, sent[c].command.ticket)
<1> DEFINE cmd == sent[c].command
           last == {v \in {stored[c]} : /\ events[v].command.type = "CaptureMessage"
                                        /\ events[v].command.id = cmd.id
                                        /\ events[v].command.ticket = cmd.ticket}
<1>1. /\ events \in Seq(Event) /\ Len(events) \in Nat
      /\ stored[c] \in 1 .. Len(events) /\ events[stored[c]] = sent[c]
      /\ Snapshot(c) = SubSeq(events, 1, stored[c] - 1)
  BY UpdatedIsPrefix, LenProperties DEF AppendInv
<1>2. messages(SubSeq(events, 1, stored[c]), cmd.id, cmd.ticket) =
        messages(Snapshot(c), cmd.id, cmd.ticket) \cup last
  BY <1>1, MessagesGrow
<1>3. last = IF cmd.type = "CaptureMessage" THEN {stored[c]} ELSE {}
  BY <1>1
<1> HIDE DEF last
<1>4. Shown(c) = messages(Snapshot(c), cmd.id, cmd.ticket) \cup last
  BY <1>3 DEF Shown
<1> QED
  BY <1>1, <1>2, <1>4

\* A longer stream has the same prefixes.
LEMMA FilesStay ==
  ASSUME FileInv, UNCHANGED files, NEW e \in Event, events \in Seq(Event),
         events' = Append(events, e)
  PROVE  FileInv'
<1>1. Len(events) \in Nat /\ Len(events') = Len(events) + 1
  BY StreamGrows, LenProperties
<1>2. ASSUME NEW f \in RoleFile, files[f] \notin {None, UNTRUSTED}
      PROVE  \E n \in 0 .. Len(events') : files[f] = messages(SubSeq(events', 1, n), f[2], f[3])
  <2>1. PICK n \in 0 .. Len(events) : files[f] = messages(SubSeq(events, 1, n), f[2], f[3])
    BY <1>2 DEF FileInv, RoleFileIsPrefix
  <2>2. SubSeq(events', 1, n) = SubSeq(events, 1, n) /\ n \in 0 .. Len(events')
    BY <1>1, SnapshotStays
  <2> QED
    BY <2>1, <2>2
<1> QED
  BY <1>2 DEF FileInv, RoleFileIsPrefix

\* Only a projection writes a role file, or somebody one that is not trusted.
LEMMA FileStep == ASSUME AppendInv, DecisionInv, FileInv, [Next]_vars PROVE FileInv'
<1>1. ASSUME NEW c \in Client, ReplaceProjection(c) PROVE FileInv'
  <2> DEFINE file == Target(c)
  <2>1. phase[c] = "replace" /\ UNCHANGED events /\ files' = [files EXCEPT ![file] = Shown(c)]
    BY <1>1 DEF ReplaceProjection
  <2>2. PICK n \in 0 .. Len(events) : Shown(c) = messages(SubSeq(events, 1, n), file[2], file[3])
    BY <2>1, ShownIsPrefix DEF Target
  <2> HIDE DEF file
  <2>3. \A f \in RoleFile : files'[f] = files[f] \/ (f = file /\ files'[f] = Shown(c))
    BY <2>1 DEF FileInv
  <2>4. RoleFileIsPrefix'
    BY <2>1, <2>2, <2>3 DEF FileInv, RoleFileIsPrefix
  <2>5. files' = [f \in RoleFile |-> files'[f]]
    BY <2>1 DEF FileInv
  <2> QED
    BY <2>4, <2>5 DEF FileInv
<1>2. ASSUME NEW c \in Client, EndWrite(c) PROVE FileInv'
  <2>1. sent[c] \in Event /\ events \in Seq(Event)
    BY <1>2, IntakeAssumption DEF EndWrite, AppendInv, IntakeAssumption, Event
  <2> QED
    BY <1>2, <2>1, FilesStay DEF EndWrite
<1>3. CASE WriteByHand
  <2>1. PICK f \in ByHand : files' = [files EXCEPT ![f] = UNTRUSTED]
    BY <1>3 DEF WriteByHand
  <2>2. UNCHANGED events
    BY <1>3 DEF WriteByHand
  <2>3. \A g \in RoleFile : files'[g] = files[g] \/ files'[g] = UNTRUSTED
    BY <2>1 DEF FileInv
  <2>4. files' = [g \in RoleFile |-> files'[g]]
    BY <2>1 DEF FileInv
  <2> QED
    BY <2>2, <2>3, <2>4 DEF FileInv, RoleFileIsPrefix
<1>4. CASE UNCHANGED <<events, files>>
  BY <1>4 DEF FileInv, RoleFileIsPrefix
<1>5. \/ UNCHANGED <<events, files>> \/ WriteByHand
      \/ \E c \in Client : ReplaceProjection(c) \/ EndWrite(c)
  BY DEF Next, Step, Submit, Decide, OpenLock, AppendNothing, BeginWrite, Unlock, PublishRegistry,
         CheckProjection, PublishNothing, Fail, Crash, Idle, vars, disk
<1> QED
  BY <1>1, <1>2, <1>3, <1>4, <1>5

\* Under the same condition a role file shows the messages of its participant and
\* ticket up to some version, none left out and none of a later one mixed in.
THEOREM RoleFilesArePrefixes == ASSUME Seen PROVE Spec => []RoleFileIsPrefix
<1>1. Init => FileInv
  BY DEF Init, FileInv, RoleFileIsPrefix
<1>2. AppendInv /\ DecisionInv /\ FileInv /\ [Next]_vars => FileInv'
  BY FileStep
<1>3. FileInv => RoleFileIsPrefix
  BY DEF FileInv
<1> QED
  BY <1>1, <1>2, <1>3, AppendAlways, DecisionAlways, PTL DEF Spec

-----------------------------------------------------------------------------
(* What replay computes *)

\* The least-number principle, from which the inductions below are made.
LEMMA SmallestOf == ASSUME NEW T \in SUBSET Nat, T # {} PROVE \E n \in T : \A m \in T : n <= m
<1> DEFINE less == {ss \in Nat \X Nat : ss[1] < ss[2]}
<1>1. IsWellFoundedOn(less, Nat)
  BY NatLessThanWellFounded DEF OpToRel
<1>2. PICK x \in T : \A y \in T : <<y, x>> \notin less
  <2> HIDE DEF less
  <2> QED
    BY <1>1, WFMin
<1>3. \A y \in T : ~(y < x)
  BY <1>2
<1> QED
  BY <1>3

\* No participant is registered.
Nobody == [p \in ParticipantId |-> None]

\* The participants after each of the first n events of a stream.
Replays(stream, n, after) ==
  after = [k \in 0 .. n |-> IF k = 0 THEN Nobody ELSE applyEvent(after[k - 1], stream[k])]

\* There are such participants, for any number of events.
LEMMA ReplayExists == ASSUME NEW stream, NEW n \in Nat PROVE \E after : Replays(stream, n, after)
<1> DEFINE T == {k \in Nat : ~\E after : Replays(stream, k, after)}
<1> SUFFICES ASSUME T # {} PROVE FALSE
  OBVIOUS
<1>1. PICK k \in T : \A j \in T : k <= j
  BY SmallestOf
<1>2. CASE k = 0
  <2>1. Replays(stream, 0, [j \in 0 .. 0 |-> Nobody])
    BY DEF Replays
  <2> QED
    BY <1>1, <1>2, <2>1
<1>3. CASE k # 0
  <2>1. k - 1 \in Nat /\ k - 1 \notin T
    BY <1>1, <1>3
  <2>2. PICK after : Replays(stream, k - 1, after)
    BY <2>1
  <2>3. Replays(stream, k, [j \in 0 .. k |-> IF j = k THEN applyEvent(after[k - 1], stream[k]) ELSE after[j]])
    BY <1>3, <2>1, <2>2 DEF Replays
  <2> QED
    BY <1>1, <2>3
<1> QED
  BY <1>2, <1>3

\* So the recursive function of replay is one.
LEMMA ReplayIs ==
  ASSUME NEW stream, Len(stream) \in Nat
  PROVE  \E after : Replays(stream, Len(stream), after) /\ replay(stream) = after[Len(stream)]
<1>1. PICK after : Replays(stream, Len(stream), after)
  BY ReplayExists
<1> QED
  BY <1>1 DEF replay, Replays, Nobody

\* Two such functions agree as far as their streams do.
LEMMA ReplaysAgree ==
  ASSUME NEW s, NEW t, NEW n \in Nat, NEW m \in Nat, n <= m, \A k \in 1 .. n : s[k] = t[k],
         NEW f, NEW g, Replays(s, n, f), Replays(t, m, g)
  PROVE  f[n] = g[n]
<1> DEFINE T == {k \in 0 .. n : f[k] # g[k]}
<1> SUFFICES ASSUME T # {} PROVE FALSE
  OBVIOUS
<1>1. PICK k \in T : \A j \in T : k <= j
  <2>1. T \in SUBSET Nat
    OBVIOUS
  <2> HIDE DEF T
  <2> QED
    BY <2>1, SmallestOf
<1>2. CASE k = 0
  BY <1>1, <1>2 DEF Replays
<1>3. CASE k # 0
  <2>1. k - 1 \in 0 .. n /\ k \in 1 .. n /\ k \in 0 .. m /\ k \in 0 .. n
    BY <1>1, <1>3
  <2>2. f[k - 1] = g[k - 1]
    BY <1>1, <2>1
  <2>3. f[k] = applyEvent(f[k - 1], s[k])
    BY <1>3, <2>1 DEF Replays
  <2>4. g[k] = applyEvent(g[k - 1], t[k])
    BY <1>3, <2>1 DEF Replays
  <2> QED
    BY <1>1, <2>1, <2>2, <2>3, <2>4
<1> QED
  BY <1>2, <1>3

\* A stream without events has no participants.
LEMMA ReplayEmpty == ASSUME NEW stream, Len(stream) = 0 PROVE replay(stream) = Nobody
BY ReplayIs DEF Replays

\* One more event is applied to the participants of the stream before it.
LEMMA ReplayAppend ==
  ASSUME NEW stream \in Seq(Event), NEW e \in Event
  PROVE  replay(Append(stream, e)) = applyEvent(replay(stream), e)
<1> DEFINE next == Append(stream, e)
           n == Len(stream)
<1>1. n \in Nat /\ Len(next) = n + 1 /\ (\A v \in 1 .. n : stream[v] = next[v]) /\ next[n + 1] = e
  BY StreamGrows, LenProperties
<1> HIDE DEF next, n
<1>2. PICK f : Replays(stream, n, f) /\ replay(stream) = f[n]
  BY <1>1, ReplayIs DEF n
<1>3. PICK g : Replays(next, n + 1, g) /\ replay(next) = g[n + 1]
  BY <1>1, ReplayIs
<1>4. f[n] = g[n]
  <2>1. n <= n + 1 /\ n + 1 \in Nat
    BY <1>1
  <2> QED
    BY <1>1, <1>2, <1>3, <2>1, ReplaysAgree
<1>5. g[n + 1] = applyEvent(g[n], next[n + 1])
  <2>1. n + 1 \in 0 .. n + 1 /\ n + 1 # 0 /\ (n + 1) - 1 = n
    BY <1>1
  <2> QED
    BY <1>3, <2>1 DEF Replays
<1> QED
  BY <1>1, <1>2, <1>3, <1>4, <1>5 DEF next

\* The ids that the events of a stream register, and streams that change only
\* participants they have registered before: those that replay can go through.
Registers(e, id) == e.command.type = "RegisterParticipant" /\ e.command.id = id
Registered(stream) == {id \in ParticipantId : \E v \in 1 .. Len(stream) : Registers(stream[v], id)}
Changes(e) == e.command.type \in {"BindExternalIdentity", "AssignRole"}
Grounded(stream) ==
  \A v \in 1 .. Len(stream) :
    Changes(stream[v]) => \E w \in 1 .. v - 1 : Registers(stream[w], stream[v].command.id)

\* What replay returns for a stream it can go through.
Participants == [ParticipantId -> Participant \cup {None}]

\* The fields of a command (intake-contract.ts).
LEMMA CommandFields ==
  ASSUME NEW e \in Event
  PROVE  /\ e.command.type = "RegisterParticipant" =>
              e.command.id \in ParticipantId /\ e.command.participant \in Participant
         /\ e.command.type = "BindExternalIdentity" =>
              e.command.id \in ParticipantId /\ e.command.principal \in Principal
         /\ e.command.type = "AssignRole" =>
              /\ e.command.id \in ParticipantId /\ e.command.role \in Role
              /\ e.command.tickets \in SUBSET Ticket /\ e.command.capabilities \in SUBSET Capability
         /\ e.command.type = "CaptureMessage" =>
              e.command.id \in ParticipantId /\ e.command.role \in Role /\ e.command.ticket \in Ticket
         /\ e.command.type = "RebuildProjection" =>
              e.command.id \in ParticipantId /\ e.command.ticket \in Ticket
         /\ e.command.type \in {"RegisterParticipant", "BindExternalIdentity", "AssignRole",
                                "CaptureMessage", "RebuildProjection", "VerifyEventStream"}
<1>1. e.command \in Command
  BY DEF Event, Submission
<1> QED
  BY <1>1 DEF Command

\* An event that changes a participant needs one; a registration makes one known.
LEMMA ApplyKnown ==
  ASSUME NEW state \in Participants, NEW e \in Event, Changes(e) => state[e.command.id] # None
  PROVE  /\ applyEvent(state, e) \in Participants
         /\ \A id \in ParticipantId :
              id \in Known(applyEvent(state, e)) <=> id \in Known(state) \/ Registers(e, id)
<1> DEFINE cmd == e.command
<1>1. None \notin Participant
  BY IntakeAssumption DEF IntakeAssumption
<1>2. CASE cmd.type = "RegisterParticipant"
  <2>1. applyEvent(state, e) = [state EXCEPT ![cmd.id] = cmd.participant]
    BY <1>2 DEF applyEvent
  <2>2. cmd.participant \in Participant /\ cmd.id \in ParticipantId
    BY <1>2, CommandFields
  <2> QED
    BY <1>1, <1>2, <2>1, <2>2 DEF Participants, Known, Registers
<1>3. CASE cmd.type = "BindExternalIdentity"
  <2>1. applyEvent(state, e) = [state EXCEPT ![cmd.id].principals = @ \cup {cmd.principal}]
    BY <1>3 DEF applyEvent
  <2>2. cmd.id \in ParticipantId /\ cmd.principal \in Principal /\ state[cmd.id] \in Participant
    BY <1>3, CommandFields DEF Changes, Participants
  <2>3. [state[cmd.id] EXCEPT !.principals = @ \cup {cmd.principal}] \in Participant
    BY <2>2 DEF Participant
  <2> QED
    BY <1>1, <1>3, <2>1, <2>2, <2>3 DEF Participants, Known, Registers
<1>4. CASE cmd.type = "AssignRole"
  <2> DEFINE new == [state[cmd.id] EXCEPT !.role = cmd.role, !.tickets = cmd.tickets,
                                          !.capabilities = cmd.capabilities]
  <2>1. applyEvent(state, e) = [state EXCEPT ![cmd.id] = new]
    BY <1>4 DEF applyEvent
  <2>2. cmd.id \in ParticipantId /\ state[cmd.id] \in Participant
    BY <1>4, CommandFields DEF Changes, Participants
  <2>3. new \in Participant
    BY <1>4, <2>2, CommandFields DEF Participant
  <2> HIDE DEF new
  <2> QED
    BY <1>1, <1>4, <2>1, <2>2, <2>3 DEF Participants, Known, Registers
<1>5. CASE cmd.type \notin {"RegisterParticipant", "BindExternalIdentity", "AssignRole"}
  <2>1. applyEvent(state, e) = state
    BY <1>5 DEF applyEvent
  <2> QED
    BY <1>5, <2>1 DEF Registers
<1> QED
  BY <1>2, <1>3, <1>4, <1>5

\* One more event registers whom it registers.
LEMMA RegisteredGrows ==
  ASSUME NEW stream \in Seq(Event), NEW e \in Event
  PROVE  \A id \in ParticipantId :
           id \in Registered(Append(stream, e)) <=> id \in Registered(stream) \/ Registers(e, id)
<1> DEFINE next == Append(stream, e)
           n == Len(stream)
<1>1. n \in Nat /\ Len(next) = n + 1 /\ (\A v \in 1 .. n : next[v] = stream[v]) /\ next[n + 1] = e
  BY StreamGrows, LenProperties
<1> HIDE DEF next
<1>2. 1 .. n + 1 = (1 .. n) \cup {n + 1}
  BY <1>1
<1>3. \A id \in ParticipantId : (\E v \in 1 .. n + 1 : Registers(next[v], id)) <=>
        (\E v \in 1 .. n : Registers(stream[v], id)) \/ Registers(e, id)
  BY <1>1, <1>2
<1> QED
  BY <1>1, <1>3 DEF Registered, next

\* A stream whose events change nobody else stays so behind such an event.
LEMMA GroundedGrows ==
  ASSUME NEW stream \in Seq(Event), NEW e \in Event, Grounded(stream),
         Changes(e) => e.command.id \in Registered(stream)
  PROVE  Grounded(Append(stream, e))
<1> DEFINE next == Append(stream, e)
           n == Len(stream)
<1>1. n \in Nat /\ Len(next) = n + 1 /\ (\A v \in 1 .. n : next[v] = stream[v]) /\ next[n + 1] = e
  BY StreamGrows, LenProperties
<1> HIDE DEF next
<1>2. ASSUME NEW v \in 1 .. n + 1, Changes(next[v])
      PROVE  \E w \in 1 .. v - 1 : Registers(next[w], next[v].command.id)
  <2>1. CASE v \in 1 .. n
    <3>1. PICK w \in 1 .. v - 1 : Registers(stream[w], stream[v].command.id)
      BY <1>1, <1>2, <2>1 DEF Grounded
    <3>2. w \in 1 .. n
      BY <1>1, <2>1
    <3> QED
      BY <1>1, <2>1, <3>1, <3>2
  <2>2. CASE v = n + 1
    <3>1. PICK w \in 1 .. n : Registers(stream[w], e.command.id)
      BY <1>1, <1>2, <2>2 DEF Registered
    <3>2. w \in 1 .. v - 1
      BY <1>1, <2>2
    <3> QED
      BY <1>1, <2>2, <3>1, <3>2
  <2> QED
    BY <1>1, <2>1, <2>2
<1> QED
  BY <1>1, <1>2 DEF Grounded, next

\* A prefix of a stream: its events, and the stream that it is without its last.
LEMMA PrefixIs ==
  ASSUME NEW stream \in Seq(Event), NEW n \in 0 .. Len(stream)
  PROVE  /\ SubSeq(stream, 1, n) \in Seq(Event) /\ Len(SubSeq(stream, 1, n)) = n
         /\ \A v \in 1 .. n : SubSeq(stream, 1, n)[v] = stream[v] /\ stream[v] \in Event
<1>1. Len(stream) \in Nat /\ n \in Nat
  BY LenProperties
<1>2. \A v \in 1 .. n : stream[v] \in Event
  BY <1>1, ElementOfSeq
<1> QED
  BY <1>1, <1>2, SubSeqProperties

\* replay went through the stream, and knows whom it registered.
Replayed(stream) ==
  /\ replay(stream) \in Participants
  /\ \A id \in ParticipantId : id \in Known(replay(stream)) <=> id \in Registered(stream)

\* It goes through a stream without events.
LEMMA ReplayedEmpty == ASSUME NEW stream, Len(stream) = 0 PROVE Replayed(stream)
<1>1. replay(stream) = Nobody
  BY ReplayEmpty
<1> QED
  BY <1>1 DEF Replayed, Registered, Participants, Known, Nobody

\* It goes through one more event that changes nobody else.
LEMMA ReplayedGrows ==
  ASSUME NEW stream \in Seq(Event), NEW e \in Event, Replayed(stream),
         Changes(e) => e.command.id \in Registered(stream)
  PROVE  Replayed(Append(stream, e))
<1> DEFINE state == replay(stream)
<1>1. state \in Participants /\ (Changes(e) => state[e.command.id] # None)
  BY CommandFields DEF Replayed, Known, Changes
<1>2. replay(Append(stream, e)) = applyEvent(state, e)
  BY ReplayAppend
<1> HIDE DEF state
<1>3. /\ applyEvent(state, e) \in Participants
      /\ \A id \in ParticipantId :
           id \in Known(applyEvent(state, e)) <=> id \in Known(state) \/ Registers(e, id)
  BY <1>1, ApplyKnown
<1>4. \A id \in ParticipantId : id \in Known(state) <=> id \in Registered(stream)
  BY DEF Replayed, state
<1> QED
  BY <1>2, <1>3, <1>4, RegisteredGrows DEF Replayed

\* replay goes through every such stream, and knows whom it registers.
LEMMA GroundedReplays ==
  ASSUME NEW stream \in Seq(Event), Grounded(stream) PROVE Replayed(stream)
<1> DEFINE T == {n \in 0 .. Len(stream) : ~Replayed(SubSeq(stream, 1, n))}
<1>1. Len(stream) \in Nat /\ SubSeq(stream, 1, Len(stream)) = stream
  BY LenProperties, SubSeqFull
<1> SUFFICES ASSUME ~Replayed(stream) PROVE FALSE
  OBVIOUS
<1>2. PICK n \in T : \A k \in T : n <= k
  <2>1. T \in SUBSET Nat /\ Len(stream) \in 0 .. Len(stream)
    BY <1>1
  <2>2. ~Replayed(SubSeq(stream, 1, Len(stream)))
    BY <1>1, Zenon
  <2>3. Len(stream) \in T
    BY <2>1, <2>2
  <2> HIDE DEF T
  <2> QED
    BY <2>1, <2>3, SmallestOf
<1>3. n \in 0 .. Len(stream) /\ n \in Nat /\ ~Replayed(SubSeq(stream, 1, n))
  BY <1>1
<1>4. CASE n = 0
  BY <1>3, <1>4, PrefixIs, ReplayedEmpty
<1>5. CASE n # 0
  <2> DEFINE before == SubSeq(stream, 1, n - 1)
  <2>1. n \in 1 .. Len(stream) /\ n - 1 \in 0 .. Len(stream) /\ n - 1 < n
    BY <1>1, <1>3, <1>5
  <2>2. Replayed(before)
    BY <1>2, <2>1
  <2>3. before \in Seq(Event) /\ Len(before) = n - 1 /\ \A v \in 1 .. n - 1 : before[v] = stream[v]
    BY <2>1, PrefixIs
  <2>4. stream[n] \in Event
    BY <2>1, ElementOfSeq
  <2>5. SubSeq(stream, 1, n) = Append(before, stream[n])
    BY <2>1, SnapshotGrows
  <2> HIDE DEF before, T
  <2>6. Changes(stream[n]) => stream[n].command.id \in Registered(before)
    BY <2>1, <2>3, <2>4, CommandFields DEF Grounded, Registered, Changes
  <2> QED
    BY <1>3, <2>2, <2>3, <2>4, <2>5, <2>6, ReplayedGrows
<1> QED
  BY <1>4, <1>5

\* A command that decide allowed changes only a participant of its snapshot.
LEMMA AllowedIsKnown ==
  ASSUME NEW stream \in Seq(Event), Grounded(stream), NEW e \in Event,
         Authorized(replay(stream), e), Changes(e)
  PROVE  e.command.id \in Registered(stream)
<1>1. replay(stream)[e.command.id] # None /\ e.command.id \in ParticipantId
  BY CommandFields DEF Authorized, Changes
<1> QED
  BY <1>1, GroundedReplays DEF Replayed, Known

\* A stream each of whose events was allowed in its place is such a stream.
LEMMA LawfulIsGrounded ==
  ASSUME NEW stream \in Seq(Event), AuthorizedInOrder(stream) PROVE Grounded(stream)
<1> DEFINE T == {n \in 0 .. Len(stream) : ~Grounded(SubSeq(stream, 1, n))}
<1>1. Len(stream) \in Nat /\ SubSeq(stream, 1, Len(stream)) = stream /\ DOMAIN stream = 1 .. Len(stream)
  BY LenProperties, SubSeqFull
<1> SUFFICES ASSUME ~Grounded(stream) PROVE FALSE
  OBVIOUS
<1>2. PICK n \in T : \A k \in T : n <= k
  <2>1. T \in SUBSET Nat /\ Len(stream) \in 0 .. Len(stream)
    BY <1>1
  <2>2. ~Grounded(SubSeq(stream, 1, Len(stream)))
    BY <1>1, Zenon
  <2>3. Len(stream) \in T
    BY <2>1, <2>2
  <2> HIDE DEF T
  <2> QED
    BY <2>1, <2>3, SmallestOf
<1>3. n \in 0 .. Len(stream) /\ n \in Nat /\ ~Grounded(SubSeq(stream, 1, n))
  BY <1>1
<1>4. CASE n = 0
  BY <1>3, <1>4, PrefixIs DEF Grounded
<1>5. CASE n # 0
  <2> DEFINE before == SubSeq(stream, 1, n - 1)
  <2>1. n \in 1 .. Len(stream) /\ n - 1 \in 0 .. Len(stream) /\ n - 1 < n
    BY <1>1, <1>3, <1>5
  <2>2. Grounded(before)
    BY <1>2, <2>1
  <2>3. before \in Seq(Event) /\ stream[n] \in Event
    BY <2>1, PrefixIs, ElementOfSeq
  <2>4. Authorized(replay(before), stream[n])
    BY <1>1, <2>1 DEF AuthorizedInOrder
  <2>5. SubSeq(stream, 1, n) = Append(before, stream[n])
    BY <2>1, SnapshotGrows
  <2> HIDE DEF before, T
  <2>6. Grounded(Append(before, stream[n]))
    BY <2>2, <2>3, <2>4, AllowedIsKnown, GroundedGrows
  <2> QED
    BY <1>3, <2>5, <2>6
<1> QED
  BY <1>4, <1>5

-----------------------------------------------------------------------------
(* No principal names two participants *)

\* Nobody shares a principal with another participant.
Unambiguous(state) ==
  \A p, q \in Known(state), principal \in Principal :
    principal \in state[p].principals /\ principal \in state[q].principals => p = q

\* An event that was allowed gives nobody the principal of another
\* (ensurePrincipalAvailable).
LEMMA ApplyUnambiguous ==
  ASSUME NEW state \in Participants, NEW e \in Event, Authorized(state, e), Unambiguous(state)
  PROVE  Unambiguous(applyEvent(state, e))
<1> DEFINE cmd == e.command
           next == applyEvent(state, e)
<1>1. None \notin Participant
  BY IntakeAssumption DEF IntakeAssumption
<1>2. CASE cmd.type = "RegisterParticipant"
  <2>1. /\ next = [state EXCEPT ![cmd.id] = cmd.participant]
        /\ cmd.participant \in Participant /\ cmd.id \in ParticipantId
    BY <1>2, CommandFields DEF applyEvent
  <2>2. /\ state[cmd.id] = None
        /\ \A principal \in cmd.participant.principals : Available(state, principal, cmd.id)
    BY <1>2 DEF Authorized
  <2>3. \A q \in Known(state), principal \in cmd.participant.principals :
          principal \in state[q].principals => q = cmd.id
    BY <2>2 DEF Available, Actors
  <2> HIDE DEF next
  <2>4. /\ \A p \in ParticipantId : next[p] = IF p = cmd.id THEN cmd.participant ELSE state[p]
        /\ \A p \in Known(next) : p = cmd.id \/ p \in Known(state)
    BY <2>1 DEF Participants, Known
  <2>5. \A p \in Known(next) : p \in ParticipantId
    BY DEF Known
  <2> QED
    BY <2>3, <2>4, <2>5 DEF Unambiguous, next
<1>3. CASE cmd.type = "BindExternalIdentity"
  <2>1. /\ next = [state EXCEPT ![cmd.id].principals = @ \cup {cmd.principal}]
        /\ cmd.id \in ParticipantId
    BY <1>3, CommandFields DEF applyEvent
  <2>2. state[cmd.id] # None /\ Available(state, cmd.principal, cmd.id)
    BY <1>3 DEF Authorized
  <2>3. state[cmd.id] \in Participant
    BY <2>1, <2>2 DEF Participants
  <2>4. \A q \in Known(state) : cmd.principal \in state[q].principals => q = cmd.id
    BY <2>2 DEF Available, Actors
  <2> HIDE DEF next
  <2>5. /\ \A p \in ParticipantId : p # cmd.id => next[p] = state[p]
        /\ next[cmd.id].principals = state[cmd.id].principals \cup {cmd.principal}
    BY <2>1, <2>3 DEF Participants, Participant
  <2>6. \A p \in Known(next) : p \in ParticipantId /\ p \in Known(state)
    BY <2>1, <2>2, <2>5 DEF Known
  <2> QED
    BY <2>4, <2>5, <2>6 DEF Unambiguous, next
<1>4. CASE cmd.type = "AssignRole"
  <2>1. /\ next = [state EXCEPT ![cmd.id] = [@ EXCEPT !.role = cmd.role, !.tickets = cmd.tickets,
                                                      !.capabilities = cmd.capabilities]]
        /\ cmd.id \in ParticipantId
    BY <1>4, CommandFields DEF applyEvent
  <2>2. state[cmd.id] # None
    BY <1>4 DEF Authorized
  <2>3. state[cmd.id] \in Participant
    BY <2>1, <2>2 DEF Participants
  <2> HIDE DEF next
  <2>4. /\ \A p \in ParticipantId : p # cmd.id => next[p] = state[p]
        /\ next[cmd.id].principals = state[cmd.id].principals
    BY <2>1, <2>3 DEF Participants, Participant
  <2>5. \A p \in Known(next) : p \in ParticipantId /\ p \in Known(state)
    BY <2>1, <2>2, <2>4 DEF Known
  <2> QED
    BY <2>4, <2>5 DEF Unambiguous, next
<1>5. CASE cmd.type \notin {"RegisterParticipant", "BindExternalIdentity", "AssignRole"}
  BY <1>5 DEF applyEvent
<1> QED
  BY <1>2, <1>3, <1>4, <1>5

\* A prefix of a lawful stream is lawful.
LEMMA LawfulPrefix ==
  ASSUME NEW stream \in Seq(Event), AuthorizedInOrder(stream), NEW n \in 0 .. Len(stream)
  PROVE  AuthorizedInOrder(SubSeq(stream, 1, n))
<1> DEFINE before == SubSeq(stream, 1, n)
<1>1. Len(stream) \in Nat /\ n \in Nat /\ n <= Len(stream) /\ DOMAIN stream = 1 .. Len(stream)
  BY LenProperties
<1>2. /\ before \in Seq(Event) /\ Len(before) = n /\ DOMAIN before = 1 .. n
      /\ \A v \in 1 .. n : before[v] = stream[v]
  BY PrefixIs, LenProperties
<1>3. \A v \in 1 .. n : SubSeq(before, 1, v - 1) = SubSeq(stream, 1, v - 1)
  <2> SUFFICES ASSUME NEW v \in 1 .. n PROVE SubSeq(before, 1, v - 1) = SubSeq(stream, 1, v - 1)
    OBVIOUS
  <2>1. v - 1 \in 0 .. n /\ v - 1 \in 0 .. Len(stream) /\ v - 1 \in Nat
    BY <1>1
  <2> HIDE DEF before
  <2>2. /\ SubSeq(before, 1, v - 1) \in Seq(Event) /\ Len(SubSeq(before, 1, v - 1)) = v - 1
        /\ \A w \in 1 .. v - 1 : SubSeq(before, 1, v - 1)[w] = before[w]
    BY <1>2, <2>1, PrefixIs
  <2>3. /\ SubSeq(stream, 1, v - 1) \in Seq(Event) /\ Len(SubSeq(stream, 1, v - 1)) = v - 1
        /\ \A w \in 1 .. v - 1 : SubSeq(stream, 1, v - 1)[w] = stream[w]
    BY <2>1, PrefixIs
  <2>4. \A w \in 1 .. v - 1 : w \in 1 .. n
    BY <2>1
  <2> QED
    BY <1>2, <2>2, <2>3, <2>4, SeqEqual
<1> HIDE DEF before
<1>4. \A v \in 1 .. n : Authorized(replay(SubSeq(stream, 1, v - 1)), stream[v])
  BY <1>1 DEF AuthorizedInOrder
<1>5. \A v \in 1 .. n : Authorized(replay(SubSeq(before, 1, v - 1)), before[v])
  BY <1>2, <1>3, <1>4
<1> QED
  BY <1>2, <1>5 DEF AuthorizedInOrder, before

\* So a lawful stream leaves nobody with the principal of another.
LEMMA LawfulIsUnambiguous ==
  ASSUME NEW stream \in Seq(Event), AuthorizedInOrder(stream) PROVE Unambiguous(replay(stream))
<1> DEFINE Good(n) == Unambiguous(replay(SubSeq(stream, 1, n)))
           T == {n \in 0 .. Len(stream) : ~Good(n)}
<1>1. Len(stream) \in Nat /\ SubSeq(stream, 1, Len(stream)) = stream /\ DOMAIN stream = 1 .. Len(stream)
  BY LenProperties, SubSeqFull
<1> SUFFICES ASSUME ~Unambiguous(replay(stream)) PROVE FALSE
  OBVIOUS
<1>2. PICK n \in T : \A k \in T : n <= k
  <2>1. T \in SUBSET Nat /\ Len(stream) \in 0 .. Len(stream)
    BY <1>1
  <2>2. ~Good(Len(stream))
    BY <1>1, Zenon
  <2>3. Len(stream) \in T
    BY <2>1, <2>2
  <2> HIDE DEF T
  <2> QED
    BY <2>1, <2>3, SmallestOf
<1>3. n \in 0 .. Len(stream) /\ n \in Nat /\ ~Good(n)
  BY <1>1
<1>4. CASE n = 0
  <2>1. replay(SubSeq(stream, 1, n)) = Nobody
    BY <1>3, <1>4, PrefixIs, ReplayEmpty
  <2>2. Unambiguous(Nobody)
    BY DEF Unambiguous, Known, Nobody
  <2> QED
    BY <1>3, <2>1, <2>2, Zenon
<1>5. CASE n # 0
  <2> DEFINE before == SubSeq(stream, 1, n - 1)
  <2>1. n \in 1 .. Len(stream) /\ n - 1 \in 0 .. Len(stream) /\ n - 1 < n
    BY <1>1, <1>3, <1>5
  <2>2. Unambiguous(replay(before))
    BY <1>2, <2>1
  <2>3. before \in Seq(Event) /\ stream[n] \in Event /\ AuthorizedInOrder(before)
    BY <2>1, PrefixIs, LawfulPrefix, ElementOfSeq
  <2>4. Authorized(replay(before), stream[n])
    BY <1>1, <2>1 DEF AuthorizedInOrder
  <2>5. SubSeq(stream, 1, n) = Append(before, stream[n])
    BY <2>1, SnapshotGrows
  <2> HIDE DEF before, T
  <2>6. replay(before) \in Participants
    BY <2>3, LawfulIsGrounded, GroundedReplays DEF Replayed
  <2>7. Unambiguous(applyEvent(replay(before), stream[n]))
    BY <2>2, <2>3, <2>4, <2>6, ApplyUnambiguous
  <2>8. replay(SubSeq(stream, 1, n)) = applyEvent(replay(before), stream[n])
    BY <2>3, <2>5, ReplayAppend
  <2> QED
    BY <1>3, <2>7, <2>8, Zenon
<1> QED
  BY <1>4, <1>5

\* As long as clients name only versions they have seen, resolveActor finds at
\* most one participant for a principal, whatever was registered or bound.
THEOREM ActorsUnambiguous == ASSUME Seen PROVE Spec => []PrincipalsUnambiguous
<1>1. AppendInv /\ DecisionInv => PrincipalsUnambiguous
  <2> SUFFICES ASSUME AppendInv, DecisionInv, NEW principal \in Principal
               PROVE  Cardinality(Actors(replay(events), principal)) <= 1
    BY DEF PrincipalsUnambiguous
  <2>1. Unambiguous(replay(events))
    BY LawfulIsUnambiguous DEF AppendInv, DecisionInv, EveryEventAuthorized
  <2>2. CASE Actors(replay(events), principal) = {}
    BY <2>2, FS_EmptySet
  <2>3. ASSUME NEW p \in Actors(replay(events), principal)
        PROVE  Cardinality(Actors(replay(events), principal)) <= 1
    <3>1. Actors(replay(events), principal) = {p}
      BY <2>1, <2>3 DEF Unambiguous, Actors
    <3>2. Cardinality({p}) = 1
      BY FS_Singleton
    <3> QED
      BY <3>1, <3>2
  <2> QED
    BY <2>2, <2>3
<1> QED
  BY <1>1, AppendAlways, DecisionAlways, PTL

-----------------------------------------------------------------------------
(* The types, and what a rejected command has stored *)

\* Where a command is that decide has allowed.
Decided == {"append", "locked", "write", "unlock", "publish", "replace"}

\* A command under way names a version below the bound; one that was allowed is
\* allowed by its snapshot still, and nobody has put a file of their own in the
\* place of its role file, unless it is one that somebody may write.
Allowed(c) ==
  /\ phase[c] # "idle" => expected[c] < MaxEvents
  /\ phase[c] \in Decided =>
       /\ Authorized(replay(Snapshot(c)), sent[c])
       /\ Projects(sent[c].command) => files[Target(c)] # UNTRUSTED \/ Target(c) \in ByHand

\* The inductive invariant, for clients that name any version.
CommandInv ==
  /\ TypeOK
  /\ Grounded(events)
  /\ \A c \in Client : Allowed(c)
  /\ RefusedStoredNothing

\* The registry and the role files of TypeOK.
Registries == [version : 0 .. MaxEvents, participants : Participants]
RoleFiles == [RoleFile -> (SUBSET (1 .. MaxEvents)) \cup {UNTRUSTED, None}]

\* The streams given are lawful, and nothing was submitted.
LEMMA CommandInit == Init => CommandInv
<1> SUFFICES ASSUME Init PROVE CommandInv
  OBVIOUS
<1>1. events \in Seq(Event) /\ Len(events) <= MaxEvents /\ AuthorizedInOrder(events) /\ Len(events) \in Nat
  BY StreamsAssumption, LenProperties DEF Init, StreamsAssumption
<1>2. Grounded(events) /\ replay(events) \in Participants
  BY <1>1, LawfulIsGrounded, GroundedReplays DEF Replayed
<1>3. MaxEvents \in Nat /\ MaxCrashes \in Nat
      /\ None \notin {"accepted", "duplicate", "rejected", "drift", "failed"}
  BY IntakeAssumption DEF IntakeAssumption
<1>4. registry \in Registries
  BY <1>1, <1>2, <1>3 DEF Init, Registries
<1>5. files \in RoleFiles
  BY DEF Init, RoleFiles
<1>6. TypeOK
  <2>1. /\ registry \in [version : 0 .. MaxEvents, participants : [ParticipantId -> Participant \cup {None}]]
        /\ files \in [RoleFile -> (SUBSET (1 .. MaxEvents)) \cup {UNTRUSTED, None}]
    BY <1>4, <1>5 DEF Registries, RoleFiles, Participants
  <2>2. torn \in BOOLEAN /\ lock \in Client \cup {None} /\ crashes \in 0 .. MaxCrashes
    <3>1. torn = FALSE /\ lock = None /\ crashes = 0
      BY DEF Init
    <3>2. torn \in BOOLEAN /\ lock \in Client \cup {None}
      BY <3>1
    <3>3. 0 \in 0 .. MaxCrashes
      BY <1>3
    <3> QED
      BY <3>1, <3>2, <3>3
  <2>3. /\ phase \in [Client -> Phase] /\ result \in [Client -> Result]
        /\ sent \in [Client -> Submissions \cup {None}]
    BY DEF Init, Phase, Result
  <2>4. /\ expected \in [Client -> 0 .. MaxEvents] /\ seen \in [Client -> 0 .. MaxEvents]
        /\ stored \in [Client -> 0 .. MaxEvents]
    BY <1>1, <1>3 DEF Init
  <2> QED
    BY <1>1, <2>1, <2>2, <2>3, <2>4 DEF TypeOK
<1>7. (\A c \in Client : Allowed(c)) /\ RefusedStoredNothing
  BY <1>3 DEF Init, Allowed, Decided, RefusedStoredNothing
<1> QED
  BY <1>2, <1>6, <1>7 DEF CommandInv

\* A snapshot is a stream that replay goes through.
LEMMA SnapshotReplays ==
  ASSUME AppendInv, CommandInv, NEW c \in Client
  PROVE  /\ Snapshot(c) \in Seq(Event) /\ Len(Snapshot(c)) = seen[c] /\ seen[c] \in 0 .. Len(events)
         /\ \A v \in 1 .. seen[c] : Snapshot(c)[v] = events[v]
         /\ Grounded(Snapshot(c)) /\ Replayed(Snapshot(c))
<1>1. /\ events \in Seq(Event) /\ Len(events) \in Nat /\ seen[c] \in 0 .. Len(events)
      /\ Grounded(events)
  BY LenProperties DEF AppendInv, CommandInv
<1>2. /\ Snapshot(c) \in Seq(Event) /\ Len(Snapshot(c)) = seen[c]
      /\ \A v \in 1 .. seen[c] : Snapshot(c)[v] = events[v]
  BY <1>1, PrefixIs DEF Snapshot
<1>3. ASSUME NEW v \in 1 .. seen[c], Changes(events[v])
      PROVE  \E w \in 1 .. v - 1 : Registers(Snapshot(c)[w], events[v].command.id)
  <2>1. v \in 1 .. Len(events)
    BY <1>1
  <2>2. PICK w \in 1 .. v - 1 : Registers(events[w], events[v].command.id)
    BY <1>1, <1>3, <2>1 DEF Grounded
  <2>3. w \in 1 .. seen[c]
    BY <1>1
  <2> QED
    BY <1>2, <2>2, <2>3
<1>4. Grounded(Snapshot(c))
  BY <1>2, <1>3 DEF Grounded
<1> QED
  BY <1>1, <1>2, <1>4, GroundedReplays

\* The stream a command replays when it publishes: its snapshot, and its event.
LEMMA UpdatedReplays ==
  ASSUME AppendInv, CommandInv, NEW c \in Client, phase[c] \in Decided
  PROVE  /\ sent[c] \in Event
         /\ Changes(sent[c]) => sent[c].command.id \in Registered(Snapshot(c))
         /\ replay(Updated(c)) \in Participants
         /\ replay(Updated(c)) = applyEvent(replay(Snapshot(c)), sent[c])
<1>1. sent[c] \in Event
  BY IntakeAssumption DEF AppendInv, Decided, IntakeAssumption, Event
<1>2. Snapshot(c) \in Seq(Event) /\ Grounded(Snapshot(c)) /\ Replayed(Snapshot(c))
  BY SnapshotReplays
<1>3. Changes(sent[c]) => sent[c].command.id \in Registered(Snapshot(c))
  BY <1>1, <1>2, AllowedIsKnown DEF CommandInv, Allowed
<1>4. replay(Updated(c)) \in Participants
  <2>1. Replayed(Append(Snapshot(c), sent[c]))
    BY <1>1, <1>2, <1>3, ReplayedGrows
  <2> QED
    BY <2>1 DEF Replayed, Updated
<1>5. replay(Updated(c)) = applyEvent(replay(Snapshot(c)), sent[c])
  BY <1>1, <1>2, ReplayAppend DEF Updated
<1> QED
  BY <1>1, <1>3, <1>4, <1>5

\* The author of a message that was allowed is on its ticket.
LEMMA CaptureIsAllowed ==
  ASSUME CommandInv, NEW c \in Client, phase[c] \in Decided,
         sent[c].command.type = "CaptureMessage"
  PROVE  sent[c].command.ticket \in replay(Snapshot(c))[sent[c].command.id].tickets
<1>1. MayCapture(replay(Snapshot(c)), sent[c])
  BY DEF CommandInv, Allowed, Authorized
<1> QED
  BY <1>1 DEF MayCapture

\* A step of one client that appends and submits nothing.
LEMMA QuietCommand ==
  ASSUME AppendInv, CommandInv, NEW c \in Client,
         NEW where \in Phase, Goto(c, where), phase[c] # "idle" \/ where = "idle",
         NEW what \in Result, result' = [result EXCEPT ![c] = what],
         UNCHANGED <<events, sent, expected, seen, stored>>,
         torn' \in BOOLEAN, lock' \in Client \cup {None}, registry' \in Registries,
         crashes' \in 0 .. MaxCrashes, files' \in RoleFiles,
         \A d \in Client : files'[Target(d)] = UNTRUSTED => files[Target(d)] = UNTRUSTED,
         where \in Decided => \/ phase[c] \in Decided
                              \/ /\ Authorized(replay(Snapshot(c)), sent[c])
                                 /\ Projects(sent[c].command) => files[Target(c)] # UNTRUSTED,
         what = "rejected" /\ stored[c] # 0 => sent[c].command.type = "RebuildProjection",
         what = "drift" /\ stored[c] # 0 => Target(c) \in ByHand
  PROVE  CommandInv'
<1>1. /\ phase' \in [Client -> Phase] /\ phase'[c] = where
      /\ \A d \in Client : d # c => phase'[d] = phase[d]
      /\ result' \in [Client -> Result] /\ result'[c] = what
      /\ \A d \in Client : d # c => result'[d] = result[d]
  BY DEF AppendInv, Goto
<1>2. TypeOK'
  BY <1>1 DEF CommandInv, TypeOK, Registries, RoleFiles, Participants
<1>3. Grounded(events)'
  BY DEF CommandInv
<1>a. \A d \in Client : Snapshot(d)' = Snapshot(d) /\ Target(d)' = Target(d)
  BY DEF Snapshot, Target
<1>4. RefusedStoredNothing'
  BY <1>1, <1>a DEF CommandInv, RefusedStoredNothing
<1>5. ASSUME NEW d \in Client PROVE Allowed(d)'
  <2>3. phase'[d] # "idle" => expected[d] < MaxEvents
    BY <1>1 DEF CommandInv, Allowed
  <2>4. ASSUME phase'[d] \in Decided
        PROVE  /\ Authorized(replay(Snapshot(d)), sent[d])
               /\ Projects(sent[d].command) => files'[Target(d)] # UNTRUSTED \/ Target(d) \in ByHand
    <3>1. CASE phase[d] \in Decided
      BY <3>1 DEF CommandInv, Allowed
    <3>2. CASE phase[d] \notin Decided
      BY <1>1, <2>4, <3>2
    <3> QED
      BY <3>1, <3>2
  <2> QED
    BY <1>a, <2>3, <2>4 DEF Allowed
<1> QED
  BY <1>2, <1>3, <1>4, <1>5 DEF CommandInv

\* A command that is submitted is not decided yet.
LEMMA SubmitCommand ==
  ASSUME AppendInv, CommandInv, NEW c \in Client, NEW s \in Submissions,
         NEW v \in 0 .. MaxEvents - 1, Submit(c, s, v)
  PROVE  CommandInv'
<1>0. None \notin {"accepted", "duplicate", "rejected", "drift", "failed"} /\ MaxEvents \in Nat
  BY IntakeAssumption DEF IntakeAssumption
<1>1. PICK where \in {"idle", "decide"}, what \in Result :
        Goto(c, where) /\ result' = [result EXCEPT ![c] = what]
  BY RepeatFacts DEF Submit, Answer, Result
<1>2. /\ sent' = [sent EXCEPT ![c] = s] /\ expected' = [expected EXCEPT ![c] = v]
      /\ seen' = [seen EXCEPT ![c] = Len(events)] /\ stored' = [stored EXCEPT ![c] = 0]
      /\ UNCHANGED <<events, torn, lock, registry, files, crashes>>
  BY DEF Submit, disk
<1>3. /\ phase' \in [Client -> Phase] /\ phase'[c] = where
      /\ result' \in [Client -> Result] /\ stored'[c] = 0 /\ expected'[c] = v
      /\ \A d \in Client : d # c => /\ phase'[d] = phase[d] /\ result'[d] = result[d]
                                    /\ sent'[d] = sent[d] /\ expected'[d] = expected[d]
                                    /\ seen'[d] = seen[d] /\ stored'[d] = stored[d]
  BY <1>1, <1>2 DEF AppendInv, Goto, Phase
<1>4. TypeOK'
  <2>1. Len(events) \in 0 .. MaxEvents /\ v \in 0 .. MaxEvents /\ 0 \in 0 .. MaxEvents
    BY <1>0, LenProperties DEF CommandInv, TypeOK
  <2> QED
    BY <1>2, <1>3, <2>1 DEF CommandInv, TypeOK
<1>a. \A d \in Client : d # c => Snapshot(d)' = Snapshot(d) /\ Target(d)' = Target(d)
  BY <1>2, <1>3 DEF Snapshot, Target
<1>5. Grounded(events)' /\ RefusedStoredNothing'
  BY <1>2, <1>3, <1>a DEF CommandInv, RefusedStoredNothing
<1>6. ASSUME NEW d \in Client PROVE Allowed(d)'
  <2>1. CASE d = c
    BY <1>0, <1>3, <2>1 DEF Allowed, Decided
  <2>2. CASE d # c
    BY <1>2, <1>3, <1>a, <2>2 DEF CommandInv, Allowed
  <2> QED
    BY <2>1, <2>2
<1> QED
  BY <1>4, <1>5, <1>6 DEF CommandInv

\* The event that is stored changes nobody the stream does not know.
LEMMA EndWriteCommand ==
  ASSUME AppendInv, CommandInv, NEW c \in Client, EndWrite(c) PROVE CommandInv'
<1>1. /\ phase[c] = "write" /\ events' = Append(events, sent[c]) /\ torn' = FALSE
      /\ stored' = [stored EXCEPT ![c] = Len(events')] /\ Goto(c, "unlock")
      /\ UNCHANGED <<lock, registry, files, sent, expected, seen, result, crashes>>
  BY DEF EndWrite
<1>2. /\ events \in Seq(Event) /\ Len(events) \in Nat /\ MaxEvents \in Nat
      /\ expected[c] = Len(events) /\ expected[c] < MaxEvents
  BY <1>1, LenProperties, IntakeAssumption DEF AppendInv, CommandInv, Allowed, IntakeAssumption
<1>3. /\ sent[c] \in Event
      /\ Changes(sent[c]) => sent[c].command.id \in Registered(Snapshot(c))
  BY <1>1, UpdatedReplays DEF Decided
<1>4. events' \in Seq(Event) /\ Len(events') = Len(events) + 1 /\ Len(events') \in 1 .. MaxEvents
  BY <1>1, <1>2, <1>3, StreamGrows
<1>5. Grounded(events')
  <2>1. Registered(Snapshot(c)) \subseteq Registered(events)
    <3>1. /\ Len(Snapshot(c)) = seen[c] /\ seen[c] \in 0 .. Len(events)
          /\ \A v \in 1 .. seen[c] : Snapshot(c)[v] = events[v]
      BY SnapshotReplays
    <3>2. \A v \in 1 .. seen[c] : v \in 1 .. Len(events)
      BY <1>2, <3>1
    <3> QED
      BY <3>1, <3>2 DEF Registered
  <2> QED
    BY <1>1, <1>2, <1>3, <2>1, GroundedGrows DEF CommandInv
<1>6. /\ phase' \in [Client -> Phase] /\ phase'[c] = "unlock"
      /\ stored' \in [Client -> 0 .. MaxEvents]
      /\ \A d \in Client : d # c => phase'[d] = phase[d] /\ stored'[d] = stored[d]
  BY <1>1, <1>4 DEF CommandInv, TypeOK, Goto, Phase
<1>7. TypeOK'
  <2>1. Len(events') <= MaxEvents
    BY <1>2, <1>4
  <2>2. torn' \in BOOLEAN
    BY <1>1
  <2>3. /\ lock' \in Client \cup {None} /\ crashes' \in 0 .. MaxCrashes
        /\ registry' \in Registries /\ files' \in RoleFiles
    BY <1>1 DEF CommandInv, TypeOK, Registries, RoleFiles, Participants
  <2>4. /\ sent' \in [Client -> Submissions \cup {None}] /\ expected' \in [Client -> 0 .. MaxEvents]
        /\ seen' \in [Client -> 0 .. MaxEvents] /\ result' \in [Client -> Result]
    BY <1>1 DEF CommandInv, TypeOK
  <2> QED
    BY <1>4, <1>6, <2>1, <2>2, <2>3, <2>4 DEF TypeOK, Registries, RoleFiles, Participants
<1>a. ASSUME NEW d \in Client PROVE Snapshot(d)' = Snapshot(d) /\ Target(d)' = Target(d)
  <2>1. seen[d] \in 0 .. Len(events)
    BY SnapshotReplays
  <2>2. Snapshot(d)' = Snapshot(d)
    BY <1>1, <1>2, <1>3, <2>1, SnapshotStays DEF Snapshot
  <2> QED
    BY <1>1, <2>2 DEF Target
<1>8. RefusedStoredNothing'
  <2>1. result[c] \notin {"rejected", "drift"}
    BY <1>1, IntakeAssumption DEF AppendInv, IntakeAssumption
  <2> QED
    BY <1>1, <1>6, <1>a, <2>1 DEF CommandInv, RefusedStoredNothing
<1>9. ASSUME NEW d \in Client PROVE Allowed(d)'
  <2>4. (phase'[d] # "idle" => phase[d] # "idle") /\ (phase'[d] \in Decided => phase[d] \in Decided)
    BY <1>1, <1>6 DEF Decided
  <2> QED
    BY <1>1, <1>a, <2>4 DEF CommandInv, Allowed
<1> QED
  BY <1>5, <1>7, <1>8, <1>9 DEF CommandInv

\* The registry that is written is one.
LEMMA PublishRegistryCommand ==
  ASSUME AppendInv, CommandInv, NEW c \in Client, PublishRegistry(c) PROVE CommandInv'
<1>1. /\ phase[c] = "publish" /\ Goto(c, "idle") /\ result' = [result EXCEPT ![c] = "accepted"]
      /\ registry' = [version |-> stored[c], participants |-> replay(Updated(c))]
      /\ UNCHANGED <<events, torn, lock, files, sent, expected, seen, stored, crashes>>
  BY DEF PublishRegistry, Answer, call
<1>2. replay(Updated(c)) \in Participants
  BY <1>1, UpdatedReplays DEF Decided
<1>3. registry' \in Registries
  BY <1>1, <1>2 DEF Registries, CommandInv, TypeOK
<1>4. files' \in RoleFiles /\ torn' \in BOOLEAN /\ lock' \in Client \cup {None} /\ crashes' \in 0 .. MaxCrashes
  BY <1>1 DEF CommandInv, TypeOK, RoleFiles
<1> QED
  BY <1>1, <1>3, <1>4, QuietCommand DEF Phase, Result, Decided

\* Only the projection of a rebuild is refused for its ticket, as the author of a
\* message is on it, and only a file that somebody wrote is not its own.
LEMMA CheckProjectionCommand ==
  ASSUME AppendInv, CommandInv, NEW c \in Client, CheckProjection(c) PROVE CommandInv'
<1> DEFINE cmd == sent[c].command
<1>1. /\ phase[c] = "publish" /\ phase[c] \in Decided /\ Projects(cmd)
      /\ UNCHANGED <<events, torn, lock, registry, files, sent, expected, seen, stored, crashes>>
  BY DEF CheckProjection, Decided, disk, call
<1>2. registry' \in Registries /\ files' \in RoleFiles /\ torn' \in BOOLEAN
      /\ lock' \in Client \cup {None} /\ crashes' \in 0 .. MaxCrashes
  BY <1>1 DEF CommandInv, TypeOK, Registries, RoleFiles, Participants
<1>3. cmd.type = "CaptureMessage" => cmd.ticket \in replay(Updated(c))[cmd.id].tickets
  <2> SUFFICES ASSUME cmd.type = "CaptureMessage"
               PROVE  cmd.ticket \in replay(Updated(c))[cmd.id].tickets
    OBVIOUS
  <2>1. replay(Updated(c)) = replay(Snapshot(c))
    BY <1>1, UpdatedReplays DEF applyEvent
  <2> QED
    BY <1>1, <2>1, CaptureIsAllowed
<1>4. files[Target(c)] = UNTRUSTED => Target(c) \in ByHand
  BY <1>1 DEF CommandInv, Allowed
<1>5. cmd.type # "CaptureMessage" => cmd.type = "RebuildProjection"
  BY <1>1 DEF Projects
<1> HIDE DEF cmd
<1>6. CASE Goto(c, "replace") /\ UNCHANGED result
  <2>1. result = [result EXCEPT ![c] = result[c]] /\ result[c] \in Result
        /\ (result[c] = "rejected" /\ stored[c] # 0 => sent[c].command.type = "RebuildProjection")
        /\ (result[c] = "drift" /\ stored[c] # 0 => Target(c) \in ByHand)
    BY DEF AppendInv, CommandInv, RefusedStoredNothing
  <2> QED
    BY <1>1, <1>2, <1>6, <2>1, QuietCommand DEF Phase
<1>7. CASE cmd.ticket \notin replay(Updated(c))[cmd.id].tickets /\ Answer(c, "rejected")
  <2>1. sent[c].command.type = "RebuildProjection"
    BY <1>3, <1>5, <1>7 DEF cmd
  <2> QED
    BY <1>1, <1>2, <1>7, <2>1, QuietCommand DEF Answer, Phase, Result
<1>8. CASE files[Target(c)] = UNTRUSTED /\ Answer(c, "drift")
  BY <1>1, <1>2, <1>4, <1>8, QuietCommand DEF Answer, Phase, Result
<1> QED
  BY <1>6, <1>7, <1>8 DEF CheckProjection, cmd

\* A projection shows versions of the stream.
LEMMA ReplaceProjectionCommand ==
  ASSUME AppendInv, CommandInv, NEW c \in Client, ReplaceProjection(c) PROVE CommandInv'
<1>1. /\ phase[c] = "replace" /\ Goto(c, "idle") /\ result' = [result EXCEPT ![c] = "accepted"]
      /\ files' = [files EXCEPT ![Target(c)] = Shown(c)]
      /\ UNCHANGED <<events, torn, lock, registry, sent, expected, seen, stored, crashes>>
  BY DEF ReplaceProjection, Answer, call
<1>2. Shown(c) \in SUBSET (1 .. MaxEvents)
  <2>1. messages(Snapshot(c), sent[c].command.id, sent[c].command.ticket) \subseteq 1 .. MaxEvents
    <3>1. DOMAIN Snapshot(c) = 1 .. seen[c] /\ seen[c] \in 0 .. MaxEvents
      BY SnapshotReplays, LenProperties DEF CommandInv, TypeOK
    <3>2. 1 .. seen[c] \subseteq 1 .. MaxEvents
      BY <3>1, IntakeAssumption DEF IntakeAssumption
    <3> QED
      BY <3>1, <3>2 DEF messages
  <2>2. stored[c] \in 1 .. MaxEvents
    BY <1>1 DEF AppendInv, CommandInv, TypeOK
  <2> QED
    BY <2>1, <2>2 DEF Shown
<1>3. UNTRUSTED \notin SUBSET (1 .. MaxEvents)
  BY DEF UNTRUSTED
<1>4. files \in RoleFiles
  BY DEF CommandInv, TypeOK, RoleFiles
<1>5. files' \in RoleFiles
  BY <1>1, <1>2, <1>4 DEF RoleFiles
<1>6. \A f : files'[f] = UNTRUSTED => files[f] = UNTRUSTED
  BY <1>1, <1>2, <1>3, <1>4 DEF RoleFiles
<1>7. registry' \in Registries /\ torn' \in BOOLEAN /\ lock' \in Client \cup {None} /\ crashes' \in 0 .. MaxCrashes
  BY <1>1 DEF CommandInv, TypeOK, Registries, Participants
<1> QED
  BY <1>1, <1>5, <1>6, <1>7, QuietCommand DEF Phase, Result, Decided

\* What somebody puts in the place of a role file is not trusted.
LEMMA WriteByHandCommand == ASSUME AppendInv, CommandInv, WriteByHand PROVE CommandInv'
<1>1. PICK f \in ByHand : files' = [files EXCEPT ![f] = UNTRUSTED]
  BY DEF WriteByHand
<1>2. UNCHANGED <<events, torn, lock, registry, phase, sent, expected, seen, stored, result, crashes>>
  BY DEF WriteByHand, call
<1>3. files \in RoleFiles /\ files' \in RoleFiles
  BY <1>1 DEF CommandInv, TypeOK, RoleFiles
<1>4. TypeOK'
  BY <1>2, <1>3 DEF CommandInv, TypeOK, RoleFiles
<1>5. \A d \in Client : Snapshot(d)' = Snapshot(d) /\ Target(d)' = Target(d)
  BY <1>2 DEF Snapshot, Target
<1>6. \A g : g # f => files'[g] = files[g]
  BY <1>1, <1>3 DEF RoleFiles
<1>7. \A d \in Client : Allowed(d)'
  BY <1>2, <1>5, <1>6 DEF CommandInv, Allowed
<1> QED
  BY <1>2, <1>4, <1>5, <1>7 DEF CommandInv, RefusedStoredNothing

\* Every step, failure and crash preserves the invariant of the commands.
LEMMA CommandStep == ASSUME AppendInv, CommandInv, [Next]_vars PROVE CommandInv'
<1> USE DEF Phase, Result
<1>a. ASSUME NEW c \in Client
      PROVE  /\ result = [result EXCEPT ![c] = result[c]] /\ result[c] \in Result
             /\ result[c] = "rejected" /\ stored[c] # 0 => sent[c].command.type = "RebuildProjection"
             /\ result[c] = "drift" /\ stored[c] # 0 => Target(c) \in ByHand
             /\ phase[c] \in {"decide", "append", "locked", "write"} => stored[c] = 0
  BY DEF AppendInv, CommandInv, RefusedStoredNothing
<1>b. /\ torn \in BOOLEAN /\ lock \in Client \cup {None} /\ registry \in Registries
      /\ crashes \in 0 .. MaxCrashes /\ files \in RoleFiles
      /\ None \notin {"accepted", "duplicate", "rejected", "drift", "failed"}
  BY IntakeAssumption DEF CommandInv, TypeOK, Registries, RoleFiles, Participants, IntakeAssumption
<1>1. ASSUME NEW c \in Client, NEW s \in Submissions, NEW v \in 0 .. MaxEvents - 1, Submit(c, s, v)
      PROVE  CommandInv'
  BY <1>1, SubmitCommand
<1>2. ASSUME NEW c \in Client, Step(c) PROVE CommandInv'
  <2>1. CASE Decide(c)
    <3>1. /\ UNCHANGED <<events, torn, lock, registry, files, sent, expected, seen, stored, crashes>>
          /\ phase[c] = "decide"
      BY <2>1 DEF Decide, disk, call
    <3>2. ASSUME Authorized(replay(Snapshot(c)), sent[c]), Writable(replay(Snapshot(c)), sent[c].command),
                 Goto(c, "append"), UNCHANGED result
          PROVE  CommandInv'
      <4>1. Projects(sent[c].command) => files[Target(c)] # UNTRUSTED
        BY <3>2 DEF Writable, Target
      <4> QED
        BY <1>a, <1>b, <3>1, <3>2, <4>1, QuietCommand
    <3>3. ASSUME NEW what \in {"rejected", "drift"}, Answer(c, what) PROVE CommandInv'
      BY <1>a, <1>b, <3>1, <3>3, QuietCommand DEF Answer, Decided
    <3> QED
      BY <2>1, <3>2, <3>3 DEF Decide
  <2>2. CASE OpenLock(c)
    <3>1. /\ UNCHANGED <<events, torn, registry, files, sent, expected, seen, stored, crashes>>
          /\ phase[c] = "append" /\ lock' \in Client \cup {None}
      BY <1>b, <2>2 DEF OpenLock, call
    <3>2. CASE Goto(c, "locked") /\ UNCHANGED result
      BY <1>a, <1>b, <3>1, <3>2, QuietCommand DEF Decided
    <3>3. CASE Answer(c, "rejected")
      BY <1>a, <1>b, <3>1, <3>3, QuietCommand DEF Answer, Decided
    <3> QED
      BY <2>2, <3>2, <3>3 DEF OpenLock
  <2>3. CASE AppendNothing(c)
    <3>1. /\ UNCHANGED <<events, torn, lock, registry, files, sent, expected, seen, stored, crashes>>
          /\ phase[c] = "locked" /\ Goto(c, "unlock") /\ stored[c] = 0
      BY <1>a, <2>3 DEF AppendNothing, disk, call
    <3>2. PICK what \in Result : result' = [result EXCEPT ![c] = what]
      BY <2>3, RepeatFacts DEF AppendNothing
    <3> QED
      BY <1>b, <3>1, <3>2, QuietCommand DEF Decided
  <2>4. CASE BeginWrite(c)
    <3>1. /\ UNCHANGED <<events, lock, registry, files, sent, expected, seen, stored, result, crashes>>
          /\ phase[c] = "locked" /\ Goto(c, "write") /\ torn' = TRUE
      BY <2>4 DEF BeginWrite, call
    <3> QED
      BY <1>a, <1>b, <3>1, QuietCommand DEF Decided
  <2>5. CASE EndWrite(c)
    BY <2>5, EndWriteCommand
  <2>6. CASE Unlock(c)
    <3>1. /\ UNCHANGED <<events, torn, registry, files, sent, expected, seen, stored, result, crashes>>
          /\ phase[c] = "unlock" /\ lock' = None
      BY <2>6 DEF Unlock, call
    <3>2. PICK where \in {"idle", "publish"} : Goto(c, where)
      BY <2>6 DEF Unlock
    <3> QED
      BY <1>a, <1>b, <3>1, <3>2, QuietCommand DEF Decided
  <2>7. CASE PublishRegistry(c)
    BY <2>7, PublishRegistryCommand
  <2>8. CASE CheckProjection(c)
    BY <2>8, CheckProjectionCommand
  <2>9. CASE ReplaceProjection(c)
    BY <2>9, ReplaceProjectionCommand
  <2>10. CASE PublishNothing(c)
    <3>1. /\ UNCHANGED <<events, torn, lock, registry, files, sent, expected, seen, stored, crashes>>
          /\ phase[c] = "publish" /\ Goto(c, "idle") /\ result' = [result EXCEPT ![c] = "accepted"]
      BY <2>10 DEF PublishNothing, Answer, disk, call
    <3> QED
      BY <1>b, <3>1, QuietCommand DEF Decided
  <2> QED
    BY <1>2, <2>1, <2>2, <2>3, <2>4, <2>5, <2>6, <2>7, <2>8, <2>9, <2>10 DEF Step
<1>3. ASSUME NEW c \in Client, Fail(c) PROVE CommandInv'
  <2>1. /\ UNCHANGED <<events, lock, registry, files, sent, expected, seen, stored, crashes>>
        /\ torn' \in BOOLEAN /\ result' = [result EXCEPT ![c] = "failed"]
    BY <1>3, <1>b DEF Fail, Answer, call
  <2>2. PICK where \in {"idle", "unlock"} :
          Goto(c, where) /\ (where = "unlock" => phase[c] \in {"locked", "write"})
    BY <1>3 DEF Fail, Answer
  <2> QED
    BY <1>b, <2>1, <2>2, QuietCommand DEF Decided
<1>4. ASSUME NEW c \in Client, Crash(c) PROVE CommandInv'
  <2>1. /\ UNCHANGED <<events, torn, lock, registry, files, sent, expected, seen, stored>>
        /\ phase[c] # "idle" /\ Goto(c, "idle") /\ result' = [result EXCEPT ![c] = None]
        /\ crashes' \in 0 .. MaxCrashes
    BY <1>4, <1>b, IntakeAssumption DEF Crash, disk, call, IntakeAssumption
  <2> QED
    BY <1>b, <2>1, QuietCommand DEF Decided
<1>5. CASE WriteByHand
  BY <1>5, WriteByHandCommand
<1>6. CASE UNCHANGED vars
  <2>1. \A d \in Client : Allowed(d)' = Allowed(d) /\ Target(d)' = Target(d)
    BY <1>6 DEF vars, Allowed, Target, Snapshot
  <2> QED
    BY <1>6, <2>1 DEF vars, CommandInv, TypeOK, RefusedStoredNothing
<1> QED
  BY <1>1, <1>2, <1>3, <1>4, <1>5, <1>6 DEF Next, Idle

\* The invariant of the commands holds for all clients, honest about versions or
\* not.
LEMMA CommandAlways == Spec => []CommandInv
BY AppendAlways, CommandInit, CommandStep, PTL DEF Spec

\* Every variable keeps its type: no stream makes replay change a participant it
\* does not know (requireParticipant), nor grows beyond its bound.
THEOREM TypeCorrect == Spec => []TypeOK
<1>1. CommandInv => TypeOK
  BY DEF CommandInv
<1> QED
  BY <1>1, CommandAlways, PTL

\* Every event that changes a participant stands behind the one that registered
\* it: the stream can be replayed, even where clients name versions they have not
\* seen and an event was not allowed by its predecessors.
THEOREM StreamReplays == Spec => [](Grounded(events) /\ Replayed(events))
<1>1. AppendInv /\ CommandInv => Grounded(events) /\ Replayed(events)
  BY GroundedReplays DEF AppendInv, CommandInv
<1> QED
  BY <1>1, AppendAlways, CommandAlways, PTL

\* Whatever versions clients name and whatever fails, a refusal that is no storage
\* failure means that nothing was stored, but for a rebuild whose ticket
\* writeProjection refuses and a role file that somebody wrote in the meantime.
THEOREM RefusalsStoreNothing == Spec => []RefusedStoredNothing
<1>1. CommandInv => RefusedStoredNothing
  BY DEF CommandInv
<1> QED
  BY <1>1, CommandAlways, PTL
=============================================================================

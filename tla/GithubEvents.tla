---------------------------- MODULE GithubEvents ----------------------------
(***************************************************************************)
(* The adapter that turns one payload of GitHub into an event log          *)
(* (scripts/github-event-log.mjs): what it takes as a fact of a push, of a *)
(* pull request, of a review and of a workflow run, and what it refuses.   *)
(*                                                                         *)
(* A missing field is None.  A hash is a number, Zeros the one of nothing, *)
(* and BadSha one that is none; a time is a number, which stands for its   *)
(* order as text (that of the instants only where all have one offset),    *)
(* and BadTime one that is no time.  BadName has control characters.       *)
(* Words a field may have are strings.  The author of a commit stands for  *)
(* the username of its author, the committer for name or else username of  *)
(* its committer: the name of an author is not read.  The id of an event   *)
(* is the correlation, a tag and what tells it from others of the tag.     *)
(***************************************************************************)
EXTENDS Integers, Sequences, FiniteSets, SequencesExt

None == 0
Zeros == -1
BadSha == -2
BadTime == -1
BadName == -1
Adapter == 1

\* asSha: the hash it returns, or none when it throws.
asSha(value, allowNull) ==
  IF value = None \/ (allowNull /\ value = Zeros) THEN {n \in {None} : allowNull} ELSE {value} \ {BadSha}
asTimestamp(value, allowNull) == IF value = None THEN IF allowNull THEN {None} ELSE {} ELSE {value} \ {BadTime}

\* The first there is of some values; pickTimestamp also passes over bad ones.
First(values, skipped) ==
  LET there == SelectSeq(values, LAMBDA v : v \notin skipped) IN IF there = <<>> THEN None ELSE Head(there)
pickActor(candidates) == First(candidates \o <<Adapter>>, {None})
asActor(candidates) == {pickActor(candidates)} \ {BadName}
pickTimestamp(candidates) == First(candidates, {None, BadTime})

\* pickRepository: what the caller names goes before what the payload says.
pickRepository(payload, override) ==
  {r \in {First(<<override, payload.repository>>, {None})} : r # None}

-----------------------------------------------------------------------------
Event(context, tag, key, type, outcome, actor, at, base, head) ==
  [eventId |-> <<context.correlation, tag, key>>, actorId |-> actor, type |-> type, outcome |-> outcome,
   trustClass |-> "SYSTEM_FACT", source |-> "github-actions", occurredAt |-> at,
   recordedAt |-> context.recordedAt, repository |-> context.repository, ticket |-> context.ticket,
   baseSha |-> base, headSha |-> head]

\* All there is a value of for every one of these sets, or nothing.
Every(sets) == {} \notin Range(sets)
The(S) == CHOOSE x \in S : TRUE

\* createPushEvents: the push, the branch if it is gone, and every commit that is
\* an object.
CommitTime(commit, payload, context) == pickTimestamp(<<commit.at, payload.headAt, context.recordedAt>>)
createPushEvents(payload, context) ==
  LET before == asSha(payload.before, TRUE)
      after == asSha(payload.after, TRUE)
      actor == asActor(<<payload.pusher, payload.sender>>)
      at == pickTimestamp(<<payload.headAt, payload.pushedAt, context.recordedAt>>)
      commits == SelectSeq(payload.commits, LAMBDA c : c.object)
      shas == [n \in DOMAIN commits |-> asSha(commits[n].id, FALSE)]
      authors == [n \in DOMAIN commits |-> asActor(<<commits[n].author, commits[n].committer, payload.sender>>)]
      push == Event(context, "push", None, "git.push.received", "CREATED", The(actor), at, The(before),
                    IF payload.deleted THEN None ELSE The(after))
      gone == Event(context, "branch", None, "branch.deleted", "DELETED", The(actor), at, The(before), None)
      commit(n) == Event(context, "commit", The(shas[n]), "git.commit.created", "CREATED", The(authors[n]),
                         CommitTime(commits[n], payload, context), None, The(shas[n]))
  IN IF payload.ref # None /\ Every(<<before, after, actor>> \o shas \o authors)
     THEN {<<push>> \o (IF payload.deleted THEN <<gone>> ELSE <<>>) \o [n \in DOMAIN shas |-> commit(n)]} ELSE {}

\* What an action on a pull request is, and when it was.
PullRequestTimes(payload) ==
  CASE payload.action = "opened" -> <<payload.createdAt>>
    [] payload.action = "synchronize" -> <<payload.updatedAt>>
    [] payload.action = "closed" -> <<payload.mergedAt, payload.updatedAt, payload.createdAt>>

\* As if a pull request that is closed were merged.
PullRequestFact_Closed(payload) ==
  CASE payload.action = "opened" -> <<"pull_request.opened", "CREATED">>
    [] payload.action = "synchronize" -> <<"pull_request.synchronized", "UPDATED">>
    [] payload.action = "closed" -> <<"pull_request.merged", "MERGED">>

PullRequestFact(payload) ==
  CASE payload.action = "opened" -> <<"pull_request.opened", "CREATED">>
    [] payload.action = "synchronize" -> <<"pull_request.synchronized", "UPDATED">>
    [] payload.action = "closed" ->
         IF payload.merged THEN <<"pull_request.merged", "MERGED">> ELSE <<"pull_request.closed", "CLOSED">>
createPullRequestEvents(payload, context) ==
  LET base == asSha(payload.base, TRUE)
      head == asSha(payload.head, TRUE)
      actor == asActor(<<payload.mergedBy, payload.sender>>)
      times == <<asTimestamp(payload.createdAt, FALSE), asTimestamp(payload.updatedAt, TRUE), asTimestamp(payload.mergedAt, TRUE)>>
      at == First(PullRequestTimes(payload), {None})
  IN IF /\ payload.action \in {"opened", "synchronize", "closed"} /\ payload.number # None
        /\ Every(<<base, head, actor>> \o times) /\ at # None
     THEN {<<Event(context, payload.action, None, PullRequestFact(payload)[1], PullRequestFact(payload)[2],
                   The(actor), at, The(base), The(head))>>} ELSE {}

ReviewOutcomes ==
  {<<"approved", "APPROVED">>, <<"changes_requested", "CHANGES_REQUESTED">>, <<"commented", "UPDATED">>, <<"dismissed", "UPDATED">>}
createPullRequestReviewEvents(payload, context) ==
  LET base == asSha(payload.base, TRUE)
      head == asSha(payload.head, TRUE)
      actor == asActor(<<payload.reviewer, payload.sender>>)
      at == asTimestamp(First(<<payload.submittedAt, payload.updatedAt, context.recordedAt>>, {None}), FALSE)
  IN {<<Event(context, "review", First(<<payload.review, payload.number>>, {None}), "pull_request.reviewed", o[2],
              The(actor), The(at), The(base), The(head))>> :
        o \in {r \in ReviewOutcomes : /\ payload.action = "submitted" /\ payload.number # None /\ payload.state = r[1]
                                      /\ Every(<<base, head, actor, at>>)}}

RunOutcomes ==
  {<<"success", "PASSED">>, <<"neutral", "DEGRADED">>, <<"failure", "FAILED">>, <<"cancelled", "SKIPPED">>,
   <<"skipped", "SKIPPED">>, <<"timed_out", "FAILED">>, <<"startup_failure", "FAILED">>,
   <<"action_required", "BLOCKED">>, <<"stale", "BLOCKED">>}
createWorkflowRunEvents(payload, context) ==
  LET at == asTimestamp(First(<<payload.updatedAt, payload.createdAt>>, {None}), FALSE)
      head == asSha(payload.head, TRUE)
      actor == asActor(<<payload.actor, payload.sender>>)
  IN {<<Event(context, "check", payload.run, "check.completed", o[2], The(actor), The(at), None, The(head))>> :
        o \in {r \in RunOutcomes : /\ payload.action = "completed" /\ payload.run # None /\ payload.conclusion = r[1]
                                   /\ Every(<<at, head, actor>>)}}

toEventSet(eventName, payload, context) ==
  CASE eventName = "push" -> createPushEvents(payload, context)
    [] eventName = "pull_request" -> createPullRequestEvents(payload, context)
    [] eventName = "pull_request_review" -> createPullRequestReviewEvents(payload, context)
    [] eventName = "workflow_run" -> createWorkflowRunEvents(payload, context)
    [] OTHER -> {}

-----------------------------------------------------------------------------
\* main: who and when, then the events, then a log of them where there is none.
Contexts(payload, options) ==
  LET at == asTimestamp(First(<<options.recordedAt>> \o payload.times, {None}), FALSE)
      correlation == First(<<options.correlation>> \o payload.ids, {None})
  IN {[repository |-> r, ticket |-> options.ticket, recordedAt |-> t, correlation |-> correlation] :
        r \in {x \in pickRepository(payload, options.repository) : correlation # None}, t \in at}
\* createEventLog refuses two events of one id.
Accepted(events) == \A m, n \in DOMAIN events : events[m].eventId = events[n].eventId => m = n
Latest(events) == CHOOSE t \in {e.occurredAt : e \in Range(events)} : \A e \in Range(events) : e.occurredAt <= t
main(eventName, payload, options) ==
  UNION {{[generatedAt |-> Latest(events), events |-> events] :
            events \in {s \in toEventSet(eventName, payload, context) : Accepted(s) /\ ~options.outputExists}} :
         context \in Contexts(payload, options)}

-----------------------------------------------------------------------------
EventOf(events, type) == {e \in Range(events) : e.type = type}

(***************************************************************************)
(* What is logged is what GitHub said (main and the builders under it): no *)
(* log says that a change passed, was merged or approved unless the        *)
(* payload says so; a push has every commit of it that is an object once,  *)
(* and no head where the branch is gone, which only then is said; a commit *)
(* is laid to the account of its author, and where only a name is known of *)
(* the author, to its committer; the events of a log are of the repository *)
(* that was named, at times that are times; the log is dated by the one of *)
(* them that comes last as text; and a log that is there is kept.          *)
(***************************************************************************)
FactsComeFromThePayload(eventName, payload, options) ==
  \A doc \in main(eventName, payload, options) :
    LET es == Range(doc.events)
        With(outcome) == \E e \in es : e.outcome = outcome
        commits == {c \in Range(payload.commits) : c.object}
    IN /\ ~options.outputExists
       /\ With("PASSED") => eventName = "workflow_run" /\ payload.conclusion = "success"
       /\ With("MERGED") => eventName = "pull_request" /\ payload.action = "closed" /\ payload.merged
       /\ With("APPROVED") => eventName = "pull_request_review" /\ payload.state = "approved"
       /\ With("DELETED") => eventName = "push" /\ payload.deleted
       /\ eventName = "push" =>
            /\ {<<e.headSha>> : e \in EventOf(doc.events, "git.commit.created")} = {<<c.id>> : c \in commits}
            /\ Cardinality(EventOf(doc.events, "git.commit.created")) = Cardinality({n \in DOMAIN payload.commits : payload.commits[n].object})
            /\ \A e \in EventOf(doc.events, "git.push.received") : payload.deleted => e.headSha = None
            /\ \A c \in commits : c.author # None \/ c.committer # None =>
                 \E e \in EventOf(doc.events, "git.commit.created") :
                   e.headSha = c.id /\ e.actorId = IF c.author # None THEN c.author ELSE c.committer
       /\ eventName = "pull_request_review" /\ payload.reviewer # None => \A e \in es : e.actorId = payload.reviewer
       /\ BadName \notin {e.actorId : e \in es}
       /\ \A e \in es :
            /\ e.repository = IF options.repository # None THEN options.repository ELSE payload.repository
            /\ {e.baseSha, e.headSha} \cap {BadSha} = {}
            /\ e.occurredAt \notin {None, BadTime} /\ e.occurredAt <= doc.generatedAt
       /\ \E e \in es : e.occurredAt = doc.generatedAt
=============================================================================

----------------------- MODULE CommunicationAnalysis -----------------------
(***************************************************************************)
(* What is said about what was said (communication/analyzer.ts), and what  *)
(* a model may add to it (communication/llm.ts and its helpers).           *)
(*                                                                         *)
(* A graph has records, each a message ("agent_log"), a commit ("git") or  *)
(* a tested or declared fact ("test", "symbol"), and relations, pairs of   *)
(* ids.  The words of a record are without its ticket; the text that the   *)
(* code matches with patterns is two flags, decisionClaim (a human is said *)
(* to have approved) and implementationVerb.  The analysis ids are its     *)
(* contents, so issues are a set.                                          *)
(***************************************************************************)
EXTENDS Integers, Sequences, FiniteSets, SequencesExt

Talk(graph) == {r \in graph.records : r.source = "agent_log"}
On(records, ticket) == {r \in records : r.ticket = ticket}
OfRole(records, role) == {r \in records : r.role = role}
participantsForRole(records, ticket, role) == {r.participant : r \in OfRole(On(records, ticket), role)}

\* similarity in hundredths of what both say.
Similar(r, s, hundredths) ==
  LET common == Cardinality(r.words \cap s.words) IN
  common > 0 /\ 100 * common >= hundredths * Cardinality(r.words \cup s.words)
HasTarget(r) == r.paths # {} \/ r.symbols # {}
semanticMatch(r, s) == r.paths \cap s.paths # {} \/ r.symbols \cap s.symbols # {} \/ Similar(r, s, 20)
conflictSemanticMatch(r, s) ==
  \/ r.paths \cap s.paths # {}
  \/ {} \in {r.paths, s.paths} /\ r.symbols \cap s.symbols # {}
  \/ ~(HasTarget(r) /\ HasTarget(s)) /\ Similar(r, s, 45)

aggregateTopicMatch(request, records) ==
  LET shared == request.topics \cap UNION {r.topics : r \in records} IN
  \/ Cardinality(shared) >= 2
  \/ Cardinality(shared) = 1 /\ \E r \in records : r.action # "unknown" /\ r.action = request.action

-----------------------------------------------------------------------------
\* issue: who has to answer it, or that no one is known to.
explicitResponseRoute(participants) == IF participants = {} THEN {"unresolved"} ELSE participants
issue(code, severity, records, role, from) ==
  [code |-> code, severity |-> severity, ticket |-> (CHOOSE r \in records : TRUE).ticket,
   participants |-> {r.participant : r \in records}, records |-> {r.id : r \in records},
   role |-> role, from |-> explicitResponseRoute(from)]

IsUnresolved(r) == r.role = "unknown" \/ ~r.resolved
IdentityIssues(talk) ==
  {issue("PARTICIPANT_IDENTITY_UNRESOLVED", "review_required", {r}, "unknown", {r.participant}) :
     r \in {s \in talk : IsUnresolved(s)}}

InConflict(r, s) ==
  /\ r.participant # s.participant /\ r.ticket = s.ticket /\ r.polarity # s.polarity
  /\ conflictSemanticMatch(r, s) /\ "unknown" \notin {r.role, s.role}
ConflictIssue(talk, pair) ==
  LET roles == {r.role : r \in pair}
      ticket == (CHOOSE r \in pair : TRUE).ticket
  IN issue(IF roles = {"human"} THEN "HUMAN_COMMUNICATION_CONFLICT"
           ELSE IF roles = {"agent"} THEN "AGENT_COMMUNICATION_CONFLICT" ELSE "HUMAN_AGENT_CONFLICT",
           "blocking", pair, "human",
           IF roles = {"agent"} THEN participantsForRole(talk, ticket, "human")
           ELSE {r.participant : r \in OfRole(pair, "human")})
ConflictIssues(talk) == {ConflictIssue(talk, {p[1], p[2]}) : p \in {q \in talk \X talk : InConflict(q[1], q[2])}}

-----------------------------------------------------------------------------
\* A request is answered by a message that is about it, or by all an agent says in
\* one file together.
humanRequests(talk) == {r \in OfRole(talk, "human") : r.type \in {"request", "message"}}
SameSource(records, r) == {s \in records : s.participant = r.participant /\ s.file = r.file}
agentResponseCoversRequest(request, agents) ==
  LET candidates == On(agents, request.ticket) IN
  \E r \in candidates : semanticMatch(r, request) \/ aggregateTopicMatch(request, SameSource(candidates, r))

\* Work is covered by a request it is about, a plan by a broad request that its
\* file is about, and other work by a plan of the same agent that is covered.
isBroadRequest(r) == ~HasTarget(r)
PlanIsCovered(plan, requests, agents) ==
  LET sources == SameSource(On(agents, plan.ticket), plan) IN
  \E q \in requests : \/ semanticMatch(q, plan)
                      \/ isBroadRequest(q) /\ ((\E r \in sources : semanticMatch(r, q)) \/ aggregateTopicMatch(q, sources))
\* As if a plan covered work of its own accord.
agentWorkCoveredByHumanScope_OwnPlan(work, talk) ==
  \/ \E q \in On(humanRequests(talk), work.ticket) : semanticMatch(q, work)
  \/ \E plan \in On(OfRole(talk, "agent"), work.ticket) :
       plan.type = "plan" /\ plan.participant = work.participant /\ semanticMatch(plan, work)

agentWorkCoveredByHumanScope(work, talk) ==
  LET requests == On(humanRequests(talk), work.ticket)
      agents == On(OfRole(talk, "agent"), work.ticket)
  IN IF work.type = "plan" THEN PlanIsCovered(work, requests, agents)
     ELSE \/ \E q \in requests : semanticMatch(q, work)
          \/ \E plan \in agents : /\ plan.type = "plan" /\ plan.participant = work.participant /\ semanticMatch(plan, work)
                                  /\ PlanIsCovered(plan, requests, agents)

Claims == {"report", "result", "claim"}
Work ==
  {"add", "analyze", "block", "configure", "document", "fix", "remove", "refactor", "test", "change", "validate"}
isActionableAgentWork(r) ==
  r.polarity = "positive" /\ (r.action \in Work \/ (r.type \in Claims /\ r.implementationVerb))
isPositiveImplementationClaim(r) ==
  r.polarity = "positive" /\ (isActionableAgentWork(r) \/ r.implementationVerb) /\ r.action \notin {"analyze", "block"}
isEvidenceRecord(r) == r.source \in {"git", "test", "symbol"}
evidenceNeighbors(graph, r) ==
  {s \in graph.records : /\ isEvidenceRecord(s) /\ semanticMatch(r, s)
                         /\ {<<r.id, s.id>>, <<s.id, r.id>>} \cap graph.relations # {}}
matchedGitRecords(graph, r) ==
  {s \in graph.records : /\ s.source = "git" /\ s.participant \in r.aliases \cup {r.participant}
                         /\ s.ticket = r.ticket \/ semanticMatch(s, r)}

RequestIssues(talk) ==
  {issue("REQUEST_WITHOUT_AGENT_RESPONSE", "warning", {q}, "agent", participantsForRole(talk, q.ticket, "agent")) :
     q \in {r \in humanRequests(talk) : ~agentResponseCoversRequest(r, OfRole(talk, "agent"))}}
DecisionIssues(talk) ==
  {issue("AGENT_HUMAN_DECISION_CLAIM_UNCONFIRMED", "review_required", {r}, "human", participantsForRole(talk, r.ticket, "human")) :
     r \in {s \in OfRole(talk, "agent") : s.type \in Claims /\ s.decisionClaim}}
EvidenceIssues(graph) ==
  {issue("AGENT_CLAIM_WITHOUT_EVIDENCE", "review_required", {r}, "agent", {r.participant}) :
     r \in {s \in OfRole(Talk(graph), "agent") :
              /\ s.type \in Claims /\ ~s.decisionClaim /\ isPositiveImplementationClaim(s)
              /\ matchedGitRecords(graph, s) = {} /\ evidenceNeighbors(graph, s) = {}}}
WorkIssues(talk) ==
  {issue("AGENT_WORK_OUTSIDE_REQUEST", "warning", {r}, "human", participantsForRole(talk, r.ticket, "human")) :
     r \in {s \in OfRole(talk, "agent") :
              /\ s.type \in Claims \cup {"plan"} /\ ~s.decisionClaim /\ isActionableAgentWork(s)
              /\ ~agentWorkCoveredByHumanScope(s, talk)}}
analyzeCommunication(graph) ==
  LET talk == Talk(graph) IN
  IdentityIssues(talk) \cup ConflictIssues(talk) \cup RequestIssues(talk) \cup DecisionIssues(talk)
    \cup EvidenceIssues(graph) \cup WorkIssues(talk)

\* addCommunicationIssuesToDiagnostics.
IsSerious(d) == d.severity \in {"blocking", "review_required"}
addCommunicationIssuesToDiagnostics(report, issues) ==
  LET combined == report \cup issues IN
  {d \in combined : ~((\E s \in combined : IsSerious(s)) /\ d.code = "ALIGNED")}

-----------------------------------------------------------------------------
\* participantGroups: who says something, in one role.
Group(r) == <<r.participant, r.role>>
participantGroups(records) == {Group(r) : r \in records}
InGroup(records, group) == {r.id : r \in {s \in records : Group(s) = group}}

Enriched == 100
enrichRecord(r, enrichment) ==
  [r EXCEPT !.id = @ + Enriched, !.action = enrichment.action, !.polarity = enrichment.polarity, !.paths = @ \cup enrichment.paths]
validateEnrichments(values, records) ==
  /\ {values[n].recordId : n \in DOMAIN values} = {r.id : r \in records}
  /\ Len(values) = Cardinality(records)
GroundedSyntheses(values, records) ==
  /\ {values[n].group : n \in DOMAIN values} = participantGroups(records)
  /\ Len(values) = Cardinality(participantGroups(records))
  /\ \A n \in DOMAIN values : values[n].recordIds # {} /\ values[n].recordIds \subseteq InGroup(records, values[n].group)
synthesis(records, group, recordIds) ==
  [participant |-> group[1], role |-> group[2], recordIds |-> recordIds,
   tickets |-> {r.ticket : r \in {s \in records : Group(s) = group}}]
deterministicSyntheses(records) == {synthesis(records, g, InGroup(records, g)) : g \in participantGroups(records)}

IsAnswer(answer) == answer.kind = "answer"
\* As if it were enough that every record is enriched.
Grounded_Enrichments(answer, records) == IsAnswer(answer) /\ validateEnrichments(answer.enrichments, records)

Grounded(answer, records) ==
  IsAnswer(answer) /\ validateEnrichments(answer.enrichments, records) /\ GroundedSyntheses(answer.syntheses, records)

Enrichment(answer, records) ==
  [status |-> "llm",
   records |-> {enrichRecord(r, CHOOSE e \in Range(answer.enrichments) : e.recordId = r.id) : r \in records},
   syntheses |-> {synthesis(records, s.group, {id + Enriched : id \in s.recordIds}) : s \in Range(answer.syntheses)}]
Deterministic(status, records) ==
  [status |-> status, records |-> records, syntheses |-> deterministicSyntheses(records)]

\* enrichWithCorrection: only an answer against the contract is asked for again.
enrichWithCorrection(answers) == IF answers[1].kind = "malformed" THEN 2 ELSE 1
extractCommunicationIntentAudited(records, mode, configured, answers) ==
  LET calls == IF records = {} \/ mode = "deterministic" \/ ~configured THEN 0 ELSE enrichWithCorrection(answers)
      result == IF records = {} THEN Deterministic("skipped", records)
                ELSE IF mode = "deterministic" THEN Deterministic("deterministic", records)
                ELSE IF calls > 0 /\ Grounded(answers[calls], records) THEN Enrichment(answers[calls], records)
                ELSE IF mode = "require-llm" THEN Deterministic("thrown", {})
                ELSE Deterministic("fallback", records)
  IN [calls |-> calls, result |-> result]

\* validateSyntheses: what the analysis takes from the enrichment.
validateSyntheses(syntheses, talk) ==
  \A s \in syntheses :
    /\ s.recordIds # {}
    /\ \A id \in s.recordIds : \E r \in talk :
         r.id = id /\ r.participant = s.participant /\ r.role = s.role /\ r.ticket \in s.tickets

-----------------------------------------------------------------------------
(***************************************************************************)
(* The analysis is fair to whom it names (analyzeCommunication): the one   *)
(* asked to answer has the role that is asked for and talks on that        *)
(* ticket, or no one does; what an agent is said to have been told to do   *)
(* was told, so where no request of a ticket is answered all work on it is *)
(* outside of them; no work that leans on a human's decision is also held  *)
(* against its scope or its evidence; a commit of the agent takes away its *)
(* unproved claims and nothing else; and no report that has a serious      *)
(* issue still says that all is aligned, or leaves anything else out.      *)
(***************************************************************************)
AnalysisIsFair(graph, commit) ==
  LET talk == Talk(graph)
      issues == analyzeCommunication(graph)
      later == analyzeCommunication([graph EXCEPT !.records = @ \cup {commit}])
      codes(id) == {i.code : i \in {j \in issues : id \in j.records}}
      report == {[code |-> "ALIGNED", severity |-> "info"], [code |-> "CONFLICTING_INTENT", severity |-> "blocking"]}
      merged(d) == addCommunicationIssuesToDiagnostics({d}, issues)
  IN /\ \A i \in issues : i.code # "PARTICIPANT_IDENTITY_UNRESOLVED" =>
          LET asked == participantsForRole(talk, i.ticket, i.role) IN
          IF i.from = {"unresolved"} THEN asked = {} ELSE i.from \subseteq asked
     /\ \A r \in OfRole(talk, "agent") :
          /\ (\A q \in On(humanRequests(talk), r.ticket) : "REQUEST_WITHOUT_AGENT_RESPONSE" \in codes(q.id))
               /\ r.type \in Claims \cup {"plan"} /\ ~r.decisionClaim /\ isActionableAgentWork(r)
               => "AGENT_WORK_OUTSIDE_REQUEST" \in codes(r.id)
          /\ "AGENT_HUMAN_DECISION_CLAIM_UNCONFIRMED" \in codes(r.id) =>
               codes(r.id) \cap {"AGENT_CLAIM_WITHOUT_EVIDENCE", "AGENT_WORK_OUTSIDE_REQUEST"} = {}
     /\ later \subseteq issues
     /\ \A i \in issues \ later : i.code = "AGENT_CLAIM_WITHOUT_EVIDENCE"
     /\ \A i \in later : i.code = "AGENT_CLAIM_WITHOUT_EVIDENCE" => commit.participant \notin i.participants \/ commit.ticket # i.ticket
     /\ \A d \in report :
          /\ {d} \cup issues = merged(d) \cup (IF d.code = "ALIGNED" THEN {d} ELSE {})
          /\ d.code = "ALIGNED" => (d \in merged(d) <=> \A i \in issues : ~IsSerious(i))

(***************************************************************************)
(* A model adds to the talk and takes nothing from it                      *)
(* (extractCommunicationIntentAudited): whatever it answers, every         *)
(* statement is there once, of the same participant, role, ticket, words   *)
(* and paths; every participant is summed up once, from statements of      *)
(* theirs, as the analysis then demands; what is refused leaves the        *)
(* statements as they were; and no more than two calls are made.           *)
(***************************************************************************)
EnrichmentKeepsTheTalk(records, mode, configured, answers) ==
  LET run == extractCommunicationIntentAudited(records, mode, configured, answers)
      r == run.result
      kept(s) == [s EXCEPT !.id = 0, !.action = "", !.polarity = "", !.paths = {}]
      ids(S) == {s.id % Enriched : s \in S}
      said == IF r.status = "thrown" THEN {} ELSE records
  IN /\ run.calls <= 2 /\ (run.calls > 0 => configured /\ mode # "deterministic")
     /\ Cardinality(r.records) = Cardinality(said) /\ ids(r.records) = ids(said)
     /\ r.status # "llm" => r.records = said
     /\ \A s \in r.records, t \in records : s.id % Enriched = t.id => kept(s) = kept(t) /\ t.paths \subseteq s.paths
     /\ validateSyntheses(r.syntheses, r.records)
     /\ {<<s.participant, s.role>> : s \in r.syntheses} = participantGroups(said)
     /\ Cardinality(r.syntheses) = Cardinality(participantGroups(said))
     /\ r.status = "thrown" => mode = "require-llm"
=============================================================================

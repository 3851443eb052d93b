--------------------------- MODULE TaskSynthesis ---------------------------
(***************************************************************************)
(* From a graph and its diagnostics to TODO proposals (synthesis/          *)
(* tasks-llm.ts with its payload, materialization and validation, and the  *)
(* contracts of core/schema-validation.ts they must meet).                 *)
(*                                                                         *)
(* The ids of records, diagnostics and proposals are numbers, in their     *)
(* order as text; a proposal's stands for its words and target, which it   *)
(* is the hash of, as a conclusion's is of its words and evidence.  A      *)
(* target is a kind and a value.  An answer of the model is "unreachable",   *)
(* "malformed" (refused by the response contract) or what it holds.  The   *)
(* three budgets of the payload are fields of the input, for small runs.   *)
(***************************************************************************)
EXTENDS Integers, Sequences, FiniteSets, SequencesExt

Severities == <<"blocking", "review_required", "warning", "info">>
Priorities == <<"P0", "P1", "P2", "P3">>
Rank(x, ranks) == CHOOSE n \in DOMAIN ranks : ranks[n] = x
Take(s, n) == SubSeq(s, 1, IF n < Len(s) THEN n ELSE Len(s))
Ids(s) == {s[n].id : n \in DOMAIN s}
Diagnosed(i) == {d.id : d \in i.diagnostics}

-----------------------------------------------------------------------------
\* compactSynthesisPayload: what the model is shown.
compareDiagnostics(d, e) ==
  \/ Rank(d.severity, Severities) < Rank(e.severity, Severities)
  \/ d.severity = e.severity /\ d.id < e.id
Urgent(i) ==
  Take(SetToSortSeq({d \in i.diagnostics : d.code # "ALIGNED" /\ d.recordIds # {}}, compareDiagnostics),
       i.limits.diagnostics)
compactSynthesisPayload(i) ==
  LET IsTodo(r) == r.source = "todo"
      wanted == UNION {Urgent(i)[n].recordIds : n \in DOMAIN Urgent(i)}
                  \cup Ids(Take(SelectSeq(i.records, IsTodo), i.limits.todos))
      IsWanted(r) == r.id \in wanted
      records == Take(SelectSeq(i.records, IsWanted), i.limits.records)
      IsShown(d) == d.recordIds \cap Ids(records) # {}
  IN [records |-> records, diagnostics |-> SelectSeq(Urgent(i), IsShown)]

-----------------------------------------------------------------------------
\* As if the citations of the model were only replaced when it gives none.
groundRecordIdsByDiagnostics_Trusting(i, diagnosticIds, supplied) ==
  IF supplied # {} THEN supplied
  ELSE UNION {d.recordIds : d \in {e \in i.diagnostics : e.id \in diagnosticIds}}

\* groundRecordIdsByDiagnostics: records cited that the diagnostics carry, or all
\* of theirs if none does; diagnostics without records restrict nothing.
groundRecordIdsByDiagnostics(i, diagnosticIds, supplied) ==
  LET allowed == UNION {d.recordIds : d \in {e \in i.diagnostics : e.id \in diagnosticIds}} IN
  IF allowed = {} THEN supplied ELSE IF supplied \cap allowed # {} THEN supplied \cap allowed ELSE allowed

Conclusion(i, raw) ==
  [id |-> [text |-> raw.text, diagnosticIds |-> raw.diagnosticIds,
           recordIds |-> groundRecordIdsByDiagnostics(i, raw.diagnosticIds, raw.recordIds)]]

Cited(answer, raw) == {c \in Range(answer.conclusions) : c.key \in raw.conclusionKeys}
Proposal(i, answer, raw) ==
  LET cited == {Conclusion(i, c).id : c \in Cited(answer, raw)} IN
  [id |-> raw.text, priority |-> raw.priority, words |-> raw.words, targets |-> raw.targets,
   conclusionIds |-> cited, diagnosticIds |-> UNION {c.diagnosticIds : c \in cited},
   recordIds |-> UNION {c.recordIds : c \in cited},
   dependencies |-> {p.text : p \in {q \in Range(answer.proposals) : q.key \in raw.dependencyKeys}}]

\* normalizeLocalKeys and mapKeys: keys are unique and every reference has one.
KeysAccepted(answer) ==
  LET keys(part) == {answer[part][n].key : n \in DOMAIN answer[part]} IN
  /\ \A part \in {"conclusions", "proposals"} : Cardinality(keys(part)) = Len(answer[part])
  /\ \A n \in DOMAIN answer.proposals :
       /\ answer.proposals[n].conclusionKeys \subseteq keys("conclusions")
       /\ answer.proposals[n].dependencyKeys \subseteq keys("proposals")

-----------------------------------------------------------------------------
\* assertConclusions and assertTodoProposals: a content twice has one id twice.
assertConclusions(i, conclusions) ==
  /\ Cardinality(Ids(conclusions)) = Len(conclusions)
  /\ \A id \in Ids(conclusions) :
       /\ id.diagnosticIds # {} /\ id.diagnosticIds \subseteq Diagnosed(i)
       /\ id.recordIds # {} /\ id.recordIds \subseteq Ids(i.records)

assertAcyclicProposalDependencies(proposals) ==
  ~\E loop \in (SUBSET Range(proposals)) \ {{}} : \A p \in loop : \E q \in loop : q.id \in p.dependencies

assertTodoProposals(i, conclusions, proposals) ==
  /\ assertConclusions(i, conclusions)
  /\ Cardinality(Ids(proposals)) = Len(proposals)
  /\ \A p \in Range(proposals) :
       /\ p.dependencies \subseteq Ids(proposals) \ {p.id}
       /\ p.conclusionIds # {} /\ p.conclusionIds \subseteq Ids(conclusions)
       /\ p.diagnosticIds # {} /\ p.diagnosticIds \subseteq Diagnosed(i)
       /\ p.recordIds # {} /\ p.recordIds \subseteq Ids(i.records)
  /\ assertAcyclicProposalDependencies(proposals)

assertProposalEvidenceMatchesConclusions(proposals) ==
  \A p \in Range(proposals) :
    /\ p.diagnosticIds \subseteq UNION {c.diagnosticIds : c \in p.conclusionIds}
    /\ p.recordIds \subseteq UNION {c.recordIds : c \in p.conclusionIds}

materialize(i, answer) ==
  [conclusions |-> [n \in DOMAIN answer.conclusions |-> Conclusion(i, answer.conclusions[n])],
   proposals |-> [n \in DOMAIN answer.proposals |-> Proposal(i, answer, answer.proposals[n])]]
IsAnswer(answer) == answer.kind = "answer"
Materializes(i, answer) ==
  LET output == materialize(i, answer) IN
  /\ IsAnswer(answer) /\ KeysAccepted(answer)
  /\ assertTodoProposals(i, output.conclusions, output.proposals)
  /\ assertProposalEvidenceMatchesConclusions(output.proposals)

-----------------------------------------------------------------------------
\* duplicateEvidence: similarity in hundredths, less of it for a shared target.
SharedTarget == [ticket |-> 25, symbol |-> 20, path |-> 50]
Similar(p, r, hundredths) ==
  LET common == Cardinality(p.words \cap r.words) IN
  common > 0 /\ 100 * common >= hundredths * Cardinality(p.words \cup r.words)
duplicateEvidence(i, p) ==
  {r \in Range(i.records) :
     /\ r.source = "todo"
     /\ Similar(p, r, 72) \/ \E t \in p.targets \cap r.targets : Similar(p, r, SharedTarget[t[1]])}

\* dependencyFirstPriorityOrder: of those whose dependencies are all placed, the
\* one of the highest priority, then of the first id.
compareProposals(p, q) ==
  \/ Rank(p.priority, Priorities) < Rank(q.priority, Priorities)
  \/ p.priority = q.priority /\ p.id <= q.id
Ready(proposals, placed) ==
  {p \in Range(proposals) \ Range(placed) : p.dependencies \subseteq Ids(placed)}
\* As if what became ready were placed after all that was ready before it.
dependencyFirstPriorityOrder_Rounds(proposals) ==
  LET place[n \in 0 .. Len(proposals)] ==
        IF n = 0 THEN <<>>
        ELSE place[n - 1] \o SetToSortSeq(Ready(proposals, place[n - 1]), compareProposals)
  IN place[Len(proposals)]

dependencyFirstPriorityOrder(proposals) ==
  LET place[n \in 0 .. Len(proposals)] ==
        IF n = 0 THEN <<>>
        ELSE LET ready == Ready(proposals, place[n - 1]) IN
             IF ready = {} THEN place[n - 1]
             ELSE Append(place[n - 1], CHOOSE p \in ready : \A q \in ready : compareProposals(p, q))
  IN place[Len(proposals)]

validateAndClassifyTodoProposals(i, output) ==
  LET ordered == dependencyFirstPriorityOrder(output.proposals) IN
  [ordered |-> ordered, new |-> {p \in Range(ordered) : duplicateEvidence(i, p) = {}}]

-----------------------------------------------------------------------------
Nothing == [conclusions |-> <<>>, proposals |-> <<>>]
Result(status, output, calls) == [status |-> status, output |-> output, calls |-> calls, actions |-> {}]

\* fallbackOrThrow.
fallbackOrThrow(i, mode, calls) ==
  IF mode = "require-llm" THEN Result("thrown", Nothing, calls)
  ELSE [Result("fallback", Nothing, calls) EXCEPT !.actions = {d.id : d \in {e \in i.diagnostics : e.code # "ALIGNED"}}]

\* synthesizeWithCorrection: an answer that is refused is asked for once more, a
\* call that fails is not.
Attempts(i, answers) ==
  IF answers[1].kind = "unreachable" \/ Materializes(i, answers[1]) THEN 1 ELSE 2
synthesizeTodoProposals(i, configured, mode, answers) ==
  LET calls == Attempts(i, answers)
      last == answers[calls]
  IN IF ~configured THEN fallbackOrThrow(i, mode, 0)
     ELSE IF ~Materializes(i, last) THEN fallbackOrThrow(i, mode, calls)
     ELSE Result("succeeded", materialize(i, last), calls)

-----------------------------------------------------------------------------
(***************************************************************************)
(* What is proposed is grounded (synthesizeTodoProposals): whatever the    *)
(* model answers, and answers again, the proposals that come out cite only *)
(* diagnostics that were reported and records those diagnostics carry; a   *)
(* proposal comes after all it depends on, and right after a less urgent   *)
(* one only if it waited for it; one that repeats a TODO is not new; and   *)
(* no more than two calls are made, of which a failed one leaves nothing   *)
(* but, where the mode allows it, an action for every open diagnostic.     *)
(***************************************************************************)
SynthesisIsGrounded(i, mode, answers) ==
  LET r == synthesizeTodoProposals(i, TRUE, mode, answers)
      alone == synthesizeTodoProposals(i, FALSE, mode, answers)
      order == validateAndClassifyTodoProposals(i, r.output).ordered
      carried(ids) == UNION {d.recordIds : d \in {e \in i.diagnostics : e.id \in ids}}
  IN /\ \A c \in Ids(r.output.conclusions) \cup Range(r.output.proposals) :
          /\ c.diagnosticIds \subseteq Diagnosed(i) /\ c.recordIds \subseteq Ids(i.records)
          /\ (\A d \in i.diagnostics : d.id \in c.diagnosticIds => d.recordIds # {}) =>
               c.recordIds \subseteq carried(c.diagnosticIds)
     /\ Range(order) = Range(r.output.proposals) /\ Len(order) = Len(r.output.proposals)
     /\ \A k \in 1 .. Len(order) :
          /\ order[k].dependencies \subseteq {order[n].id : n \in 1 .. k - 1}
          /\ k > 1 /\ ~compareProposals(order[k - 1], order[k]) => order[k - 1].id \in order[k].dependencies
     /\ \A p \in validateAndClassifyTodoProposals(i, r.output).new, t \in Range(i.records) :
          t.source = "todo" => p.words # t.words \/ p.words = {}
     /\ r.status = "thrown" => mode = "require-llm"
     /\ r.status = "fallback" => mode = "prefer-llm" /\ (\A d \in i.diagnostics : d.code = "ALIGNED" \/ d.id \in r.actions)
     /\ r.status # "succeeded" => r.output = Nothing
     /\ r.calls <= 2 /\ alone.calls = 0 /\ alone.output = Nothing

(***************************************************************************)
(* What the model is shown hangs together (compactSynthesisPayload): every *)
(* diagnostic comes with a record it is about, none is left out for a less *)
(* urgent one while its records are shown, and no budget is exceeded.      *)
(***************************************************************************)
PayloadHangsTogether(i) ==
  LET p == compactSynthesisPayload(i)
      shown == Range(p.diagnostics)
  IN /\ \A d \in shown : d.recordIds \cap Ids(p.records) # {}
     /\ \A d \in i.diagnostics \ shown, e \in shown :
          d.code # "ALIGNED" /\ d.recordIds \cap Ids(p.records) # {} => ~compareDiagnostics(d, e)
     /\ Len(p.records) <= i.limits.records /\ Len(p.diagnostics) <= i.limits.diagnostics
=============================================================================

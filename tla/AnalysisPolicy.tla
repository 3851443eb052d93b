--------------------------- MODULE AnalysisPolicy ---------------------------
(***************************************************************************)
(* The policy of a structured analysis (evaluation/analysis-policy.ts): a  *)
(* budget, the stages it pays for and what triggers them; its text; the    *)
(* stages selected for a change; and the key a result is cached under.     *)
(*                                                                         *)
(* A budget is a function of the four things it limits.  Names are numbers,*)
(* which stand for their order as text, and so are purposes, contexts and  *)
(* triggers.  A digest is what it was taken of.  wellFormed says that the  *)
(* remaining fields of a policy or a stage have one of their values.       *)
(***************************************************************************)
EXTENDS Integers, Sequences, FiniteSets, SequencesExt

CONSTANT MAX_STAGES, BUDGET_LIMITS

Limits == DOMAIN BUDGET_LIMITS
validateBudget(budget) == \A l \in Limits : budget[l] \in 1 .. BUDGET_LIMITS[l]
assertWithinBudget(value, ceiling) == \A l \in Limits : value[l] <= ceiling[l]
sumBudgets(stages) ==
  [l \in Limits |-> FoldLeft(LAMBDA sum, stage : sum + stage.budget[l], 0, stages)]
assertSortedUnique(values) == \A n \in 1 .. Len(values) - 1 : values[n] < values[n + 1]

validateStage(stage, globalBudget) ==
  /\ stage.wellFormed /\ assertSortedUnique(stage.triggers)
  /\ stage.activation = "ALWAYS" <=> stage.triggers = <<>>
  /\ validateBudget(stage.budget) /\ assertWithinBudget(stage.budget, globalBudget)

\* As if every stage of its own were enough.
validateStages_OneByOne(stages, globalBudget) ==
  /\ Len(stages) \in 1 .. MAX_STAGES /\ assertSortedUnique([n \in DOMAIN stages |-> stages[n].id])
  /\ \A stage \in Range(stages) : validateStage(stage, globalBudget)
  /\ \E stage \in Range(stages) : stage.activation = "ALWAYS"

validateStages(stages, globalBudget) ==
  /\ Len(stages) \in 1 .. MAX_STAGES /\ assertSortedUnique([n \in DOMAIN stages |-> stages[n].id])
  /\ \A stage \in Range(stages) : validateStage(stage, globalBudget)
  /\ \E stage \in Range(stages) : stage.activation = "ALWAYS"
  /\ assertWithinBudget(sumBudgets(stages), globalBudget)
assertAnalysisPolicy(policy) ==
  policy.wellFormed /\ validateBudget(policy.budget) /\ validateStages(policy.stages, policy.budget)

-----------------------------------------------------------------------------
\* The text: a line for the head, one for the budget, the count of stages, then
\* for every stage what opens it, what it says and what closes it.
Said(tag, value) == [tag |-> tag, value |-> <<value>>]
Bare(tag) == [tag |-> tag, value |-> <<>>]
stageLines(stage) == <<Bare("STAGE"), Said("STAGE_FIELDS", stage), Bare("END_STAGE")>>
renderAnalysisPolicy(policy) ==
  {<<Said("HEAD", [id |-> p.id, wellFormed |-> p.wellFormed]), Said("BUDGET", p.budget), Said("STAGE_COUNT", [count |-> Len(p.stages)])>>
     \o FlattenSeq([n \in DOMAIN p.stages |-> stageLines(p.stages[n])]) :
     p \in {q \in {policy} : assertAnalysisPolicy(q)}}

\* PolicyReader and parseStage: every line where it is expected, and none after.
Reads(text, tags) == Len(text) = Len(tags) /\ \A n \in DOMAIN text : text[n].tag = tags[n]
parseAnalysisPolicy(text) ==
  LET head == <<"HEAD", "BUDGET", "STAGE_COUNT">>
      count == text[3].value[1].count
      stage == <<"STAGE", "STAGE_FIELDS", "END_STAGE">>
      policy == [id |-> text[1].value[1].id, wellFormed |-> text[1].value[1].wellFormed,
                 budget |-> text[2].value[1], stages |-> [n \in 1 .. count |-> text[3 * n + 2].value[1]]]
  IN IF Len(text) > 3 /\ Reads(SubSeq(text, 1, 3), head) /\ count \in 1 .. MAX_STAGES
        /\ Reads(text, head \o FlattenSeq([n \in 1 .. count |-> stage]))
     THEN {p \in {policy} : renderAnalysisPolicy(p) = {text}} ELSE {}

-----------------------------------------------------------------------------
selectAnalysisStages(policy, observed) ==
  SelectSeq(policy.stages, LAMBDA s : s.activation = "ALWAYS" \/ Range(s.triggers) \cap observed # {})
calculateAnalysisUsageCeiling(policy, observed) ==
  LET stages == selectAnalysisStages(policy, observed) IN
  [stageIds |-> [n \in DOMAIN stages |-> stages[n].id], budget |-> sumBudgets(stages)]

\* The prefix of an evidence fingerprint is left out; sound says that it is one
\* and that the names are neither empty nor too long.
createAnalysisCacheKey(policy, identity) ==
  {[policy |-> renderAnalysisPolicy(policy), stage |-> s.id, evidence |-> identity.evidence,
    model |-> identity.model, promptContract |-> identity.promptContract] :
     s \in {t \in Range(policy.stages) : t.id = identity.stage /\ identity.sound /\ assertAnalysisPolicy(policy)}}

-----------------------------------------------------------------------------
\* A line left out, given twice or swapped with the next one; another count.
Rewritten(text) ==
  {RemoveAt(text, n) : n \in DOMAIN text} \cup {InsertAt(text, n, text[n]) : n \in DOMAIN text}
  \cup {[text EXCEPT ![n] = text[n + 1], ![n + 1] = text[n]] : n \in 1 .. Len(text) - 1}
  \cup {[text EXCEPT ![3].value[1].count = @ + c] : c \in {1, -1}}

(***************************************************************************)
(* An accepted policy bounds every analysis made under it                  *)
(* (assertAnalysisPolicy, selectAnalysisStages): whatever is observed,     *)
(* some stage is selected, what the selected stages may use together stays *)
(* within the budget of the policy, and observing more never selects less. *)
(* The policy reads back as it was written, and a text with lines left     *)
(* out, repeated or out of place is refused.  A result is found in the     *)
(* cache only by the same policy, stage, evidence and model.               *)
(***************************************************************************)
AnalysisStaysInBudget(policy, other, triggers, identities) ==
  assertAnalysisPolicy(policy) =>
    /\ \A observed \in SUBSET triggers :
         LET ceiling == calculateAnalysisUsageCeiling(policy, observed)
             selected == Range(ceiling.stageIds)
         IN /\ selected # {} /\ assertWithinBudget(ceiling.budget, policy.budget)
            /\ \A more \in SUBSET triggers : observed \subseteq more =>
                 LET then == calculateAnalysisUsageCeiling(policy, more) IN
                 selected \subseteq Range(then.stageIds) /\ assertWithinBudget(ceiling.budget, then.budget)
    /\ \A text \in renderAnalysisPolicy(policy) :
         parseAnalysisPolicy(text) = {policy} /\ \A t \in Rewritten(text) : parseAnalysisPolicy(t) = {}
    /\ \A i, j \in identities :
         createAnalysisCacheKey(policy, i) \cap createAnalysisCacheKey(other, j) # {} =>
           policy = other /\ [i EXCEPT !.sound = TRUE] = [j EXCEPT !.sound = TRUE]
=============================================================================

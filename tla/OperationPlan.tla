---------------------------- MODULE OperationPlan ----------------------------
(***************************************************************************)
(* Operation plans: their normalisation and hash (operations/contract.ts), *)
(* their validation (operations/validation.ts) and the projection into a   *)
(* process envelope (operations/subactor.ts).                              *)
(*                                                                         *)
(* A plan maps the names of its steps to the steps and has variables by    *)
(* id, expectations as sets of steps, and a decision.  Its hash is the     *)
(* content itself; shapes of texts, the generation record and the evidence *)
(* lists are left out.  Times are numbers, a source reference a name.      *)
(***************************************************************************)
EXTENDS Integers, Sequences, FiniteSets, SequencesExt

Founder == "authority:founder"
Human == {"human:anna"}
None == "none"
Never == -1

Sensitive(step) == step.effect = "command" /\ (step.reversible # "yes" \/ step.riskClass \in {"boundary", "governance"})

\* assertVariableContract.
VariableAccepted(v) ==
  /\ v.classification = "secret" => v.source.kind = "vault"
  /\ Founder \in v.readers /\ Founder \in v.writers
  /\ ~v.mutable => v.writers = {Founder}
  /\ v.freshnessSeconds = Never \/ v.freshnessSeconds >= 1

\* A parameter names a declared variable, no secret, that the actor may read.
ParameterAccepted(v, actor) ==
  v.classification # "secret" /\ (actor \in v.readers \/ actor = Founder)

\* The guard as if only what cannot be undone needed a person.
StepAccepted_Undoable(step, variables) ==
  /\ step.actor \notin Human
  /\ \A p \in DOMAIN step.parameters :
       /\ step.parameters[p] \in DOMAIN variables
       /\ ParameterAccepted(variables[step.parameters[p]], step.actor)
  /\ IF step.effect = "query"
     THEN step.riskClass = "read_only" /\ step.reversible = "yes"
          /\ ~step.humanApproval /\ step.rollback = None
     ELSE step.riskClass # "read_only" /\ step.rollback # None
          /\ (step.reversible # "yes" => step.humanApproval)

StepAccepted(step, variables) ==
  /\ step.actor \notin Human
  /\ \A p \in DOMAIN step.parameters :
       /\ step.parameters[p] \in DOMAIN variables
       /\ ParameterAccepted(variables[step.parameters[p]], step.actor)
  /\ IF step.effect = "query"
     THEN step.riskClass = "read_only" /\ step.reversible = "yes"
          /\ ~step.humanApproval /\ step.rollback = None
     ELSE step.riskClass # "read_only" /\ step.rollback # None
          /\ (Sensitive(step) => step.humanApproval)

\* assertAcyclic, a depth-first search that remembers what it has finished.
\* A walk is what it has visited and whether it may go on.
RECURSIVE visit(_, _, _, _), visitAll(_, _, _, _)
visit(steps, id, visiting, walk) ==
  IF ~walk.fine \/ id \in visiting THEN [walk EXCEPT !.fine = FALSE]
  ELSE IF id \in walk.visited THEN walk
  ELSE LET after == visitAll(steps, SetToSeq(steps[id].dependsOn), visiting \cup {id}, walk)
       IN [after EXCEPT !.visited = @ \cup {id}]
visitAll(steps, ids, visiting, walk) ==
  IF ids = <<>> THEN walk
  ELSE IF Head(ids) \notin DOMAIN steps THEN [walk EXCEPT !.fine = FALSE]
  ELSE visitAll(steps, Tail(ids), visiting, visit(steps, Head(ids), visiting, walk))
assertAcyclic(steps) ==
  visitAll(steps, SetToSeq(DOMAIN steps), {}, [visited |-> {}, fine |-> TRUE]).fine

\* assertOperationPlan: a founder decides on what is sensitive, every step is
\* verified by an expectation, and commands are exercised and read back.
PlanAccepted(plan) ==
  LET steps == plan.steps IN
  /\ \A v \in DOMAIN plan.variables : VariableAccepted(plan.variables[v])
  /\ DOMAIN steps # {} /\ plan.expectations # {}
  /\ \A s \in DOMAIN steps : StepAccepted(steps[s], plan.variables)
  /\ assertAcyclic(steps)
  /\ \A e \in plan.expectations : e # {} /\ e \subseteq DOMAIN steps
  /\ UNION plan.expectations = DOMAIN steps
  /\ (\E s \in DOMAIN steps : Sensitive(steps[s])) => plan.decision = Founder
  /\ plan.decision \in {Founder, None}
  /\ (\E s \in DOMAIN steps : steps[s].effect = "command") =>
        plan.verification.exerciseRequired /\ plan.verification.independentReadback

-----------------------------------------------------------------------------
\* compileSubactorProcessEnvelope reads the parameters of all steps, assertBinding
\* the binding of one variable at the time the plan was made.
Referenced(plan) == UNION {{plan.steps[s].parameters[p] : p \in DOMAIN plan.steps[s].parameters} : s \in DOMAIN plan.steps}

BindingAccepted(v, binding, createdAt) ==
  /\ v.classification # "secret"
  /\ binding.sourceRef = v.source.ref
  /\ binding.type = v.valueType
  /\ v.freshnessSeconds # Never =>
       /\ binding.observedAt # Never
       /\ createdAt - binding.observedAt \in 0 .. v.freshnessSeconds

Compiles(plan, bindings) ==
  /\ PlanAccepted(plan)
  /\ DOMAIN bindings = Referenced(plan)
  /\ \A v \in DOMAIN bindings : BindingAccepted(plan.variables[v], bindings[v], plan.createdAt)

Envelope(plan, bindings) ==
  LET steps == plan.steps IN
  [idempotencyKey |-> plan,
   decision |-> IF plan.decision = Founder THEN <<plan>> ELSE <<>>,
   capabilities |-> {steps[s].capability : s \in DOMAIN steps},
   approval |-> IF \E s \in DOMAIN steps : steps[s].humanApproval
                THEN "explicit_founder_decision" ELSE "validated_autonomous_plan",
   aql |-> [s \in DOMAIN steps |->
     [actor |-> steps[s].actor, allow |-> {steps[s].capability},
      read |-> {steps[s].parameters[p] : p \in DOMAIN steps[s].parameters}, write |-> {}]],
   oql |-> [s \in DOMAIN steps |-> {e \in plan.expectations : s \in e}],
   uri |-> [s \in DOMAIN steps |->
     [payload |-> [p \in DOMAIN steps[s].parameters |-> bindings[steps[s].parameters[p]].value],
      dependsOn |-> steps[s].dependsOn, humanApproval |-> steps[s].humanApproval,
      rollback |-> steps[s].rollback]]]

-----------------------------------------------------------------------------
\* All a step waits for, directly or not.
Awaits(steps, id) ==
  LET reach[n \in 0 .. Cardinality(DOMAIN steps)] ==
        IF n = 0 THEN steps[id].dependsOn
        ELSE reach[n - 1] \cup UNION {steps[s].dependsOn : s \in reach[n - 1] \cap DOMAIN steps}
  IN reach[Cardinality(DOMAIN steps)]

(***************************************************************************)
(* The dependency search, which visits each step once and in some order,   *)
(* accepts exactly the plans where no step waits for itself or for a step  *)
(* that does not exist (assertAcyclic).                                    *)
(***************************************************************************)
SearchFindsCycles(steps) ==
  assertAcyclic(steps) <=> \A s \in DOMAIN steps : Awaits(steps, s) \subseteq DOMAIN steps \ {s}

(***************************************************************************)
(* An envelope keeps the promises of its plan                              *)
(* (compileSubactorProcessEnvelope): where a step cannot be undone or      *)
(* crosses a boundary, the whole envelope asks for the founder and says    *)
(* which decision; each step waits for what the plan says and is verified; *)
(* and the values it carries were read from their declared source, by an   *)
(* actor who may, no secret among them and none older than allowed.        *)
(***************************************************************************)
EnvelopeKeepsPromises(plan, bindings) ==
  Compiles(plan, bindings) =>
    LET envelope == Envelope(plan, bindings)  steps == plan.steps IN
    /\ SearchFindsCycles(steps)
    /\ (\E s \in DOMAIN steps : Sensitive(steps[s])) =>
         envelope.approval = "explicit_founder_decision" /\ envelope.decision # <<>>
    /\ \A s \in DOMAIN steps :
         /\ envelope.oql[s] # {} /\ envelope.uri[s].dependsOn \subseteq DOMAIN steps
         /\ \A v \in envelope.aql[s].read :
              LET variable == plan.variables[v] IN
              /\ variable.classification # "secret" /\ bindings[v].sourceRef = variable.source.ref
              /\ envelope.aql[s].actor \in variable.readers
              /\ variable.freshnessSeconds # Never =>
                   plan.createdAt - bindings[v].observedAt <= variable.freshnessSeconds
=============================================================================

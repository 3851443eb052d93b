--------------------------- MODULE DeliverySlices ---------------------------
(***************************************************************************)
(* The compiler from an accepted delivery plan to implementation slices    *)
(* (operations/delivery-plan-slices.ts).                                   *)
(*                                                                         *)
(* Keys are numbers, in their order as text.  A path is a sequence of      *)
(* segments, a pattern a base and whether it ends in /**.  Shapes of       *)
(* texts, the identity of the plan and the digests are left out; a refusal *)
(* keeps no code but is a condition of its own.                            *)
(***************************************************************************)
EXTENDS Integers, Sequences, FiniteSets, SequencesExt

MAX_SOURCE_SLICES == 12
MAX_OUTPUT_SLICES == 64

PROFILES ==
  [XS |-> [minutes |-> 15, files |-> 2, components |-> 1, interfaces |-> 0, dependencies |-> 0],
   S |-> [minutes |-> 30, files |-> 5, components |-> 2, interfaces |-> 1, dependencies |-> 1],
   M |-> [minutes |-> 60, files |-> 9, components |-> 3, interfaces |-> 2, dependencies |-> 2],
   L |-> [minutes |-> 120, files |-> 15, components |-> 5, interfaces |-> 3, dependencies |-> 3]]

covers(pattern, path) == IF pattern.open THEN IsPrefix(pattern.base, path) ELSE pattern.base = path
coversPattern(owner, required) ==
  IF owner.open THEN IsPrefix(owner.base, required.base) ELSE owner = required

\* ownership: the patterns of each workstream, and those only one may touch.
OwnershipAccepted(o) ==
  /\ DOMAIN o.workstreams # {} /\ o.integration \in DOMAIN o.workstreams
  /\ \A q \in o.required : \E p \in o.workstreams[o.integration] : coversPattern(p, q)

Owners(o, path) == {w \in DOMAIN o.workstreams : \E p \in o.workstreams[w] : covers(p, path)}

\* slice, with tests and acceptance.
SliceAccepted(s, o) ==
  /\ s.workstream \in DOMAIN o.workstreams /\ s.paths # {} /\ s.components # {}
  /\ \A path \in s.paths :
       /\ Owners(o, path) = {s.workstream}
       /\ (\E q \in o.required : covers(q, path)) => s.workstream = o.integration
  /\ s.tests # {} /\ s.acceptance # {}
  /\ \A c \in s.acceptance : c.tests # {} /\ c.tests \subseteq s.tests

\* topological: keys in rounds of those whose dependencies have all come, each
\* round in the order of the keys; no key comes any more where a cycle is left.
ByKey(keys) == [n \in 1 .. Cardinality(keys) |-> CHOOSE k \in keys : Cardinality({l \in keys : l < k}) = n - 1]
Unblocked(dependsOn, placed) == {k \in DOMAIN dependsOn \ Range(placed) : dependsOn[k] \subseteq Range(placed)}
topological(dependsOn) ==
  LET rounds[n \in 0 .. Cardinality(DOMAIN dependsOn)] ==
        IF n = 0 THEN <<>>
        ELSE LET placed == rounds[n - 1] IN placed \o ByKey(Unblocked(dependsOn, placed))
  IN rounds[Cardinality(DOMAIN dependsOn)]

DependenciesAccepted(dependsOn) ==
  /\ \A k \in DOMAIN dependsOn : dependsOn[k] \subseteq DOMAIN dependsOn \ {k}
  /\ Len(topological(dependsOn)) = Cardinality(DOMAIN dependsOn)

DependsOn(slices) == [k \in DOMAIN slices |-> slices[k].dependsOn]

\* plan: slices by key.
DeliveryPlanAccepted(plan) ==
  /\ OwnershipAccepted(plan.ownership)
  /\ Cardinality(DOMAIN plan.slices) \in 1 .. MAX_SOURCE_SLICES
  /\ \A k \in DOMAIN plan.slices : SliceAccepted(plan.slices[k], plan.ownership)
  /\ DependenciesAccepted(DependsOn(plan.slices))

boundedReasons(s) ==
  LET profile == PROFILES[s.complexity]  limits == s.delivery IN
  (IF s.complexity \in {"XS", "S"} THEN {} ELSE {"complexity_not_implementation_slice"}) \cup
  {<<"complexity_limit", limit>> : limit \in {l \in DOMAIN profile : limits[l] > profile[l]}} \cup
  {<<"budget", limit>> : limit \in {l \in {"components", "interfaces", "dependencies"} :
                                      Cardinality(s[l]) > limits[l]}} \cup
  (IF Cardinality(s.paths) > limits.files THEN {<<"budget", "files">>} ELSE {})

\* What the children have together is what the parent has, and no two share.
exactPartition(parent, children, part) ==
  /\ UNION {children[k][part] : k \in DOMAIN children} = parent[part]
  /\ \A k, l \in DOMAIN children : k # l => children[k][part] \cap children[l][part] = {}

DecompositionAccepted(source, children, ownership) ==
  /\ Cardinality(DOMAIN children) >= 2
  /\ \A k \in DOMAIN children : /\ SliceAccepted(children[k], ownership)
                                /\ children[k].workstream = source.workstream
                                /\ boundedReasons(children[k]) = {}
  /\ DependenciesAccepted(DependsOn(children))
  /\ \A part \in {"paths", "components", "interfaces", "dependencies", "tests", "acceptance"} :
       exactPartition(source, children, part)

\* request: exactly the slices that are too large are decomposed.
RequestAccepted(r) ==
  /\ DeliveryPlanAccepted(r.plan)
  /\ DOMAIN r.decompositions = {k \in DOMAIN r.plan.slices : boundedReasons(r.plan.slices[k]) # {}}
  /\ \A k \in DOMAIN r.decompositions :
       /\ DecompositionAccepted(r.plan.slices[k], r.decompositions[k], r.plan.ownership)
       /\ \A l \in DOMAIN r.decompositions \ {k} :
            DOMAIN r.decompositions[k] \cap DOMAIN r.decompositions[l] = {}
       /\ DOMAIN r.decompositions[k] \cap DOMAIN r.plan.slices = {}

-----------------------------------------------------------------------------
\* As if it were enough to wait for the children that start.
Leaves_Roots(children) == {k \in DOMAIN children : children[k].dependsOn = {}}

\* Children no other child depends on: what comes after the source waits for.
Leaves(children) == DOMAIN children \ UNION {children[k].dependsOn : k \in DOMAIN children}

\* expand: the drafts of a request by key.  A child that waits for no other
\* inherits the dependencies of its source.
Split(r) == DOMAIN r.decompositions
Children(r, s) == IF s \in Split(r) THEN r.decompositions[s] ELSE [k \in {s} |-> r.plan.slices[s]]
LeavesOf(r, s) == IF s \in Split(r) THEN Leaves(Children(r, s)) ELSE {s}
Inherited(r, s) == UNION {LeavesOf(r, d) : d \in r.plan.slices[s].dependsOn}
Draft(r, s, k) ==
  LET own == IF s \in Split(r) THEN Children(r, s)[k].dependsOn ELSE {} IN
  [source |-> s, slice |-> Children(r, s)[k],
   dependsOn |-> IF own # {} THEN own ELSE Inherited(r, s),
   origin |-> IF s \in Split(r) THEN "advisory_decomposition" ELSE "accepted_plan"]
SourceOf(r, k) == CHOOSE s \in DOMAIN r.plan.slices : k \in DOMAIN Children(r, s)
expand(r) ==
  [k \in UNION {DOMAIN Children(r, s) : s \in DOMAIN r.plan.slices} |-> Draft(r, SourceOf(r, k), k)]

assertDisjointPaths(drafts) ==
  \A k, l \in DOMAIN drafts : k # l => drafts[k].slice.paths \cap drafts[l].slice.paths = {}

orderDrafts(drafts) == topological([k \in DOMAIN drafts |-> drafts[k].dependsOn])

\* compileDeliveryPlanSlices: the drafts and the order of their candidates.
Compiles(r) ==
  /\ RequestAccepted(r)
  /\ LET drafts == expand(r) IN
     /\ Cardinality(DOMAIN drafts) <= MAX_OUTPUT_SLICES
     /\ assertDisjointPaths(drafts)
     /\ DependenciesAccepted([k \in DOMAIN drafts |-> drafts[k].dependsOn])

-----------------------------------------------------------------------------
Position(order, key) == CHOOSE i \in DOMAIN order : order[i] = key

\* All that must come before k.
Awaits(dependsOn, k) ==
  LET reach[n \in 0 .. Cardinality(DOMAIN dependsOn)] ==
        IF n = 0 THEN dependsOn[k]
        ELSE reach[n - 1] \cup UNION {dependsOn[l] : l \in reach[n - 1]}
  IN reach[Cardinality(DOMAIN dependsOn)]

(***************************************************************************)
(* The slices keep the plan (compileDeliveryPlanSlices).  A request that   *)
(* passes validation can only fail for the number of its candidates or for *)
(* paths two sources share, never in the ordering of its candidates.       *)
(* Otherwise every candidate is small enough, its paths and tests are      *)
(* those of the plan, and the precedence of the plan survives the          *)
(* decomposition: each candidate of a slice waits for every candidate of   *)
(* the slices before it, and comes after them.                             *)
(***************************************************************************)
SlicesKeepThePlan(r) ==
  RequestAccepted(r) =>
    LET drafts == expand(r)
        order == orderDrafts(drafts)
        dependsOn == [k \in DOMAIN drafts |-> drafts[k].dependsOn]
        plan == r.plan.slices
    IN /\ Compiles(r) <=> /\ Cardinality(DOMAIN drafts) <= MAX_OUTPUT_SLICES
                          /\ \A s, t \in DOMAIN plan : s # t => plan[s].paths \cap plan[t].paths = {}
       /\ \A k \in DOMAIN drafts : boundedReasons(drafts[k].slice) = {}
       /\ \A part \in {"paths", "tests", "acceptance"} :
            UNION {drafts[k].slice[part] : k \in DOMAIN drafts} = UNION {plan[s][part] : s \in DOMAIN plan}
       /\ ToSet(order) = DOMAIN drafts
       /\ \A k, l \in DOMAIN drafts :
            /\ l \in dependsOn[k] => Position(order, l) < Position(order, k)
            /\ drafts[l].source \in Awaits(DependsOn(plan), drafts[k].source) =>
                 l \in Awaits(dependsOn, k)
=============================================================================

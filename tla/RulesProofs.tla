----------------------------- MODULE RulesProofs -----------------------------
(***************************************************************************)
(* Theorems about rules that keep no state: truth maps, branch portfolios  *)
(* and their snapshots, the comparison of capabilities, the difference of  *)
(* graphs, plans to change code, what a model proposes and what it chooses *)
(* from, and the slices of a delivery plan.  TLC asks the laws of a small  *)
(* set of inputs; here they hold for every one the validators let through. *)
(***************************************************************************)
EXTENDS BranchPortfolio, CapabilityComparison, BranchSnapshot, GraphDiff, CodeChange, Reranker, DeliverySlices,
        FiniteSetTheorems, SequenceTheorems, WellFoundedInduction, TLAPS

-----------------------------------------------------------------------------
(* TruthMap: one map for a graph.                                          *)

\* The least-number principle, from which the inductions below are made.
LEMMA SmallestOf == ASSUME NEW T \in SUBSET Nat, T # {} PROVE \E n \in T : \A m \in T : n <= m
<1> DEFINE less == {ss \in Nat \X Nat : ss[1] < ss[2]}
<1>1. IsWellFoundedOn(less, Nat)
  BY NatLessThanWellFounded DEF OpToRel
<1>2. PICK x \in T : \A y \in T : <<y, x>> \notin less
  <2> HIDE DEF less
  <2> QED
    BY <1>1, WFMin
<1>3. \A y \in T : ~(y < x)
  BY <1>2
<1> QED
  BY <1>3

\* One step of assertConnected's walk: the ends of the relations that have one.
StepOf(a, seen) ==
  seen \cup {r[1] : r \in {x \in a.relations : x[2] \in seen}}
       \cup {r[2] : r \in {x \in a.relations : x[1] \in seen}}

\* Its first steps.
Walks(a, first, n, walk) ==
  walk = [k \in 0 .. n |-> IF k = 0 THEN {first} ELSE StepOf(a, walk[k - 1])]

\* There are such steps, as many as are asked for.
LEMMA WalkExists == ASSUME NEW a, NEW first, NEW n \in Nat PROVE \E walk : Walks(a, first, n, walk)
<1> DEFINE T == {k \in Nat : ~\E walk : Walks(a, first, k, walk)}
<1> SUFFICES ASSUME T # {} PROVE FALSE
  OBVIOUS
<1>1. PICK k \in T : \A j \in T : k <= j
  BY SmallestOf
<1>2. CASE k = 0
  <2>1. Walks(a, first, 0, [j \in 0 .. 0 |-> {first}])
    BY DEF Walks
  <2> QED
    BY <1>1, <1>2, <2>1
<1>3. CASE k # 0
  <2>1. k - 1 \in Nat /\ k - 1 \notin T
    BY <1>1, <1>3
  <2>2. PICK walk : Walks(a, first, k - 1, walk)
    BY <2>1
  <2> DEFINE longer == [j \in 0 .. k |-> IF j = k THEN StepOf(a, walk[k - 1]) ELSE walk[j]]
  <2>3. longer = [j \in 0 .. k |-> IF j = 0 THEN {first} ELSE StepOf(a, longer[j - 1])]
    <3> SUFFICES ASSUME NEW j \in 0 .. k
                 PROVE  longer[j] = IF j = 0 THEN {first} ELSE StepOf(a, longer[j - 1])
      BY Zenon
    <3>1. j \in 0 .. k - 1 => walk[j] = IF j = 0 THEN {first} ELSE StepOf(a, walk[j - 1])
      BY <2>2 DEF Walks
    <3>2. j \in 0 .. k - 1 \/ j = k
      BY <2>1
    <3>3. CASE j = k
      <4>1. k - 1 \in 0 .. k /\ k - 1 # k /\ j # 0 /\ j - 1 = k - 1
        BY <1>3, <2>1, <3>3
      <4> QED
        BY <3>3, <4>1
    <3>4. CASE j \in 0 .. k - 1
      <4>1. j # k /\ (j # 0 => j - 1 \in 0 .. k /\ j - 1 # k)
        BY <2>1, <3>4
      <4> QED
        BY <3>1, <3>4, <4>1
    <3> QED
      BY <3>2, <3>3, <3>4
  <2> QED
    BY <1>1, <2>3 DEF Walks
<1> QED
  BY <1>2, <1>3

\* The walk stays in every set that has both ends of a relation or none.
LEMMA ReachedStays ==
  ASSUME NEW a, NEW first, NEW S, first \in S, \A r \in a.relations : r[1] \in S <=> r[2] \in S,
         Cardinality(a.records) \in Nat
  PROVE  Reached(a, first) \subseteq S
<1> DEFINE steps == Cardinality(a.records)
<1>1. PICK walk : Walks(a, first, steps, walk)
  BY WalkExists
<1>2. PICK w : Walks(a, first, steps, w) /\ Reached(a, first) = w[steps]
  BY <1>1 DEF Reached, Walks, StepOf
<1> DEFINE T == {k \in 0 .. steps : ~(w[k] \subseteq S)}
<1> SUFFICES ASSUME T # {} PROVE FALSE
  BY <1>2
<1>3. PICK k \in T : \A j \in T : k <= j
  <2>1. T \in SUBSET Nat
    OBVIOUS
  <2> HIDE DEF T
  <2> QED
    BY <2>1, SmallestOf
<1>4. CASE k = 0
  BY <1>2, <1>3, <1>4 DEF Walks
<1>5. CASE k # 0
  <2>1. k - 1 \in 0 .. steps /\ k \in 0 .. steps
    BY <1>3, <1>5
  <2>2. w[k - 1] \subseteq S
    BY <1>3, <2>1
  <2>3. w[k] = StepOf(a, w[k - 1])
    BY <1>2, <1>5, <2>1 DEF Walks
  <2>4. StepOf(a, w[k - 1]) \subseteq S
    BY <2>2 DEF StepOf
  <2> QED
    BY <1>3, <2>3, <2>4
<1> QED
  BY <1>4, <1>5

\* A set of assertions has the fields of one (truth-map-schema.ts).
Assertions(map) == \A a \in map : a = [records |-> a.records, relations |-> a.relations, status |-> a.status]

\* An assertion of one accepted map has its records in one of the other.
LEMMA RecordsAgree ==
  ASSUME NEW graph, IsFiniteSet(Records(graph)), NEW map, NEW other,
         assertTruthMap(map, graph), assertTruthMap(other, graph),
         NEW a \in map, NEW b \in other, NEW r \in a.records, r \in b.records
  PROVE  a.records \subseteq b.records
<1>1. /\ a.records \subseteq Records(graph) /\ a.relations = Within(Mapping(graph), a.records) /\ Connected(a)
      /\ \A x \in Mapping(graph) : x[1] \in b.records <=> x[2] \in b.records
  BY DEF assertTruthMap
<1>2. Cardinality(a.records) \in Nat
  BY <1>1, FS_Subset, FS_CardinalityType
<1>3. \A x \in a.relations : x[1] \in b.records <=> x[2] \in b.records
  BY <1>1 DEF Within
<1>4. Reached(a, r) = a.records
  BY <1>1 DEF Connected
<1> QED
  BY <1>2, <1>3, <1>4, ReachedStays

\* assertTruthMap accepts one map of a graph at most: which records are grouped,
\* by which relations and with what status is all decided by the graph, and a map
\* in which one of them was changed is refused.
THEOREM TruthMapIsOne ==
  ASSUME NEW graph, IsFiniteSet(Records(graph)), NEW map, NEW other, Assertions(map), Assertions(other),
         assertTruthMap(map, graph), assertTruthMap(other, graph)
  PROVE  map = other
<1>1. ASSUME NEW p, NEW q, Assertions(p), Assertions(q), assertTruthMap(p, graph), assertTruthMap(q, graph)
      PROVE  p \subseteq q
  <2> SUFFICES ASSUME NEW a \in p PROVE a \in q
    OBVIOUS
  <2>1. PICK r \in a.records : r \in Records(graph)
    BY <1>1 DEF assertTruthMap
  <2>2. PICK b \in q : r \in b.records
    BY <1>1, <2>1 DEF assertTruthMap
  <2>3. a.records \subseteq b.records
    BY <1>1, <2>1, <2>2, RecordsAgree
  <2>4. b.records \subseteq a.records
    BY <1>1, <2>1, <2>2, RecordsAgree
  <2>5. a.relations = b.relations /\ a.status = b.status
    <3>1. a.relations = Within(Mapping(graph), a.records) /\ a.status = classifyStatus(graph, a.records, a.relations)
      BY <1>1 DEF assertTruthMap
    <3>2. b.relations = Within(Mapping(graph), b.records) /\ b.status = classifyStatus(graph, b.records, b.relations)
      BY <1>1 DEF assertTruthMap
    <3>3. a.records = b.records
      BY <2>3, <2>4
    <3> QED
      BY <3>1, <3>2, <3>3, Zenon
  <2> QED
    BY <1>1, <2>2, <2>3, <2>4, <2>5 DEF Assertions
<1> QED
  BY <1>1

-----------------------------------------------------------------------------
(* BranchPortfolio: what is said of a branch.                              *)

\* CandidateEvidence with any patches and any numbers of commits.
AnyCandidate(Tree, Patch, Assertion) ==
  [tree : Tree, patchId : Patch, aheadBy : Nat, behindBy : Nat,
   baseTextualMerge : TextualMerge, semanticEvidence : Completeness,
   changes : SUBSET Assertion, baseSemanticConflict : SUBSET Assertion]

\* The evidence a portfolio is made from: candidates by name, and pairs.
Evidence(candidates, pairs) ==
  /\ DOMAIN candidates \subseteq Int
  /\ \E Tree, Patch, Assertion :
       /\ candidates \in [DOMAIN candidates -> AnyCandidate(Tree, Patch, Assertion)]
       /\ pairs \subseteq PairEvidence(DOMAIN candidates, Assertion)

\* The two ends of an accepted pair are two candidates.
LEMMA EndsDiffer ==
  ASSUME NEW candidates, NEW pairs, Evidence(candidates, pairs), Accepted(candidates, pairs), NEW p \in pairs
  PROVE  /\ p.left \in DOMAIN candidates /\ p.right \in DOMAIN candidates /\ p.left # p.right
         /\ p.left \in Int /\ p.right \in Int
<1>1. p.left \in DOMAIN candidates /\ p.right \in DOMAIN candidates /\ p.left # p.right
  BY DEF Accepted, Ends
<1> QED
  BY <1>1 DEF Evidence

\* A pair and the same with its ends called the other way are normalized to one,
\* and interact in one way.
LEMMA ExchangedIsTheSame ==
  ASSUME NEW p, p.left \in Int, p.right \in Int, p.left # p.right, NEW Assertion, NEW Name,
         p \in PairEvidence(Name, Assertion), NEW l, NEW r
  PROVE  /\ normalizePair(Exchanged(p)) = normalizePair(p)
         /\ classifyInteraction(Exchanged(p), r, l) = classifyInteraction(p, l, r)
         /\ Exchanged(p).left = p.right /\ Exchanged(p).right = p.left
<1> DEFINE q == Exchanged(p)
<1>1. /\ q.left = p.right /\ q.right = p.left /\ q.textualMerge = p.textualMerge
      /\ q.semanticEvidence = p.semanticEvidence /\ q.orderingEvidence = p.orderingEvidence
      /\ q.semanticConflict = p.semanticConflict
      /\ q.ordering = IF p.ordering = "left_after_right" THEN "right_after_left"
                      ELSE IF p.ordering = "right_after_left" THEN "left_after_right" ELSE p.ordering
  BY DEF Exchanged, PairEvidence
<1>2. Exchanged(q) = p
  BY DEF Exchanged, PairEvidence, Ordering
<1> HIDE DEF q
<1>3. normalizePair(q) = normalizePair(p)
  <2>1. (p.left < p.right /\ ~(p.right < p.left)) \/ (p.right < p.left /\ ~(p.left < p.right))
    OBVIOUS
  <2> QED
    BY <1>1, <1>2, <2>1 DEF normalizePair, q
<1>4. classifyInteraction(q, r, l) = classifyInteraction(p, l, r)
  <2>1. isDuplicateIdentity(r, l) = isDuplicateIdentity(l, r)
    BY DEF isDuplicateIdentity
  <2>2. Ordered(q) = Ordered(p) /\ (q.ordering = "independent" <=> p.ordering = "independent")
    BY <1>1 DEF Ordered
  <2>3. r.changes \cap l.changes = l.changes \cap r.changes
    OBVIOUS
  <2> QED
    BY <1>1, <2>1, <2>2, <2>3 DEF classifyInteraction
<1> QED
  BY <1>1, <1>3, <1>4 DEF q

\* A portfolio does not depend on which end of a pair is called left.
LEMMA InteractionsStay ==
  ASSUME NEW candidates, NEW pairs, Evidence(candidates, pairs), Accepted(candidates, pairs), NEW p \in pairs
  PROVE  Interactions(candidates, (pairs \ {p}) \cup {Exchanged(p)}) = Interactions(candidates, pairs)
<1> DEFINE of(q) == [pair |-> normalizePair(q),
                     classification |-> classifyInteraction(q, candidates[q.left], candidates[q.right])]
           other == (pairs \ {p}) \cup {Exchanged(p)}
<1>1. of(Exchanged(p)) = of(p)
  <2>1. PICK Assertion : p \in PairEvidence(DOMAIN candidates, Assertion)
    BY DEF Evidence
  <2>2. p.left \in Int /\ p.right \in Int /\ p.left # p.right
    BY EndsDiffer
  <2>3. /\ normalizePair(Exchanged(p)) = normalizePair(p)
        /\ classifyInteraction(Exchanged(p), candidates[p.right], candidates[p.left])
             = classifyInteraction(p, candidates[p.left], candidates[p.right])
        /\ Exchanged(p).left = p.right /\ Exchanged(p).right = p.left
    BY <2>1, <2>2, ExchangedIsTheSame
  <2> QED
    BY <2>3
<1>2. Interactions(candidates, pairs) = {of(q) : q \in pairs} /\ Interactions(candidates, other) = {of(q) : q \in other}
  BY DEF Interactions
<1> HIDE DEF of
<1>3. {of(q) : q \in other} = {of(q) : q \in pairs}
  BY <1>1
<1> QED
  BY <1>2, <1>3

\* How a pair interacts, and the interactions that concern a candidate.
InteractionOf(candidates, p) ==
  [pair |-> normalizePair(p),
   classification |-> classifyInteraction(p, candidates[p.left], candidates[p.right])]
Relevant(candidates, pairs, n) == {i \in Interactions(candidates, pairs) : n \in Ends(i.pair)}

\* The interaction of a pair concerns both of its ends.
LEMMA RelevantHas ==
  ASSUME NEW candidates, NEW pairs, Evidence(candidates, pairs), Accepted(candidates, pairs), NEW p \in pairs,
         NEW n \in Ends(p)
  PROVE  /\ InteractionOf(candidates, p) \in Relevant(candidates, pairs, n)
         /\ InteractionOf(candidates, p).classification \in Classes(Relevant(candidates, pairs, n))
<1> DEFINE i == InteractionOf(candidates, p)
<1>1. i \in Interactions(candidates, pairs)
  BY DEF Interactions, InteractionOf
<1>2. Ends(normalizePair(p)) = Ends(p)
  <2>1. PICK Assertion : p \in PairEvidence(DOMAIN candidates, Assertion)
    BY DEF Evidence
  <2>2. Exchanged(p).left = p.right /\ Exchanged(p).right = p.left
    BY <2>1 DEF Exchanged, PairEvidence
  <2> QED
    BY <2>2 DEF Ends, normalizePair
<1>3. n \in Ends(i.pair)
  BY <1>2 DEF InteractionOf
<1> QED
  BY <1>1, <1>3 DEF Relevant, Classes

\* Nothing is said against a candidate exactly where it is ready: the
\* recommendation and the reasons are computed apart.
LEMMA ReadyMeansNoReason ==
  ASSUME NEW name, NEW relevant, NEW c, NEW Tree, NEW Patch, NEW Assertion,
         c \in AnyCandidate(Tree, Patch, Assertion)
  PROVE  recommendationFor(name, c, relevant) = "merge_ready"
           <=> candidateReasons(name, c, relevant) = {"COMPLETE_DISJOINT_EVIDENCE"}
BY DEF recommendationFor, candidateReasons, Stale, AnyCandidate, TextualMerge, Completeness

\* What a portfolio says of a candidate.
LEMMA RecommendedIs ==
  ASSUME NEW candidates, NEW pairs, NEW n \in DOMAIN candidates
  PROVE  /\ Recommended(buildPortfolio(candidates, pairs), n)
              = recommendationFor(n, candidates[n], Relevant(candidates, pairs, n))
         /\ buildPortfolio(candidates, pairs).candidates[n].reasons
              = candidateReasons(n, candidates[n], Relevant(candidates, pairs, n))
BY DEF Recommended, buildPortfolio, Relevant

\* A conflict of a pair is one for both of its ends.
LEMMA ConflictStops ==
  ASSUME NEW candidates, NEW pairs, Evidence(candidates, pairs), Accepted(candidates, pairs), NEW p \in pairs,
         NEW n \in Ends(p), p.textualMerge = "conflict" \/ p.semanticConflict # {}
  PROVE  Recommended(buildPortfolio(candidates, pairs), n) = "conflict"
<1> DEFINE class == classifyInteraction(p, candidates[p.left], candidates[p.right])
<1>1. class \in {"textual_conflict", "semantic_conflict"}
  BY DEF classifyInteraction
<1>2. class \in Classes(Relevant(candidates, pairs, n))
  BY RelevantHas DEF InteractionOf
<1>3. n \in DOMAIN candidates
  BY EndsDiffer DEF Ends
<1> HIDE DEF class
<1>4. recommendationFor(n, candidates[n], Relevant(candidates, pairs, n)) = "conflict"
  BY <1>1, <1>2 DEF recommendationFor
<1> QED
  BY <1>3, <1>4, RecommendedIs

\* Of two candidates that are ready neither waits for the other or repeats it.
LEMMA ReadyIsApart ==
  ASSUME NEW candidates, NEW pairs, Evidence(candidates, pairs), Accepted(candidates, pairs), NEW p \in pairs,
         \A n \in Ends(p) : Recommended(buildPortfolio(candidates, pairs), n) = "merge_ready"
  PROVE  ~Ordered(p) /\ ~isDuplicateIdentity(candidates[p.left], candidates[p.right])
<1> DEFINE class == classifyInteraction(p, candidates[p.left], candidates[p.right])
           i == InteractionOf(candidates, p)
           for(n) == recommendationFor(n, candidates[n], Relevant(candidates, pairs, n))
<1>1. p.left \in DOMAIN candidates /\ p.right \in DOMAIN candidates /\ Ends(p) = {p.left, p.right}
  BY EndsDiffer DEF Ends
<1>2. for(p.left) = "merge_ready" /\ for(p.right) = "merge_ready"
  BY <1>1, RecommendedIs
<1>3. \A n \in Ends(p) : i \in Relevant(candidates, pairs, n) /\ class \in Classes(Relevant(candidates, pairs, n))
  BY RelevantHas DEF InteractionOf
<1> HIDE DEF class
<1>4. class \notin {"textual_conflict", "semantic_conflict", "duplicate"}
  BY <1>1, <1>2, <1>3 DEF recommendationFor
<1>5. ~isDuplicateIdentity(candidates[p.left], candidates[p.right])
  BY <1>4 DEF classifyInteraction, class
<1>6. ~waitsForCandidate(p.left, i) /\ ~waitsForCandidate(p.right, i)
  <2>1. i \in Relevant(candidates, pairs, p.left) /\ i \in Relevant(candidates, pairs, p.right)
    BY <1>1, <1>3
  <2> HIDE DEF i
  <2> QED
    BY <1>2, <2>1 DEF recommendationFor
<1>7. ~Ordered(p)
  <2>1. PICK Assertion : p \in PairEvidence(DOMAIN candidates, Assertion)
    BY DEF Evidence
  <2>2. /\ Exchanged(p).left = p.right /\ Exchanged(p).right = p.left
        /\ Ordered(p) => Exchanged(p).ordering \in {"left_after_right", "right_after_left"}
    BY <2>1 DEF Exchanged, PairEvidence, Ordered
  <2> QED
    BY <1>6, <2>2 DEF Ordered, waitsForCandidate, normalizePair, InteractionOf
<1> QED
  BY <1>5, <1>7

\* Whatever the branches, their evidence and the names they go by, a portfolio of
\* accepted evidence is sound (projectBranchPortfolio): it never calls ready one
\* half of a conflict, both of two branches that wait for or repeat each other,
\* or a branch that its own reasons object to, and does not depend on which end of
\* a pair is called left.
THEOREM PortfoliosAreSound ==
  ASSUME NEW candidates, NEW pairs, Evidence(candidates, pairs)
  PROVE  PortfolioIsSound(candidates, pairs)
<1> SUFFICES ASSUME Accepted(candidates, pairs) PROVE PortfolioIsSound(candidates, pairs)
  BY DEF PortfolioIsSound
<1> DEFINE portfolio == buildPortfolio(candidates, pairs)
<1>1. ASSUME NEW p \in pairs
      PROVE  buildPortfolio(candidates, (pairs \ {p}) \cup {Exchanged(p)}) = portfolio
  <2>1. Interactions(candidates, (pairs \ {p}) \cup {Exchanged(p)}) = Interactions(candidates, pairs)
    BY InteractionsStay
  <2> QED
    BY <2>1 DEF buildPortfolio
<1>2. ASSUME NEW p \in pairs, NEW n \in Ends(p), p.textualMerge = "conflict" \/ p.semanticConflict # {}
      PROVE  Recommended(portfolio, n) = "conflict"
  BY <1>2, ConflictStops
<1>3. ASSUME NEW p \in pairs, \A n \in Ends(p) : Recommended(portfolio, n) = "merge_ready"
      PROVE  ~Ordered(p) /\ ~isDuplicateIdentity(candidates[p.left], candidates[p.right])
  BY <1>3, ReadyIsApart
<1>4. ASSUME NEW n \in DOMAIN candidates
      PROVE  Recommended(portfolio, n) = "merge_ready"
               <=> portfolio.candidates[n].reasons = {"COMPLETE_DISJOINT_EVIDENCE"}
  <2>1. PICK Tree, Patch, Assertion : candidates[n] \in AnyCandidate(Tree, Patch, Assertion)
    BY DEF Evidence
  <2> QED
    BY <2>1, RecommendedIs, ReadyMeansNoReason
<1> HIDE DEF portfolio
<1> QED
  BY <1>1, <1>2, <1>3, <1>4 DEF PortfolioIsSound, portfolio

-----------------------------------------------------------------------------
(* BranchPortfolio: the evidence that is assembled.                        *)

\* An assertion that a branch removes is not one it modifies as well, and what it
\* finds in conflict is among its changes (mapAssertionChanges).
LEMMA ChangesAreOfOneKind ==
  ASSUME NEW git, NEW bundle, NEW base
  PROVE  LET state == CandidateState(git, bundle, base) IN
         /\ state.evidence.baseSemanticConflict \subseteq state.evidence.changes
         /\ \A a : [assertion |-> a, kind |-> "modified"] \in state.kinds =>
              a \in state.evidence.changes /\ ~Removes(state, a)
         /\ \A a : Removes(state, a) => a \in state.evidence.changes
<1> DEFINE changes == mapAssertionChanges(base.map, bundle.map, bundle.afterToBefore)
           state == CandidateState(git, bundle, base)
<1>1. /\ state.kinds = changes /\ state.evidence.changes = {c.assertion : c \in changes}
      /\ state.evidence.baseSemanticConflict = changedConflicts(changes, bundle.map, bundle.afterToBefore)
  BY DEF CandidateState
<1>2. ASSUME NEW a, [assertion |-> a, kind |-> "modified"] \in changes
      PROVE  [assertion |-> a, kind |-> "removed"] \notin changes
  <2>1. Mapped(a, bundle.map, bundle.afterToBefore) # {}
    BY <1>2 DEF mapAssertionChanges
  <2> QED
    BY <2>1 DEF mapAssertionChanges
<1> HIDE DEF changes, state
<1>3. \A a, k : [assertion |-> a, kind |-> k] \in changes => a \in {c.assertion : c \in changes}
  <2> SUFFICES ASSUME NEW a, NEW k, [assertion |-> a, kind |-> k] \in changes
               PROVE  \E c \in changes : a = c.assertion
    OBVIOUS
  <2>1. [assertion |-> a, kind |-> k].assertion = a
    OBVIOUS
  <2> QED
    BY <2>1
<1>4. changedConflicts(changes, bundle.map, bundle.afterToBefore) \subseteq {c.assertion : c \in changes}
  BY DEF changedConflicts
<1> QED
  BY <1>1, <1>2, <1>3, <1>4 DEF Removes, state

\* Whatever two branches, trees and truth maps there are, the evidence that is
\* assembled of them is one that the projection accepts, unless one patch comes
\* with a conflict, and an assertion that one branch removes and the other changes
\* stops both (assembleBranchPortfolio).
THEOREM AssembliesAreAccepted ==
  ASSUME NEW git, NEW bundles, NEW base, NEW textualMerge
  PROVE  AssemblyIsAccepted(git, bundles, base, textualMerge)
<1> DEFINE state == [n \in 1 .. 2 |-> CandidateState(git[n], bundles[n], base)]
           candidates == [n \in 1 .. 2 |-> state[n].evidence]
           pair == buildPairEvidence(1, 2, textualMerge, state[1], state[2])
           portfolio == buildPortfolio(candidates, {pair})
<1>1. /\ 1 \in 1 .. 2 /\ 2 \in 1 .. 2 /\ (\A n \in 1 .. 2 : n = 1 \/ n = 2) /\ 1 < 2
      /\ DOMAIN candidates = 1 .. 2 /\ \A n \in 1 .. 2 : candidates[n] = state[n].evidence
  OBVIOUS
<1>2. \A n \in 1 .. 2 :
        /\ state[n].evidence.baseSemanticConflict \subseteq state[n].evidence.changes
        /\ \A a : [assertion |-> a, kind |-> "modified"] \in state[n].kinds =>
             a \in state[n].evidence.changes /\ ~Removes(state[n], a)
        /\ \A a : Removes(state[n], a) => a \in state[n].evidence.changes
  BY ChangesAreOfOneKind
<1> HIDE DEF state
<1>3. /\ pair.left = 1 /\ pair.right = 2 /\ pair.textualMerge = textualMerge
      /\ pair.orderingEvidence = FALSE /\ ~Ordered(pair)
      /\ pair.semanticConflict \subseteq state[1].evidence.changes \cap state[2].evidence.changes
      /\ \A a \in state[1].evidence.changes \cap state[2].evidence.changes :
           Removes(state[1], a) # Removes(state[2], a) => a \in pair.semanticConflict
  BY DEF buildPairEvidence, Ordered
<1> HIDE DEF pair, candidates
<1>4. Accepted(candidates, {pair}) <=>
        ~(isDuplicateIdentity(candidates[1], candidates[2])
          /\ (textualMerge = "conflict" \/ pair.semanticConflict # {}))
  <2>1. Ends(pair) = {1, 2} /\ pair.left # pair.right
    BY <1>1, <1>3 DEF Ends
  <2>2. \A m, n \in DOMAIN candidates : m # n => Ends(pair) = {m, n}
    BY <1>1, <2>1
  <2>3. /\ DOMAIN candidates # {} /\ Ends(pair) \subseteq DOMAIN candidates
        /\ \A n \in DOMAIN candidates : candidates[n].baseSemanticConflict \subseteq candidates[n].changes
    BY <1>1, <1>2, <2>1
  <2>4. pair.semanticConflict \subseteq candidates[1].changes \cap candidates[2].changes
    BY <1>1, <1>3
  <2> QED
    BY <1>3, <2>1, <2>2, <2>3, <2>4 DEF Accepted
<1>5. ASSUME NEW a, Removes(state[1], a), [assertion |-> a, kind |-> "modified"] \in state[2].kinds,
             NEW n \in 1 .. 2
      PROVE  Recommended(portfolio, n) = "conflict"
  <2>1. a \in pair.semanticConflict
    BY <1>1, <1>2, <1>3, <1>5
  <2> DEFINE i == InteractionOf(candidates, pair)
  <2>2. i.classification = "semantic_conflict" /\ i.pair = pair
    BY <1>1, <1>3, <2>1 DEF InteractionOf, classifyInteraction, normalizePair
  <2>3. i \in Interactions(candidates, {pair})
    BY DEF Interactions, InteractionOf
  <2>4. n \in Ends(i.pair)
    BY <1>1, <1>3, <2>2 DEF Ends
  <2> HIDE DEF i
  <2>5. "semantic_conflict" \in Classes(Relevant(candidates, {pair}, n))
    BY <2>2, <2>3, <2>4 DEF Relevant, Classes
  <2>6. recommendationFor(n, candidates[n], Relevant(candidates, {pair}, n)) = "conflict"
    BY <2>5 DEF recommendationFor
  <2> QED
    BY <1>1, <2>6, RecommendedIs
<1> HIDE DEF portfolio
<1> QED
  BY <1>4, <1>5 DEF AssemblyIsAccepted, portfolio, pair, candidates, state

-----------------------------------------------------------------------------
(* CapabilityComparison: when two capabilities are interchangeable.        *)

\* The sides of a pair, exchanged, have one verdict (classifyCapabilityCompatibility).
LEMMA VerdictIsSymmetric ==
  ASSUME NEW l, NEW r
  PROVE  classifyCapabilityCompatibility(l, r) = classifyCapabilityCompatibility(r, l)
<1>1. effectsAreCompatible(l.contract, r.contract) = effectsAreCompatible(r.contract, l.contract)
  BY DEF effectsAreCompatible
<1>2. platformsAreCompatible(l.contract, r.contract) = platformsAreCompatible(r.contract, l.contract)
  BY DEF platformsAreCompatible
<1>3. behaviorMatches(l.contract, r.contract) = behaviorMatches(r.contract, l.contract)
  BY DEF behaviorMatches
<1>4. classifyNonStructuralState(l, r) = classifyNonStructuralState(r, l)
  <2>1. {l.state, r.state} = {r.state, l.state} /\ {l.grade, r.grade} = {r.grade, l.grade}
    OBVIOUS
  <2> QED
    BY <2>1 DEF classifyNonStructuralState
<1> QED
  BY <1>1, <1>2, <1>3, <1>4 DEF classifyCapabilityCompatibility

\* The gap that a verdict opens, of the side that is short of proof.
GapOf(c, l, r) ==
  LET target == IF r.grade = "runtime_verified_code" THEN l ELSE r IN
  [kind |-> COMPATIBILITY_TO_GAP_KIND[classifyCapabilityCompatibility(l, r)], capability |-> c,
   target |-> target.repository, grade |-> target.grade]
Opens(l, r) == classifyCapabilityCompatibility(l, r) \in DOMAIN COMPATIBILITY_TO_GAP_KIND
GapsOf(c, l, r) == IF Opens(l, r) THEN {GapOf(c, l, r)} ELSE {}

\* What a comparison is.
LEMMA VerdictIs ==
  ASSUME NEW c, NEW l, NEW r
  PROVE  compareCapabilityPair(c, l, r) =
           [capability |-> c, compatibility |-> classifyCapabilityCompatibility(l, r),
            interchangeable |-> classifyCapabilityCompatibility(l, r) = "compatible_verified",
            preserved |-> l.divergent \/ r.divergent, gaps |-> GapsOf(c, l, r)]
BY Zenon DEF compareCapabilityPair, GapsOf, GapOf, Opens

\* Its gaps: one, if any, of the kind its verdict has.
LEMMA GapsAre ==
  ASSUME NEW c, NEW l, NEW r
  PROVE  /\ GapsOf(c, l, r) = {} <=> ~Opens(l, r)
         /\ \A g \in GapsOf(c, l, r) : g.grade = IF r.grade = "runtime_verified_code" THEN l.grade ELSE r.grade
         /\ {g.kind : g \in GapsOf(c, l, r)} =
              IF Opens(l, r) THEN {COMPATIBILITY_TO_GAP_KIND[classifyCapabilityCompatibility(l, r)]} ELSE {}
<1>1. /\ GapOf(c, l, r).kind = COMPATIBILITY_TO_GAP_KIND[classifyCapabilityCompatibility(l, r)]
      /\ GapOf(c, l, r).grade = IF r.grade = "runtime_verified_code" THEN l.grade ELSE r.grade
  BY DEF GapOf
<1> QED
  BY <1>1 DEF GapsOf

\* What is compared of two comparisons when their bundles are exchanged.
Short(p) == [p EXCEPT !.gaps = {g.kind : g \in @}]

\* It leaves the fields of a comparison but the gaps, of which it takes the kinds.
LEMMA ShortIs ==
  ASSUME NEW c, NEW v, NEW i, NEW d, NEW gaps
  PROVE  Short([capability |-> c, compatibility |-> v, interchangeable |-> i, preserved |-> d, gaps |-> gaps])
           = [capability |-> c, compatibility |-> v, interchangeable |-> i, preserved |-> d,
              gaps |-> {g.kind : g \in gaps}]
BY DEF Short

\* So much is left of a comparison of two sides.
LEMMA ShortOf ==
  ASSUME NEW c, NEW l, NEW r
  PROVE  Short(compareCapabilityPair(c, l, r)) =
           [capability |-> c, compatibility |-> classifyCapabilityCompatibility(l, r),
            interchangeable |-> classifyCapabilityCompatibility(l, r) = "compatible_verified",
            preserved |-> l.divergent \/ r.divergent, gaps |-> {g.kind : g \in GapsOf(c, l, r)}]
<1> DEFINE v == classifyCapabilityCompatibility(l, r)
           i == v = "compatible_verified"
           d == l.divergent \/ r.divergent
           gaps == GapsOf(c, l, r)
<1>1. compareCapabilityPair(c, l, r) =
        [capability |-> c, compatibility |-> v, interchangeable |-> i, preserved |-> d, gaps |-> gaps]
  BY VerdictIs, Zenon
<1> HIDE DEF v, i, d, gaps
<1>2. Short(compareCapabilityPair(c, l, r)) =
        [capability |-> c, compatibility |-> v, interchangeable |-> i, preserved |-> d,
         gaps |-> {g.kind : g \in gaps}]
  BY <1>1, ShortIs
<1> QED
  BY <1>2, Zenon DEF v, i, d, gaps

\* Exchanged sides have the same comparison, but for the side the gap is laid to.
LEMMA ShortIsSymmetric ==
  ASSUME NEW c, NEW l, NEW r
  PROVE  Short(compareCapabilityPair(c, l, r)) = Short(compareCapabilityPair(c, r, l))
<1> DEFINE v == classifyCapabilityCompatibility(l, r)
           w == classifyCapabilityCompatibility(r, l)
<1>1. w = v
  BY VerdictIsSymmetric
<1>2. {g.kind : g \in GapsOf(c, r, l)} = {g.kind : g \in GapsOf(c, l, r)}
  <2>1. {g.kind : g \in GapsOf(c, l, r)} = IF v \in DOMAIN COMPATIBILITY_TO_GAP_KIND THEN {COMPATIBILITY_TO_GAP_KIND[v]} ELSE {}
    BY GapsAre DEF Opens
  <2>2. {g.kind : g \in GapsOf(c, r, l)} = IF w \in DOMAIN COMPATIBILITY_TO_GAP_KIND THEN {COMPATIBILITY_TO_GAP_KIND[w]} ELSE {}
    BY GapsAre DEF Opens
  <2> QED
    BY <1>1, <2>1, <2>2, Zenon
<1>3. (r.divergent \/ l.divergent) = (l.divergent \/ r.divergent)
  OBVIOUS
<1>4. Short(compareCapabilityPair(c, l, r)) =
        [capability |-> c, compatibility |-> v, interchangeable |-> v = "compatible_verified",
         preserved |-> l.divergent \/ r.divergent, gaps |-> {g.kind : g \in GapsOf(c, l, r)}]
  BY ShortOf, Zenon
<1>5. Short(compareCapabilityPair(c, r, l)) =
        [capability |-> c, compatibility |-> w, interchangeable |-> w = "compatible_verified",
         preserved |-> r.divergent \/ l.divergent, gaps |-> {g.kind : g \in GapsOf(c, r, l)}]
  BY ShortOf, Zenon
<1> QED
  BY <1>1, <1>2, <1>3, <1>4, <1>5, Zenon

\* A side with a verified grade has code or a bound contract behind it, and nothing
\* missing or stale (extractSingleCapabilitySide).
LEMMA VerifiedSide ==
  ASSUME NEW b, NEW c, side(b, c).grade = "runtime_verified_code"
  PROVE  /\ b.runtimeVerified /\ b.extractionComplete /\ b.expectedSourceHash = b.sourceHash
         /\ \A r \in RowsOf(b, c) : r.binding \notin {"stale", "missing"}
         /\ \/ \E r \in b.records : r.capability = c /\ r.source \in {"git", "ast"}
            \/ \E r \in RowsOf(b, c) : r.binding = "verified"
         /\ side(b, c).state = "observed" /\ ~side(b, c).missing /\ ~side(b, c).stale
         /\ \A r \in RowsOf(b, c) : /\ r.effects \subseteq side(b, c).contract.effects
                                    /\ r.forbidden \subseteq side(b, c).contract.forbidden
<1>1. side(b, c) = extractSide(b, c)
  BY DEF side, unknownSide
<1> DEFINE records == {r \in b.records : r.capability = c}
           rows == {r \in b.rows : r.capability = c}
           bound(status) == \E r \in rows : r.binding = status
           evidence ==
             [missing |-> ~b.extractionComplete \/ bound("missing"),
              stale |-> b.expectedSourceHash # b.sourceHash \/ bound("stale"),
              code |-> \/ \E r \in records : r.source \in Observed /\ ~isConfigurationRecord(r)
                       \/ \E r \in rows : r.basis # "inferred" /\ r.binding = "verified",
              config |-> \E r \in records : isConfigurationRecord(r),
              declared |-> \/ \E r \in records : r.source \in Declared
                           \/ \E r \in rows : r.basis = "declared",
              verified |-> b.runtimeVerified]
<1>2. /\ extractSide(b, c).grade = resolveGrade(evidence) /\ extractSide(b, c).state = resolveState(evidence)
      /\ extractSide(b, c).missing = evidence.missing /\ extractSide(b, c).stale = evidence.stale
      /\ extractSide(b, c).contract = buildCapabilityContract(records \cup rows, records, b.platform)
  BY DEF extractSide
<1>3. ~evidence.missing /\ ~evidence.stale /\ evidence.code /\ evidence.verified
  <2> HIDE DEF evidence
  <2> QED
    BY <1>1, <1>2 DEF resolveGrade
<1>4. extractSide(b, c).state = "observed"
  <2> HIDE DEF evidence
  <2> QED
    BY <1>2, <1>3 DEF resolveState
<1>5. \A r \in rows : /\ r.effects \subseteq extractSide(b, c).contract.effects
                      /\ r.forbidden \subseteq extractSide(b, c).contract.forbidden
  <2>1. /\ extractSide(b, c).contract.effects = UNION {p.effects : p \in records \cup rows}
        /\ extractSide(b, c).contract.forbidden = UNION {p.forbidden : p \in records \cup rows}
    BY <1>2 DEF buildCapabilityContract, collectContractField
  <2> QED
    BY <2>1
<1> QED
  BY <1>1, <1>2, <1>3, <1>4, <1>5 DEF RowsOf, Observed, isConfigurationRecord

\* Whatever two bundles hold, equivalence is earned (compareCapabilityEvidenceBundles).
THEOREM EquivalenceIsAlwaysEarned ==
  ASSUME NEW left, NEW right PROVE EquivalenceIsEarned(left, right)
<1> DEFINE verdict(c) == classifyCapabilityCompatibility(side(left, c), side(right, c))
           all == Capabilities(left) \cup Capabilities(right)
           of(c) == compareCapabilityPair(c, side(left, c), side(right, c))
           back(c) == compareCapabilityPair(c, side(right, c), side(left, c))
<1>1. comparePairs(left, right) = {of(c) : c \in all} /\ comparePairs(right, left) = {back(c) : c \in all}
  BY DEF comparePairs
<1>2. \A c : Short(of(c)) = Short(back(c))
  BY ShortIsSymmetric
<1>3. {Short(p) : p \in comparePairs(left, right)} = {Short(p) : p \in comparePairs(right, left)}
  <2> HIDE DEF of, back, all
  <2> QED
    BY <1>1, <1>2
<1>4. ASSUME NEW c
      PROVE  LET p == of(c) IN
             /\ p.interchangeable =>
                  /\ \A b \in {left, right} :
                       /\ b.runtimeVerified /\ b.extractionComplete /\ b.expectedSourceHash = b.sourceHash
                       /\ \A r \in RowsOf(b, p.capability) : r.binding \notin {"stale", "missing"}
                       /\ \/ \E r \in b.records : r.capability = p.capability /\ r.source \in {"git", "ast"}
                          \/ \E r \in RowsOf(b, p.capability) : r.binding = "verified"
                  /\ \A r \in RowsOf(left, p.capability), s \in RowsOf(right, p.capability) :
                       r.effects \cap s.forbidden = {} /\ s.effects \cap r.forbidden = {}
             /\ p.gaps = {} <=> p.interchangeable \/ p.preserved \/ p.compatibility = "unknown"
             /\ \A g \in p.gaps : g.grade = "runtime_verified_code" =>
                  p.compatibility \in {"behavior_mismatch", "effect_or_platform_mismatch"}
  <2> DEFINE l == side(left, c)
             r == side(right, c)
             p == of(c)
             v == classifyCapabilityCompatibility(l, r)
  <2> HIDE DEF l, r
  <2>1. /\ p.capability = c /\ p.compatibility = v /\ (p.interchangeable <=> v = "compatible_verified")
        /\ (p.preserved <=> l.divergent \/ r.divergent)
        /\ p.gaps = {} <=> v \notin DOMAIN COMPATIBILITY_TO_GAP_KIND
        /\ \A g \in p.gaps : g.grade = IF r.grade = "runtime_verified_code" THEN l.grade ELSE r.grade
    <3>1. p = [capability |-> c, compatibility |-> v, interchangeable |-> v = "compatible_verified",
               preserved |-> l.divergent \/ r.divergent, gaps |-> GapsOf(c, l, r)]
      BY VerdictIs DEF l, r
    <3> HIDE DEF p, v
    <3>2. p.gaps = GapsOf(c, l, r)
      BY <3>1
    <3>3. /\ p.capability = c /\ p.compatibility = v /\ (p.interchangeable <=> v = "compatible_verified")
          /\ (p.preserved <=> l.divergent \/ r.divergent)
      BY <3>1
    <3> QED
      BY <3>2, <3>3, GapsAre DEF v, Opens
  <2>2. v = "compatible_verified" => /\ l.grade = "runtime_verified_code" /\ r.grade = "runtime_verified_code"
                                     /\ effectsAreCompatible(l.contract, r.contract)
    BY DEF classifyCapabilityCompatibility, classifyNonStructuralState
  <2>3. v \in {"intentional_divergence", "unknown", "compatible_verified"} <=>
          v \notin DOMAIN COMPATIBILITY_TO_GAP_KIND
    BY DEF classifyCapabilityCompatibility, classifyNonStructuralState, COMPATIBILITY_TO_GAP_KIND
  <2>4. v = "intentional_divergence" <=> l.divergent \/ r.divergent
    BY DEF classifyCapabilityCompatibility, classifyNonStructuralState
  <2>5. l.grade = "runtime_verified_code" /\ r.grade = "runtime_verified_code" =>
          v \in {"intentional_divergence", "behavior_mismatch", "effect_or_platform_mismatch", "compatible_verified"}
    <3>1. l.grade = "runtime_verified_code" => l.state = "observed" /\ ~l.missing /\ ~l.stale
      BY VerifiedSide DEF l
    <3>2. r.grade = "runtime_verified_code" => r.state = "observed" /\ ~r.missing /\ ~r.stale
      BY VerifiedSide DEF r
    <3> QED
      BY <3>1, <3>2 DEF classifyCapabilityCompatibility, classifyNonStructuralState
  <2>6. \A b \in {left, right} : v = "compatible_verified" => side(b, c).grade = "runtime_verified_code"
    BY <2>2 DEF l, r
  <2>7. v = "compatible_verified" =>
          \A q \in RowsOf(left, c), s \in RowsOf(right, c) : q.effects \cap s.forbidden = {} /\ s.effects \cap q.forbidden = {}
    <3>1. v = "compatible_verified" =>
            /\ l.contract.effects \cap r.contract.forbidden = {} /\ r.contract.effects \cap l.contract.forbidden = {}
      BY <2>2 DEF effectsAreCompatible
    <3>2. v = "compatible_verified" =>
            /\ \A q \in RowsOf(left, c) : q.effects \subseteq l.contract.effects /\ q.forbidden \subseteq l.contract.forbidden
            /\ \A q \in RowsOf(right, c) : q.effects \subseteq r.contract.effects /\ q.forbidden \subseteq r.contract.forbidden
      BY <2>2, VerifiedSide DEF l, r
    <3> HIDE DEF v
    <3> QED
      BY <3>1, <3>2
  <2>8. v = "compatible_verified" =>
          \A b \in {left, right} :
            /\ b.runtimeVerified /\ b.extractionComplete /\ b.expectedSourceHash = b.sourceHash
            /\ \A q \in RowsOf(b, c) : q.binding \notin {"stale", "missing"}
            /\ \/ \E q \in b.records : q.capability = c /\ q.source \in {"git", "ast"}
               \/ \E q \in RowsOf(b, c) : q.binding = "verified"
    BY <2>6, VerifiedSide
  <2> HIDE DEF v, p
  <2>9. /\ p.gaps = {} <=> p.interchangeable \/ p.preserved \/ p.compatibility = "unknown"
        /\ \A g \in p.gaps : g.grade = "runtime_verified_code" =>
             p.compatibility \in {"behavior_mismatch", "effect_or_platform_mismatch"}
    BY <2>1, <2>3, <2>4, <2>5
  <2> QED
    BY <2>1, <2>7, <2>8, <2>9 DEF p
<1> HIDE DEF of, back, all
<1> QED
  BY <1>1, <1>3, <1>4 DEF EquivalenceIsEarned, Short

-----------------------------------------------------------------------------
(* Sorting: a rank for each element.                                       *)

\* R orders the elements of S, one before the other.
StrictOrder(S, R) ==
  /\ \A x \in S : <<x, x>> \notin R
  /\ \A x, y \in S : x # y => <<x, y>> \in R \/ <<y, x>> \in R
  /\ \A x, y, z \in S : <<x, y>> \in R /\ <<y, z>> \in R => <<x, z>> \in R

\* How many of S come before x, and a sequence of all of S in their order.
RankIn(S, R, x) == Cardinality({y \in S : <<y, x>> \in R})
Sorted(S, R, s) ==
  /\ \A n \in 1 .. Cardinality(S) : s[n] \in S
  /\ \A m, n \in 1 .. Cardinality(S) : m < n => <<s[m], s[n]>> \in R /\ s[m] # s[n]
  /\ \A x \in S : \E n \in 1 .. Cardinality(S) : s[n] = x

\* Who comes later has more before them, and every place is taken.
LEMMA RanksAreFilled ==
  ASSUME NEW S, IsFiniteSet(S), NEW R, StrictOrder(S, R)
  PROVE  /\ \A x, y \in S : <<x, y>> \in R => RankIn(S, R, x) < RankIn(S, R, y)
         /\ \A x \in S : RankIn(S, R, x) \in 0 .. Cardinality(S) - 1
         /\ \A n \in 1 .. Cardinality(S) : \E x \in S : RankIn(S, R, x) = n - 1
<1> DEFINE before(x) == {y \in S : <<y, x>> \in R}
<1>1. Cardinality(S) \in Nat /\ \A x \in S : before(x) \in SUBSET S /\ IsFiniteSet(before(x)) /\ Cardinality(before(x)) \in Nat
  BY FS_CardinalityType, FS_Subset
<1>2. ASSUME NEW x \in S, NEW T \in SUBSET S, before(x) \subseteq T, x \in T
      PROVE  Cardinality(before(x)) < Cardinality(T)
  <2>1. IsFiniteSet(T) /\ Cardinality(T) \in Nat
    BY FS_CardinalityType, FS_Subset
  <2>2. x \notin before(x)
    BY DEF StrictOrder
  <2>3. before(x) \in SUBSET T /\ before(x) # T
    BY <1>2, <2>2
  <2>4. Cardinality(before(x)) <= Cardinality(T) /\ (Cardinality(T) = Cardinality(before(x)) => T = before(x))
    <3> HIDE DEF before
    <3> QED
      BY <2>1, <2>3, FS_Subset
  <2> QED
    BY <1>1, <2>1, <2>3, <2>4
<1>3. ASSUME NEW x \in S, NEW y \in S, <<x, y>> \in R PROVE Cardinality(before(x)) < Cardinality(before(y))
  <2>1. before(x) \subseteq before(y) /\ x \in before(y)
    BY <1>3 DEF StrictOrder
  <2> QED
    BY <1>1, <1>2, <2>1
<1>4. \A x \in S : Cardinality(before(x)) \in 0 .. Cardinality(S) - 1
  <2> SUFFICES ASSUME NEW x \in S PROVE Cardinality(before(x)) \in 0 .. Cardinality(S) - 1
    OBVIOUS
  <2>1. Cardinality(before(x)) < Cardinality(S)
    BY <1>1, <1>2
  <2> QED
    BY <1>1, <2>1
<1> DEFINE rank == [x \in S |-> Cardinality(before(x))]
<1>5. ASSUME NEW n \in 1 .. Cardinality(S) PROVE \E x \in S : Cardinality(before(x)) = n - 1
  <2>1. rank \in Injection(S, 0 .. Cardinality(S) - 1)
    <3>1. \A x, y \in S : x # y => Cardinality(before(x)) # Cardinality(before(y))
      <4> SUFFICES ASSUME NEW x \in S, NEW y \in S, x # y PROVE Cardinality(before(x)) # Cardinality(before(y))
        OBVIOUS
      <4>1. <<x, y>> \in R \/ <<y, x>> \in R
        BY DEF StrictOrder
      <4> HIDE DEF before
      <4> QED
        BY <1>1, <1>3, <4>1
    <3> HIDE DEF before
    <3> QED
      BY <1>4, <3>1 DEF Injection, IsInjective
  <2>2. IsFiniteSet(0 .. Cardinality(S) - 1) /\ Cardinality(0 .. Cardinality(S) - 1) = Cardinality(S)
    <3>1. /\ IsFiniteSet(0 .. Cardinality(S) - 1)
          /\ Cardinality(0 .. Cardinality(S) - 1) =
               IF 0 > Cardinality(S) - 1 THEN 0 ELSE (Cardinality(S) - 1) - 0 + 1
      <4>1. 0 \in Int /\ Cardinality(S) - 1 \in Int
        BY <1>1
      <4> QED
        BY <4>1, FS_Interval
    <3> QED
      BY <1>1, <3>1
  <2>3. rank \in Surjection(S, 0 .. Cardinality(S) - 1)
    <3> HIDE DEF rank
    <3> QED
      BY <2>1, <2>2, FS_Injection
  <2>4. n - 1 \in 0 .. Cardinality(S) - 1
    BY <1>1
  <2> HIDE DEF before
  <2> QED
    BY <2>3, <2>4 DEF Surjection
<1> QED
  BY <1>3, <1>4, <1>5 DEF RankIn

\* What has at each place the element with so many before it is in order.
LEMMA RankedIsSorted ==
  ASSUME NEW S, IsFiniteSet(S), NEW R, StrictOrder(S, R), NEW s,
         \A n \in 1 .. Cardinality(S) :
           (\E x \in S : RankIn(S, R, x) = n - 1) => s[n] \in S /\ RankIn(S, R, s[n]) = n - 1
  PROVE  Sorted(S, R, s)
<1>1. Cardinality(S) \in Nat
  BY FS_CardinalityType
<1>2. /\ \A x, y \in S : <<x, y>> \in R => RankIn(S, R, x) < RankIn(S, R, y)
      /\ \A x \in S : RankIn(S, R, x) \in 0 .. Cardinality(S) - 1
      /\ \A n \in 1 .. Cardinality(S) : s[n] \in S /\ RankIn(S, R, s[n]) = n - 1
  BY RanksAreFilled
<1>3. ASSUME NEW m \in 1 .. Cardinality(S), NEW n \in 1 .. Cardinality(S), m < n
      PROVE  <<s[m], s[n]>> \in R /\ s[m] # s[n]
  <2>1. s[m] \in S /\ s[n] \in S /\ RankIn(S, R, s[m]) < RankIn(S, R, s[n])
    BY <1>1, <1>2, <1>3
  <2>2. s[m] # s[n] /\ <<s[n], s[m]>> \notin R
    BY <1>2, <2>1
  <2> QED
    BY <2>1, <2>2 DEF StrictOrder
<1>4. ASSUME NEW x \in S PROVE \E n \in 1 .. Cardinality(S) : s[n] = x
  <2> DEFINE n == RankIn(S, R, x) + 1
  <2>1. n \in 1 .. Cardinality(S) /\ n - 1 = RankIn(S, R, x)
    BY <1>1, <1>2
  <2>2. s[n] \in S /\ RankIn(S, R, s[n]) = RankIn(S, R, x) /\ RankIn(S, R, x) \in Int
    BY <1>2, <2>1
  <2>3. <<s[n], x>> \notin R /\ <<x, s[n]>> \notin R
    <3>1. \A a, b \in S : RankIn(S, R, a) = RankIn(S, R, b) /\ RankIn(S, R, b) \in Int => <<a, b>> \notin R
      BY <1>2
    <3> QED
      BY <2>2, <3>1
  <2>4. s[n] = x
    BY <2>2, <2>3 DEF StrictOrder
  <2> QED
    BY <2>1, <2>4
<1> QED
  BY <1>2, <1>3, <1>4 DEF Sorted

-----------------------------------------------------------------------------
(* BranchSnapshot: the state that is read.                                 *)

\* Refs as the sort of branch-snapshot.ts compares them: a name is known by its code.
Named(refs) == \A r, s \in refs : r.code \in Int /\ (r.code = s.code => r = s)

\* A snapshot is asked of finitely many refs, and reads each of them twice.
AskedRefs(options) == {options.baseRef} \cup Range(options.candidateRefs)
SnapshotInput(options, moments) ==
  /\ options.candidateRefs \in Seq(AskedRefs(options)) /\ Named(AskedRefs(options))
  /\ DOMAIN moments = 1 .. 2 * Cardinality(AskedRefs(options))
  /\ \A n \in DOMAIN moments : AskedRefs(options) \subseteq DOMAIN moments[n]

\* The refs in order, each at one place.
LEMMA RefsAreSorted ==
  ASSUME NEW refs, IsFiniteSet(refs), Named(refs)
  PROVE  /\ Cardinality(refs) \in Nat /\ DOMAIN InOrder(refs) = 1 .. Cardinality(refs)
         /\ \A n \in 1 .. Cardinality(refs) : InOrder(refs)[n] \in refs
         /\ \A m, n \in 1 .. Cardinality(refs) : m < n =>
              /\ ByCode(InOrder(refs)[m], InOrder(refs)[n])
              /\ InOrder(refs)[m] # InOrder(refs)[n]
         /\ \A r \in refs : \E n \in 1 .. Cardinality(refs) : InOrder(refs)[n] = r
<1> DEFINE R == {p \in refs \X refs : ByCode(p[1], p[2])}
           s == InOrder(refs)
<1>1. StrictOrder(refs, R)
  BY DEF StrictOrder, Named, ByCode
<1>2. \A r \in refs : Cardinality({q \in refs : ByCode(q, r)}) = RankIn(refs, R, r)
  <2> SUFFICES ASSUME NEW r \in refs PROVE Cardinality({q \in refs : ByCode(q, r)}) = RankIn(refs, R, r)
    OBVIOUS
  <2>1. {q \in refs : ByCode(q, r)} = {q \in refs : <<q, r>> \in R}
    OBVIOUS
  <2> QED
    BY <2>1 DEF RankIn
<1>3. /\ DOMAIN s = 1 .. Cardinality(refs)
      /\ \A n \in 1 .. Cardinality(refs) : s[n] = CHOOSE r \in refs : Cardinality({q \in refs : ByCode(q, r)}) = n - 1
  <2>1. s = [n \in 1 .. Cardinality(refs) |-> CHOOSE r \in refs : Cardinality({q \in refs : ByCode(q, r)}) = n - 1]
    BY DEF InOrder
  <2> HIDE DEF s
  <2> QED
    BY <2>1, Zenon
<1> HIDE DEF R, s
<1>4. ASSUME NEW n \in 1 .. Cardinality(refs), \E r \in refs : RankIn(refs, R, r) = n - 1
      PROVE  s[n] \in refs /\ RankIn(refs, R, s[n]) = n - 1
  <2>1. \E r \in refs : Cardinality({q \in refs : ByCode(q, r)}) = n - 1
    BY <1>2, <1>4
  <2>2. s[n] \in refs /\ Cardinality({q \in refs : ByCode(q, s[n])}) = n - 1
    BY <1>3, <2>1
  <2> QED
    BY <1>2, <2>2
<1>5. Sorted(refs, R, s)
  BY <1>1, <1>4, RankedIsSorted
<1>6. \A p, q : <<p, q>> \in R => ByCode(p, q)
  BY DEF R
<1> QED
  BY <1>3, <1>5, <1>6, FS_CardinalityType DEF Sorted, s

\* The refs of a snapshot are finitely many.
LEMMA FinitelyAsked ==
  ASSUME NEW options, NEW moments, SnapshotInput(options, moments)
  PROVE  /\ IsFiniteSet(AskedRefs(options)) /\ Named(AskedRefs(options))
         /\ IsFiniteSet(Range(options.candidateRefs)) /\ Named(Range(options.candidateRefs))
         /\ Len(options.candidateRefs) \in Nat
         /\ IsInjective(options.candidateRefs) => Cardinality(Range(options.candidateRefs)) = Len(options.candidateRefs)
<1> DEFINE s == options.candidateRefs
           n == Len(s)
<1>1. n \in Nat /\ DOMAIN s = 1 .. n
  BY DEF SnapshotInput
<1>2. IsFiniteSet(1 .. n) /\ Cardinality(1 .. n) = n
  <2>1. /\ IsFiniteSet(1 .. n)
        /\ Cardinality(1 .. n) = IF 1 > n THEN 0 ELSE n - 1 + 1
    BY <1>1, FS_Interval
  <2> QED
    BY <1>1, <2>1
<1>3. s \in Surjection(1 .. n, Range(s))
  BY <1>1 DEF Surjection, Range, SnapshotInput
<1>4. /\ IsFiniteSet(Range(s))
      /\ Cardinality(Range(s)) = Cardinality(1 .. n) <=> s \in Injection(1 .. n, Range(s))
  <2> HIDE DEF s
  <2> QED
    BY <1>2, <1>3, FS_Surjection
<1>5. IsFiniteSet(Range(s) \cup {options.baseRef})
  BY <1>4, FS_AddElement
<1>6. Range(s) \cup {options.baseRef} = AskedRefs(options)
  BY DEF AskedRefs
<1>7. IsInjective(s) => s \in Injection(1 .. n, Range(s))
  BY <1>1, <1>3 DEF Injection, Surjection
<1>8. Named(AskedRefs(options)) /\ Named(Range(s))
  BY <1>6 DEF SnapshotInput, Named
<1> QED
  BY <1>1, <1>2, <1>4, <1>5, <1>6, <1>7, <1>8

\* What a snapshot says of a ref is what it was read to be at its turn, of as many
\* as there are refs (captureRef, requiredSnapshot).
LEMMA RequiredIs ==
  ASSUME NEW options, NEW moments, SnapshotInput(options, moments), NEW ref \in AskedRefs(options)
  PROVE  LET count == Cardinality(AskedRefs(options)) IN
         /\ Len(Refs(options)) = count /\ count \in Nat
         /\ \E k \in 1 .. count :
              /\ requiredSnapshot(options, moments, ref) = moments[k][ref]
              /\ assertRefsUnchanged(options, moments) => moments[count + k][ref] = moments[k][ref]
<1> DEFINE count == Cardinality(AskedRefs(options))
           refs == Refs(options)
<1>1. refs = InOrder(AskedRefs(options))
  BY DEF Refs, AskedRefs
<1>2. /\ count \in Nat /\ DOMAIN refs = 1 .. count /\ \A n \in 1 .. count : refs[n] \in AskedRefs(options)
      /\ \A m, n \in 1 .. count : m < n => refs[m] # refs[n]
      /\ \A r \in AskedRefs(options) : \E n \in 1 .. count : refs[n] = r
  <2>1. IsFiniteSet(AskedRefs(options)) /\ Named(AskedRefs(options))
    BY FinitelyAsked
  <2> QED
    BY <1>1, <2>1, RefsAreSorted
<1>3. Len(refs) = count
  <2>1. refs = [n \in 1 .. count |-> refs[n]]
    BY <1>1 DEF InOrder
  <2> HIDE DEF refs
  <2>2. refs \in Seq(AskedRefs(options))
    BY <1>2, <2>1
  <2> QED
    BY <1>2, <2>2
<1>4. PICK k \in 1 .. count : refs[k] = ref
  BY <1>2
<1>5. \A n \in 1 .. count : refs[n] = ref => n = k
  BY <1>2, <1>4
<1>6. (CHOOSE n \in DOMAIN refs : refs[n] = ref) = k
  <2> HIDE DEF refs, count
  <2> QED
    BY <1>2, <1>4, <1>5
<1>7. requiredSnapshot(options, moments, ref) = moments[k][ref]
  BY <1>2, <1>4, <1>6 DEF requiredSnapshot, Captured
<1>8. assertRefsUnchanged(options, moments) => moments[count + k][ref] = moments[k][ref]
  BY <1>2, <1>3, <1>4 DEF assertRefsUnchanged, Captured
<1> QED
  BY <1>2, <1>3, <1>7, <1>8

\* The moment between the two readings, when the last ref was read: what did not
\* come back was what it was found to be at either reading.
LEMMA OneMoment ==
  ASSUME NEW options, NEW moments, SnapshotInput(options, moments), assertRefsUnchanged(options, moments),
         NEW ref \in AskedRefs(options), ~CameBack(moments, ref)
  PROVE  LET n == Cardinality(AskedRefs(options)) IN
         n \in DOMAIN moments /\ moments[n][ref] = requiredSnapshot(options, moments, ref)
<1> DEFINE n == Cardinality(AskedRefs(options))
<1>1. PICK k \in 1 .. n : /\ requiredSnapshot(options, moments, ref) = moments[k][ref]
                          /\ moments[n + k][ref] = moments[k][ref] /\ n \in Nat
  BY RequiredIs
<1>2. k \in DOMAIN moments /\ n \in DOMAIN moments /\ n + k \in DOMAIN moments /\ n < n + k /\ (k < n \/ k = n)
  BY <1>1 DEF SnapshotInput
<1> HIDE DEF n
<1>3. moments[n][ref] = moments[k][ref]
  <2>1. CASE k < n
    BY <1>1, <1>2, <2>1 DEF CameBack
  <2> QED
    BY <1>2, <2>1
<1> QED
  BY <1>1, <1>2, <1>3 DEF n

\* What a snapshot holds (materializeBranchGitSnapshot).
LEMMA SnapshotIs ==
  ASSUME NEW options, NEW moments, NEW git, NEW m \in materializeBranchGitSnapshot(options, moments, git)
  PROVE  LET refs == CandidateRefs(options) IN
         /\ OptionsAccepted(options) /\ assertRefsUnchanged(options, moments) /\ assertBranchGitMaterialization(m)
         /\ m.base = options.baseRef /\ m.sha = requiredSnapshot(options, moments, options.baseRef)
         /\ DOMAIN m.candidates = DOMAIN refs
         /\ \A k \in DOMAIN refs :
              /\ m.candidates[k].ref = refs[k] /\ m.candidates[k].against = m.sha
              /\ m.candidates[k].headSha = requiredSnapshot(options, moments, refs[k])
              /\ <<m.sha, m.candidates[k].headSha>> \notin git.failing /\ m.candidates[k].changedPaths \cap git.unsafe = {}
         /\ m.interactions = captureInteractions(m.candidates, git)
<1> DEFINE base == requiredSnapshot(options, moments, options.baseRef)
           sha(k) == requiredSnapshot(options, moments, CandidateRefs(options)[k])
           candidates == [k \in DOMAIN CandidateRefs(options) |-> captureCandidate(base, CandidateRefs(options)[k], sha(k), git)]
<1>1. /\ OptionsAccepted(options) /\ assertRefsUnchanged(options, moments) /\ assertBranchGitMaterialization(m)
      /\ m = [base |-> options.baseRef, sha |-> base, candidates |-> candidates,
              interactions |-> captureInteractions(candidates, git)]
      /\ \A k \in DOMAIN candidates : CandidateReadable(base, candidates[k].headSha, git)
  BY DEF materializeBranchGitSnapshot
<1>2. \A k \in DOMAIN CandidateRefs(options) :
        /\ candidates[k].ref = CandidateRefs(options)[k] /\ candidates[k].against = base
        /\ candidates[k].headSha = sha(k) /\ candidates[k].changedPaths = git.changed[sha(k)]
  BY DEF captureCandidate
<1>3. DOMAIN candidates = DOMAIN CandidateRefs(options)
  OBVIOUS
<1> HIDE DEF base, candidates
<1>4. m.base = options.baseRef /\ m.sha = base /\ m.candidates = candidates /\ m.interactions = captureInteractions(candidates, git)
  BY <1>1
<1>5. \A k \in DOMAIN CandidateRefs(options) :
        <<base, sha(k)>> \notin git.failing /\ git.changed[sha(k)] \cap git.unsafe = {}
  BY <1>1, <1>2, <1>3 DEF CandidateReadable
<1> QED
  BY <1>1, <1>2, <1>3, <1>4, <1>5 DEF base

\* Its candidates are those that were asked for, each at one place.
LEMMA CandidatesAre ==
  ASSUME NEW options, NEW moments, SnapshotInput(options, moments)
  PROVE  LET refs == CandidateRefs(options) IN
         /\ \E n \in Nat : /\ DOMAIN refs = 1 .. n /\ refs \in [1 .. n -> Range(options.candidateRefs)]
                           /\ IsInjective(options.candidateRefs) => n = Len(options.candidateRefs)
         /\ \A k, l \in DOMAIN refs : k < l => ByCode(refs[k], refs[l]) /\ refs[k] # refs[l]
         /\ \A r \in Range(options.candidateRefs) : \E k \in DOMAIN refs : refs[k] = r
         /\ Range(options.candidateRefs) \subseteq AskedRefs(options) /\ options.baseRef \in AskedRefs(options)
<1> DEFINE refs == CandidateRefs(options)
           n == Cardinality(Range(options.candidateRefs))
<1>1. refs = InOrder(Range(options.candidateRefs))
  BY DEF CandidateRefs
<1>2. /\ IsFiniteSet(Range(options.candidateRefs)) /\ Named(Range(options.candidateRefs))
      /\ IsInjective(options.candidateRefs) => n = Len(options.candidateRefs)
  BY FinitelyAsked
<1>3. /\ n \in Nat /\ DOMAIN refs = 1 .. n /\ \A k \in 1 .. n : refs[k] \in Range(options.candidateRefs)
      /\ \A k, l \in 1 .. n : k < l => ByCode(refs[k], refs[l]) /\ refs[k] # refs[l]
      /\ \A r \in Range(options.candidateRefs) : \E k \in 1 .. n : refs[k] = r
  <2> HIDE DEF refs
  <2> QED
    BY <1>1, <1>2, RefsAreSorted
<1>4. refs = [k \in 1 .. n |-> refs[k]]
  BY <1>1 DEF InOrder
<1> HIDE DEF refs, n
<1>5. refs \in [1 .. n -> Range(options.candidateRefs)]
  BY <1>3, <1>4
<1> QED
  BY <1>2, <1>3, <1>5 DEF refs, n, AskedRefs

\* Two that differ stand in some order, and are one of the pairs.
LEMMA PairIsThere ==
  ASSUME NEW n \in Nat, NEW candidates, DOMAIN candidates = 1 .. n, Len(candidates) = n, NEW git, NEW k \in 1 .. n, NEW l \in 1 .. n, k # l
  PROVE  \E i \in Range(captureInteractions(candidates, git)) :
           /\ {i.left, i.right} = {candidates[k].ref, candidates[l].ref}
           /\ i.textualMerge = "clean" => \/ git.merge.exitCode = 0 /\ git.merge.tree
                                          \/ candidates[k].changedPaths \cap candidates[l].changedPaths = {}
<1> DEFINE all == captureInteractions(candidates, git)
           Pair(p, i) ==
             /\ i.left = candidates[p[1]].ref /\ i.right = candidates[p[2]].ref
             /\ i.textualMerge = IF pathsOverlap(candidates[p[1]], candidates[p[2]])
                                 THEN classifyMergeTreeResult(git.merge) ELSE "clean"
<1>1. \A p \in Pairs(candidates) : p \in DOMAIN all /\ Pair(p, all[p])
  BY DEF captureInteractions
<1>2. PICK p \in Pairs(candidates) : (p[1] = k /\ p[2] = l) \/ (p[1] = l /\ p[2] = k)
  <2>1. k < l => <<k, l>> \in Pairs(candidates)
    BY DEF Pairs
  <2>2. l < k => <<l, k>> \in Pairs(candidates)
    BY DEF Pairs
  <2>3. k < l \/ l < k
    OBVIOUS
  <2> QED
    BY <2>1, <2>2, <2>3
<1>3. all[p] \in Range(all) /\ Pair(p, all[p])
  BY <1>1 DEF Range
<1> HIDE DEF all
<1>4. /\ {all[p].left, all[p].right} = {candidates[k].ref, candidates[l].ref}
      /\ all[p].textualMerge = "clean" => \/ git.merge.exitCode = 0 /\ git.merge.tree
                                          \/ candidates[k].changedPaths \cap candidates[l].changedPaths = {}
  BY <1>2, <1>3 DEF pathsOverlap, classifyMergeTreeResult
<1> QED
  BY <1>3, <1>4 DEF all

\* Where nothing moves, the two orders agree and git answers there is a snapshot.
LEMMA StillHasSnapshot ==
  ASSUME NEW options, NEW moments, NEW git, SnapshotInput(options, moments),
         OptionsAccepted(options), StoodStill(moments), Missing \notin Range(moments[1]),
         \A r, s \in Range(Refs(options)) : r.code < s.code <=> r.locale < s.locale, git.failing = {},
         \A ref \in Range(options.candidateRefs) :
           /\ Cardinality(git.changed[moments[1][ref]]) <= MAX_CHANGED_PATHS
           /\ git.changed[moments[1][ref]] \cap git.unsafe = {}
  PROVE  materializeBranchGitSnapshot(options, moments, git) # {}
<1> DEFINE refs == CandidateRefs(options)
           count == Cardinality(AskedRefs(options))
           base == requiredSnapshot(options, moments, options.baseRef)
           candidates == [k \in DOMAIN refs |-> captureCandidate(base, refs[k], requiredSnapshot(options, moments, refs[k]), git)]
           m == [base |-> options.baseRef, sha |-> base, candidates |-> candidates,
                 interactions |-> captureInteractions(candidates, git)]
<1>1. PICK n \in Nat : /\ n = Len(options.candidateRefs) /\ DOMAIN refs = 1 .. n /\ refs \in [1 .. n -> Range(options.candidateRefs)]
                       /\ \A k, l \in DOMAIN refs : k < l => ByCode(refs[k], refs[l]) /\ refs[k] # refs[l]
                       /\ Range(options.candidateRefs) \subseteq AskedRefs(options)
  BY CandidatesAre DEF OptionsAccepted
<1>2. /\ count \in Nat /\ DOMAIN Refs(options) = 1 .. count /\ \A k \in 1 .. count : Refs(options)[k] \in AskedRefs(options)
      /\ \A r \in AskedRefs(options) : \E k \in 1 .. count : Refs(options)[k] = r
  <2>1. Refs(options) = InOrder(AskedRefs(options))
    BY DEF Refs, AskedRefs
  <2>2. IsFiniteSet(AskedRefs(options)) /\ Named(AskedRefs(options))
    BY FinitelyAsked
  <2> QED
    BY <2>1, <2>2, RefsAreSorted
<1>3. Range(Refs(options)) = AskedRefs(options)
  BY <1>2 DEF Range
<1>4. Len(Refs(options)) = count
  BY RequiredIs, <1>2 DEF AskedRefs
<1>5. /\ \A k \in 1 .. 2 * count : moments[k] = moments[1]
      /\ \A r \in AskedRefs(options) : r \in DOMAIN moments[1]
      /\ \A k \in 1 .. count : k \in 1 .. 2 * count /\ count + k \in 1 .. 2 * count
  <2>1. DOMAIN moments = 1 .. 2 * count /\ \A k \in DOMAIN moments : AskedRefs(options) \subseteq DOMAIN moments[k]
    BY DEF SnapshotInput
  <2>2. \A k \in DOMAIN moments : moments[k] = moments[1]
    BY Zenon DEF StoodStill
  <2>3. \A k \in 1 .. count : 1 \in 1 .. 2 * count /\ k \in 1 .. 2 * count /\ count + k \in 1 .. 2 * count
    BY <1>2
  <2>4. \A r \in AskedRefs(options) : \E k \in 1 .. count : TRUE
    BY <1>2
  <2> HIDE DEF count
  <2> QED
    BY <2>1, <2>2, <2>3, <2>4
<1>6. Missing \notin Range(Captured(options, moments)) /\ assertRefsUnchanged(options, moments)
  <2>1. \A k \in 1 .. count : /\ Captured(options, moments)[k] = moments[1][Refs(options)[k]]
                              /\ moments[count + k][Refs(options)[k]] = moments[1][Refs(options)[k]]
    BY <1>2, <1>5 DEF Captured
  <2>2. DOMAIN Captured(options, moments) = 1 .. count
    BY <1>2 DEF Captured
  <2>3. assertRefsUnchanged(options, moments)
    BY <1>2, <1>4, <2>1 DEF assertRefsUnchanged
  <2>4. \A k \in 1 .. count : moments[1][Refs(options)[k]] \in Range(moments[1])
    BY <1>2, <1>5 DEF Range
  <2>5. Range(Captured(options, moments)) \subseteq Range(moments[1])
    BY <2>1, <2>2, <2>4 DEF Range
  <2> QED
    BY <2>3, <2>5
<1>7. /\ candidates = [k \in 1 .. n |-> candidates[k]] /\ \A k \in 1 .. n : candidates[k].ref = refs[k]
      /\ \A k \in 1 .. n : candidates[k].headSha = requiredSnapshot(options, moments, refs[k])
  BY <1>1 DEF captureCandidate
<1>8. m.base = options.baseRef /\ m.candidates = candidates /\ m.interactions = captureInteractions(candidates, git)
  BY Zenon
<1> HIDE DEF candidates, m, refs
<1>9. Len(candidates) = n /\ DOMAIN candidates = 1 .. n
  <2>1. candidates \in Seq({candidates[k] : k \in 1 .. n})
    BY <1>7
  <2> QED
    BY <1>1, <1>7, <2>1
<1>10. assertBranchGitMaterialization(m)
  <2>1. Len(candidates) \in 1 .. MAX_CANDIDATES
    BY <1>1, <1>9 DEF OptionsAccepted
  <2>2. \A k \in 1 .. n : /\ candidates[k].ref # options.baseRef
                          /\ \A l \in 1 .. k - 1 : ByCode(candidates[l].ref, candidates[k].ref)
    <3>1. \A k \in 1 .. n : refs[k] # options.baseRef
      BY <1>1 DEF OptionsAccepted
    <3>2. ASSUME NEW k \in 1 .. n, NEW l \in 1 .. k - 1 PROVE ByCode(candidates[l].ref, candidates[k].ref)
      <4>1. l \in 1 .. n /\ l < k
        BY <1>1
      <4>2. ByCode(refs[l], refs[k])
        BY <1>1, <4>1
      <4> QED
        BY <1>7, <4>1, <4>2
    <3> QED
      BY <1>7, <3>1, <3>2
  <2>3. /\ DOMAIN m.interactions = Pairs(candidates)
        /\ \A p \in Pairs(candidates) : /\ m.interactions[p].left = candidates[p[1]].ref
                                        /\ m.interactions[p].right = candidates[p[2]].ref
    BY <1>8 DEF captureInteractions
  <2>4. \A p \in Pairs(candidates) : candidates[p[1]].ref.locale < candidates[p[2]].ref.locale
    <3> SUFFICES ASSUME NEW p \in Pairs(candidates) PROVE candidates[p[1]].ref.locale < candidates[p[2]].ref.locale
      OBVIOUS
    <3>1. p[1] \in 1 .. n /\ p[2] \in 1 .. n /\ p[1] < p[2]
      BY <1>9 DEF Pairs
    <3>2. refs[p[1]] \in AskedRefs(options) /\ refs[p[2]] \in AskedRefs(options) /\ ByCode(refs[p[1]], refs[p[2]])
      BY <1>1, <3>1
    <3> QED
      BY <1>3, <1>7, <3>1, <3>2 DEF ByCode
  <2> QED
    BY <1>8, <1>9, <2>1, <2>2, <2>3, <2>4 DEF assertBranchGitMaterialization
<1>11. /\ \A k \in DOMAIN candidates : CandidateReadable(base, candidates[k].headSha, git)
       /\ InteractionsReadable(candidates, git)
  <2>1. ASSUME NEW k \in 1 .. n PROVE candidates[k].headSha = moments[1][refs[k]]
    <3>1. refs[k] \in AskedRefs(options)
      BY <1>1
    <3>2. PICK c \in 1 .. count : requiredSnapshot(options, moments, refs[k]) = moments[c][refs[k]]
      BY <3>1, RequiredIs
    <3>3. moments[c] = moments[1]
      BY <1>5
    <3> QED
      BY <1>7, <3>2, <3>3
  <2>2. \A k \in 1 .. n : refs[k] \in Range(options.candidateRefs)
    BY <1>1
  <2> HIDE DEF base
  <2> QED
    BY <1>9, <2>1, <2>2 DEF CandidateReadable, InteractionsReadable
<1>12. materializeBranchGitSnapshot(options, moments, git) = {x \in {m} : assertBranchGitMaterialization(x)}
  BY <1>6, <1>11 DEF materializeBranchGitSnapshot, m, candidates, refs
<1> QED
  BY <1>10, <1>12

\* Whatever refs move while it is taken, a snapshot is of one state of the
\* repository, in which every ref was what it says, unless a ref left its commit
\* and came back to it; it compares every candidate with its base and every pair of
\* them once; and where nothing moved and git answers there is one
\* (materializeBranchGitSnapshot).
\* The moment is that at which the last ref was read for the first time.
THEOREM SnapshotsAreOfOneState ==
  ASSUME NEW options, NEW moments, NEW git, SnapshotInput(options, moments)
  PROVE  SnapshotIsOneState(options, moments, git)
<1>1. Range(Refs(options)) = AskedRefs(options)
  <2>1. Refs(options) = InOrder(AskedRefs(options))
    BY DEF Refs, AskedRefs
  <2>2. IsFiniteSet(AskedRefs(options)) /\ Named(AskedRefs(options))
    BY FinitelyAsked
  <2>3. /\ DOMAIN Refs(options) = 1 .. Cardinality(AskedRefs(options))
        /\ \A k \in DOMAIN Refs(options) : Refs(options)[k] \in AskedRefs(options)
        /\ \A r \in AskedRefs(options) : \E k \in DOMAIN Refs(options) : Refs(options)[k] = r
    BY <2>1, <2>2, RefsAreSorted
  <2> QED
    BY <2>3 DEF Range
<1>2. ASSUME NEW m \in materializeBranchGitSnapshot(options, moments, git)
      PROVE  /\ (\A r \in AskedRefs(options) : ~CameBack(moments, r)) =>
                  \E n \in DOMAIN moments :
                    /\ moments[n][options.baseRef] = m.sha
                    /\ \A c \in Range(m.candidates) : moments[n][c.ref] = c.headSha
             /\ \A c \in Range(m.candidates) :
                  c.against = m.sha /\ <<m.sha, c.headSha>> \notin git.failing /\ c.changedPaths \cap git.unsafe = {}
             /\ {c.ref : c \in Range(m.candidates)} = Range(options.candidateRefs)
             /\ \A c, d \in Range(m.candidates) : c # d =>
                  \E i \in Range(m.interactions) :
                    /\ {i.left, i.right} = {c.ref, d.ref}
                    /\ i.textualMerge = "clean" =>
                         (git.merge.exitCode = 0 /\ git.merge.tree) \/ c.changedPaths \cap d.changedPaths = {}
  <2> DEFINE refs == CandidateRefs(options)
             n == Cardinality(AskedRefs(options))
  <2>1. /\ assertRefsUnchanged(options, moments) /\ assertBranchGitMaterialization(m) /\ OptionsAccepted(options)
        /\ m.sha = requiredSnapshot(options, moments, options.baseRef)
        /\ DOMAIN m.candidates = DOMAIN refs
        /\ \A k \in DOMAIN refs :
             /\ m.candidates[k].ref = refs[k] /\ m.candidates[k].against = m.sha
             /\ m.candidates[k].headSha = requiredSnapshot(options, moments, refs[k])
             /\ <<m.sha, m.candidates[k].headSha>> \notin git.failing /\ m.candidates[k].changedPaths \cap git.unsafe = {}
        /\ m.interactions = captureInteractions(m.candidates, git)
    BY SnapshotIs
  <2>2. PICK length \in Nat : DOMAIN refs = 1 .. length /\ length = Len(options.candidateRefs)
    BY <2>1, CandidatesAre DEF OptionsAccepted
  <2>3. /\ \A k \in DOMAIN refs : refs[k] \in Range(options.candidateRefs)
        /\ \A r \in Range(options.candidateRefs) : \E k \in DOMAIN refs : refs[k] = r
        /\ Range(options.candidateRefs) \subseteq AskedRefs(options) /\ options.baseRef \in AskedRefs(options)
    BY CandidatesAre
  <2> HIDE DEF refs
  <2>3a. /\ DOMAIN m.candidates = DOMAIN refs /\ m.sha = requiredSnapshot(options, moments, options.baseRef)
         /\ \A k \in DOMAIN refs :
              /\ m.candidates[k].ref = refs[k] /\ m.candidates[k].headSha = requiredSnapshot(options, moments, refs[k])
    BY <2>1
  <2>4. \A c : c \in Range(m.candidates) <=> \E k \in DOMAIN refs : c = m.candidates[k]
    BY <2>1 DEF Range
  <2>5. ASSUME \A r \in AskedRefs(options) : ~CameBack(moments, r)
        PROVE  /\ n \in DOMAIN moments /\ moments[n][options.baseRef] = m.sha
               /\ \A c \in Range(m.candidates) : moments[n][c.ref] = c.headSha
    <3>1. \A r \in AskedRefs(options) : n \in DOMAIN moments /\ moments[n][r] = requiredSnapshot(options, moments, r)
      BY <2>1, <2>5, OneMoment
    <3> HIDE DEF n
    <3> QED
      BY <2>3, <2>3a, <2>4, <3>1
  <2>6. {c.ref : c \in Range(m.candidates)} = Range(options.candidateRefs)
    BY <2>3, <2>3a, <2>4
  <2>7. ASSUME NEW c \in Range(m.candidates), NEW d \in Range(m.candidates), c # d
        PROVE  \E i \in Range(m.interactions) :
                 /\ {i.left, i.right} = {c.ref, d.ref}
                 /\ i.textualMerge = "clean" =>
                      (git.merge.exitCode = 0 /\ git.merge.tree) \/ c.changedPaths \cap d.changedPaths = {}
    <3>1. PICK k \in 1 .. length, l \in 1 .. length : c = m.candidates[k] /\ d = m.candidates[l]
      BY <2>2, <2>4
    <3>2. Len(m.candidates) = length
      <4>1. Len(m.candidates) \in Nat
        BY <2>1 DEF assertBranchGitMaterialization
      <4> QED
        BY <2>1, <2>2, <4>1
    <3>3. k # l /\ DOMAIN m.candidates = 1 .. length
      BY <2>1, <2>2, <2>7, <3>1
    <3>4. \E i \in Range(captureInteractions(m.candidates, git)) :
            /\ {i.left, i.right} = {m.candidates[k].ref, m.candidates[l].ref}
            /\ i.textualMerge = "clean" =>
                 \/ git.merge.exitCode = 0 /\ git.merge.tree
                 \/ m.candidates[k].changedPaths \cap m.candidates[l].changedPaths = {}
      BY <3>2, <3>3, PairIsThere
    <3> QED
      BY <2>1, <3>1, <3>4
  <2>8. \A c \in Range(m.candidates) :
          c.against = m.sha /\ <<m.sha, c.headSha>> \notin git.failing /\ c.changedPaths \cap git.unsafe = {}
    BY <2>1, <2>4
  <2>9. (\A r \in AskedRefs(options) : ~CameBack(moments, r)) =>
          \E k \in DOMAIN moments :
            /\ moments[k][options.baseRef] = m.sha
            /\ \A c \in Range(m.candidates) : moments[k][c.ref] = c.headSha
    <3> HIDE DEF n
    <3> QED
      BY <2>5
  <2> QED
    BY <2>6, <2>7, <2>8, <2>9
<1> QED
  BY <1>1, <1>2, StillHasSnapshot DEF SnapshotIsOneState

-----------------------------------------------------------------------------
(* GraphDiff: what changed between two graphs.                             *)

\* A graph that is read has finitely many records, each with an id of its own.
GraphRecords(g) ==
  /\ IsFiniteSet(g.records)
  /\ \A r, s \in g.records : r.id \in Int /\ (r.id = s.id => r = s)

\* The records of a place that the other graph does not know.
Group(g, other, place) == {r \in unmatched(g, other) : r.place = place}

\* A group is a sequence of its records, each once.
LEMMA GroupIsSorted ==
  ASSUME NEW g, NEW other, NEW place, GraphRecords(g)
  PROVE  LET s == groupRecords(g, other, place) IN
         /\ Len(s) \in Nat /\ DOMAIN s = 1 .. Len(s)
         /\ \A n \in 1 .. Len(s) : s[n] \in Group(g, other, place)
         /\ \A m, n \in 1 .. Len(s) : s[m] = s[n] => m = n
         /\ \A r \in Group(g, other, place) : \E n \in 1 .. Len(s) : s[n] = r
<1> DEFINE S == Group(g, other, place)
           R == {p \in S \X S : Before(p[1], p[2])}
           s == groupRecords(g, other, place)
<1>1. IsFiniteSet(S) /\ \A r, q \in S : r.id \in Int /\ (r.id = q.id => r = q)
  <2>1. S \in SUBSET g.records
    BY DEF Group, unmatched
  <2>2. IsFiniteSet(S)
    BY <2>1, FS_Subset DEF GraphRecords
  <2> QED
    BY <2>1, <2>2 DEF GraphRecords
<1>2. Cardinality(S) \in Nat
  BY <1>1, FS_CardinalityType
<1>3. s = [n \in 1 .. Cardinality(S) |-> CHOOSE r \in S : Cardinality({q \in S : Before(q, r)}) = n - 1]
  BY DEF groupRecords, Group
<1> HIDE DEF S, s
<1>4. StrictOrder(S, R)
  BY <1>1 DEF StrictOrder, Before
<1>5. \A r \in S : Cardinality({q \in S : Before(q, r)}) = RankIn(S, R, r)
  <2> SUFFICES ASSUME NEW r \in S PROVE Cardinality({q \in S : Before(q, r)}) = RankIn(S, R, r)
    OBVIOUS
  <2>1. {q \in S : Before(q, r)} = {q \in S : <<q, r>> \in R}
    OBVIOUS
  <2> QED
    BY <2>1 DEF RankIn
<1> HIDE DEF R
<1>6. ASSUME NEW n \in 1 .. Cardinality(S), \E r \in S : RankIn(S, R, r) = n - 1
      PROVE  s[n] \in S /\ RankIn(S, R, s[n]) = n - 1
  <2>1. \E r \in S : Cardinality({q \in S : Before(q, r)}) = n - 1
    BY <1>5, <1>6
  <2>2. s[n] = CHOOSE r \in S : Cardinality({q \in S : Before(q, r)}) = n - 1
    BY <1>3, Zenon
  <2>3. s[n] \in S /\ Cardinality({q \in S : Before(q, s[n])}) = n - 1
    BY <2>1, <2>2
  <2> QED
    BY <1>5, <2>3
<1>7. Sorted(S, R, s)
  BY <1>1, <1>4, <1>6, RankedIsSorted
<1>8. Len(s) = Cardinality(S) /\ DOMAIN s = 1 .. Cardinality(S)
  <2>1. s = [n \in 1 .. Cardinality(S) |-> s[n]]
    BY <1>3 DEF s
  <2>2. s \in Seq(S)
    BY <1>2, <1>7, <2>1 DEF Sorted
  <2> QED
    BY <1>2, <2>1, <2>2
<1>9. \A m, n \in 1 .. Cardinality(S) : s[m] = s[n] => m = n
  <2> SUFFICES ASSUME NEW m \in 1 .. Cardinality(S), NEW n \in 1 .. Cardinality(S), s[m] = s[n] PROVE m = n
    OBVIOUS
  <2>1. m < n \/ n < m \/ m = n
    BY <1>2
  <2> QED
    BY <1>7, <2>1 DEF Sorted
<1> QED
  BY <1>2, <1>7, <1>8, <1>9 DEF Sorted, S, s

\* At one place: what is left of before and what comes after stand in pairs, and
\* only the longer side has more.
PairsOf(before, after, place) ==
  LET n == IF Len(groupRecords(before, after, place)) < Len(groupRecords(after, before, place))
           THEN Len(groupRecords(before, after, place)) ELSE Len(groupRecords(after, before, place))
  IN 1 .. n

\* What a place gives to the difference.
LEMMA PairedAre ==
  ASSUME NEW before, NEW after, NEW place, GraphRecords(before), GraphRecords(after)
  PROVE  LET left == groupRecords(before, after, place)
             right == groupRecords(after, before, place)
             p == Paired(before, after, place)
             pairs == PairsOf(before, after, place)
         IN /\ Group(before, after, place) = {left[i] : i \in pairs} \cup p.removed
            /\ Group(after, before, place) = {right[i] : i \in pairs} \cup p.added
            /\ {left[i] : i \in pairs} \cap p.removed = {} /\ {right[i] : i \in pairs} \cap p.added = {}
            /\ \A c : c \in p.changed =>
                 \E i \in pairs : c.before = left[i] /\ c.after = right[i] /\
                   c = [identity |-> place, before |-> left[i], after |-> right[i],
                        changedFields |-> changedFieldPaths(left[i], right[i])]
            /\ \A i \in pairs : \E c \in p.changed : c.before = left[i] /\ c.after = right[i]
            /\ \A i, j \in pairs : left[i] = left[j] \/ right[i] = right[j] => i = j
            /\ p.removed = {} \/ p.added = {}
<1> DEFINE left == groupRecords(before, after, place)
           right == groupRecords(after, before, place)
           p == Paired(before, after, place)
           pairs == PairsOf(before, after, place)
           n == IF Len(left) < Len(right) THEN Len(left) ELSE Len(right)
<1>1. /\ Len(left) \in Nat /\ DOMAIN left = 1 .. Len(left)
      /\ \A i \in 1 .. Len(left) : left[i] \in Group(before, after, place)
      /\ \A i, j \in 1 .. Len(left) : left[i] = left[j] => i = j
      /\ \A r \in Group(before, after, place) : \E i \in 1 .. Len(left) : left[i] = r
  BY GroupIsSorted
<1>2. /\ Len(right) \in Nat /\ DOMAIN right = 1 .. Len(right)
      /\ \A i \in 1 .. Len(right) : right[i] \in Group(after, before, place)
      /\ \A i, j \in 1 .. Len(right) : right[i] = right[j] => i = j
      /\ \A r \in Group(after, before, place) : \E i \in 1 .. Len(right) : right[i] = r
  BY GroupIsSorted
<1>3. /\ p.changed = {[identity |-> place, before |-> left[i], after |-> right[i],
                       changedFields |-> changedFieldPaths(left[i], right[i])] : i \in 1 .. n}
      /\ p.removed = {left[i] : i \in n + 1 .. Len(left)}
      /\ p.added = {right[i] : i \in n + 1 .. Len(right)}
      /\ pairs = 1 .. n
  BY DEF Paired, PairsOf
<1> HIDE DEF left, right, p, pairs
<1>4. /\ n \in Nat /\ n <= Len(left) /\ n <= Len(right) /\ (n = Len(left) \/ n = Len(right))
      /\ \A i : i \in 1 .. Len(left) <=> (i \in pairs \/ i \in n + 1 .. Len(left))
      /\ \A i : i \in 1 .. Len(right) <=> (i \in pairs \/ i \in n + 1 .. Len(right))
      /\ \A i \in pairs : i \notin n + 1 .. Len(left) /\ i \notin n + 1 .. Len(right)
  BY <1>1, <1>2, <1>3
<1>11. /\ \A r : r \in p.removed <=> \E i \in n + 1 .. Len(left) : r = left[i]
       /\ \A r : r \in p.added <=> \E i \in n + 1 .. Len(right) : r = right[i]
       /\ \A i \in n + 1 .. Len(left) : i \in 1 .. Len(left)
       /\ \A i \in n + 1 .. Len(right) : i \in 1 .. Len(right)
  BY <1>3, <1>4
<1> HIDE DEF n
<1>5. /\ Group(before, after, place) = {left[i] : i \in pairs} \cup p.removed
      /\ {left[i] : i \in pairs} \cap p.removed = {}
  <2>1. ASSUME NEW r \in Group(before, after, place) PROVE r \in {left[i] : i \in pairs} \cup p.removed
    <3>1. PICK i \in 1 .. Len(left) : left[i] = r
      BY <1>1
    <3>2. i \in pairs \/ i \in n + 1 .. Len(left)
      BY <1>4
    <3> QED
      BY <1>11, <3>1, <3>2
  <2>2. \A i \in pairs : left[i] \in Group(before, after, place)
    BY <1>1, <1>4
  <2>3. p.removed \subseteq Group(before, after, place)
    BY <1>1, <1>11
  <2>4. ASSUME NEW i \in pairs, left[i] \in p.removed PROVE FALSE
    <3>1. PICK j \in n + 1 .. Len(left) : left[i] = left[j]
      BY <1>11, <2>4
    <3>2. i \in 1 .. Len(left) /\ j \in 1 .. Len(left) /\ i \notin n + 1 .. Len(left)
      BY <1>4, <1>11
    <3>3. i = j
      BY <1>1, <3>1, <3>2
    <3> QED
      BY <3>2, <3>3
  <2> QED
    BY <2>1, <2>2, <2>3, <2>4
<1>6. /\ Group(after, before, place) = {right[i] : i \in pairs} \cup p.added
      /\ {right[i] : i \in pairs} \cap p.added = {}
  <2>1. ASSUME NEW r \in Group(after, before, place) PROVE r \in {right[i] : i \in pairs} \cup p.added
    <3>1. PICK i \in 1 .. Len(right) : right[i] = r
      BY <1>2
    <3>2. i \in pairs \/ i \in n + 1 .. Len(right)
      BY <1>4
    <3> QED
      BY <1>11, <3>1, <3>2
  <2>2. \A i \in pairs : right[i] \in Group(after, before, place)
    BY <1>2, <1>4
  <2>3. p.added \subseteq Group(after, before, place)
    BY <1>2, <1>11
  <2>4. ASSUME NEW i \in pairs, right[i] \in p.added PROVE FALSE
    <3>1. PICK j \in n + 1 .. Len(right) : right[i] = right[j]
      BY <1>11, <2>4
    <3>2. i \in 1 .. Len(right) /\ j \in 1 .. Len(right) /\ i \notin n + 1 .. Len(right)
      BY <1>4, <1>11
    <3>3. i = j
      BY <1>2, <3>1, <3>2
    <3> QED
      BY <3>2, <3>3
  <2> QED
    BY <2>1, <2>2, <2>3, <2>4
<1>7. ASSUME NEW c, c \in p.changed
      PROVE  \E i \in pairs : c.before = left[i] /\ c.after = right[i] /\
               c = [identity |-> place, before |-> left[i], after |-> right[i],
                    changedFields |-> changedFieldPaths(left[i], right[i])]
  BY <1>3, <1>7
<1>8. ASSUME NEW i \in pairs PROVE \E c \in p.changed : c.before = left[i] /\ c.after = right[i]
  <2> DEFINE c == [identity |-> place, before |-> left[i], after |-> right[i],
                   changedFields |-> changedFieldPaths(left[i], right[i])]
  <2>1. c \in p.changed
    BY <1>3
  <2>2. c.before = left[i] /\ c.after = right[i]
    OBVIOUS
  <2> QED
    BY <2>1, <2>2
<1>9. \A i, j \in pairs : left[i] = left[j] \/ right[i] = right[j] => i = j
  BY <1>1, <1>2, <1>4
<1>10. p.removed = {} \/ p.added = {}
  <2>1. n = Len(left) => ~\E i \in n + 1 .. Len(left) : TRUE
    BY <1>1
  <2>2. n = Len(right) => ~\E i \in n + 1 .. Len(right) : TRUE
    BY <1>2
  <2> QED
    BY <1>4, <1>11, <2>1, <2>2
<1> QED
  BY <1>5, <1>6, <1>7, <1>8, <1>9, <1>10 DEF left, right, p, pairs

\* A difference is the same from either side.
LEMMA PairedIsSymmetric ==
  ASSUME NEW before, NEW after, NEW place, GraphRecords(before), GraphRecords(after)
  PROVE  /\ Paired(after, before, place).added = Paired(before, after, place).removed
         /\ Paired(after, before, place).removed = Paired(before, after, place).added
         /\ {c.before : c \in Paired(after, before, place).changed} = {c.after : c \in Paired(before, after, place).changed}
<1> DEFINE left == groupRecords(before, after, place)
           right == groupRecords(after, before, place)
           p == Paired(before, after, place)
           q == Paired(after, before, place)
           n == IF Len(left) < Len(right) THEN Len(left) ELSE Len(right)
           m == IF Len(right) < Len(left) THEN Len(right) ELSE Len(left)
<1>1. m = n
  <2>1. Len(left) \in Nat /\ Len(right) \in Nat
    BY GroupIsSorted
  <2> HIDE DEF left, right
  <2> QED
    BY <2>1
<1>2. /\ p.removed = {left[i] : i \in n + 1 .. Len(left)} /\ p.added = {right[i] : i \in n + 1 .. Len(right)}
      /\ q.removed = {right[i] : i \in m + 1 .. Len(right)} /\ q.added = {left[i] : i \in m + 1 .. Len(left)}
      /\ p.changed = {[identity |-> place, before |-> left[i], after |-> right[i],
                       changedFields |-> changedFieldPaths(left[i], right[i])] : i \in 1 .. n}
      /\ q.changed = {[identity |-> place, before |-> right[i], after |-> left[i],
                       changedFields |-> changedFieldPaths(right[i], left[i])] : i \in 1 .. m}
  BY DEF Paired
<1> HIDE DEF left, right, n, m, p, q
<1> DEFINE one(i) == [identity |-> place, before |-> left[i], after |-> right[i],
                      changedFields |-> changedFieldPaths(left[i], right[i])]
           back(i) == [identity |-> place, before |-> right[i], after |-> left[i],
                       changedFields |-> changedFieldPaths(right[i], left[i])]
<1>5. \A i : one(i).after = right[i] /\ back(i).before = right[i]
  OBVIOUS
<1>6. p.changed = {one(i) : i \in 1 .. n} /\ q.changed = {back(i) : i \in 1 .. m}
  BY <1>2
<1> HIDE DEF one, back
<1>3. {c.after : c \in p.changed} = {right[i] : i \in 1 .. n}
  BY <1>5, <1>6
<1>4. {c.before : c \in q.changed} = {right[i] : i \in 1 .. m}
  BY <1>5, <1>6
<1> QED
  BY <1>1, <1>2, <1>3, <1>4 DEF p, q

\* The parts of a difference, place by place.
LEMMA DifferenceIs ==
  ASSUME NEW before, NEW after
  PROVE  LET d == diffIntentGraphs(before, after)
             places == {r.place : r \in before.records \cup after.records}
         IN /\ \A r : r \in d.removed <=> \E p \in places : r \in Paired(before, after, p).removed
            /\ \A r : r \in d.added <=> \E p \in places : r \in Paired(before, after, p).added
            /\ \A c : c \in d.changed <=> \E p \in places : c \in Paired(before, after, p).changed
            /\ d.unchanged = before.records \ unmatched(before, after)
            /\ d.relationsAdded = after.relations \ before.relations
            /\ d.relationsRemoved = before.relations \ after.relations
<1> DEFINE places == {r.place : r \in before.records \cup after.records}
           all(part) == UNION {Paired(before, after, p)[part] : p \in places}
<1>1. diffIntentGraphs(before, after) =
        [added |-> all("added"), removed |-> all("removed"), changed |-> all("changed"),
         unchanged |-> before.records \ unmatched(before, after),
         relationsAdded |-> after.relations \ before.relations,
         relationsRemoved |-> before.relations \ after.relations,
         relationsUnchanged |-> before.relations \cap after.relations]
  BY DEF diffIntentGraphs
<1>2. \A part, x : x \in all(part) <=> \E p \in places : x \in Paired(before, after, p)[part]
  OBVIOUS
<1> HIDE DEF all, places
<1>3. /\ diffIntentGraphs(before, after).removed = all("removed")
      /\ diffIntentGraphs(before, after).added = all("added")
      /\ diffIntentGraphs(before, after).changed = all("changed")
      /\ diffIntentGraphs(before, after).unchanged = before.records \ unmatched(before, after)
      /\ diffIntentGraphs(before, after).relationsAdded = after.relations \ before.relations
      /\ diffIntentGraphs(before, after).relationsRemoved = before.relations \ after.relations
  BY <1>1
<1> QED
  BY <1>2, <1>3 DEF places

\* What a difference says of one place, in terms of the groups at that place: each
\* record of them is left over or in one pair, and one of them has nothing left.
AtPlace(before, after, place, p) ==
  /\ \A r \in p.removed : r \in Group(before, after, place)
  /\ \A a \in p.added : a \in Group(after, before, place)
  /\ \A c \in p.changed : /\ c.before \in Group(before, after, place) /\ c.before \notin p.removed
                          /\ c.after \in Group(after, before, place) /\ c.after \notin p.added
                          /\ \A e \in p.changed : e.before = c.before \/ e.after = c.after => e = c
  /\ \A r \in Group(before, after, place) : r \in p.removed \/ \E c \in p.changed : c.before = r
  /\ \A a \in Group(after, before, place) : a \in p.added \/ \E c \in p.changed : c.after = a
  /\ p.removed = {} \/ p.added = {}

\* What holds of the pairs and the rest of one place.
LEMMA AtPlaceHolds ==
  ASSUME NEW before, NEW after, NEW place, GraphRecords(before), GraphRecords(after)
  PROVE  AtPlace(before, after, place, Paired(before, after, place))
<1> DEFINE left == groupRecords(before, after, place)
           right == groupRecords(after, before, place)
           p == Paired(before, after, place)
           pairs == PairsOf(before, after, place)
<1>1. /\ Group(before, after, place) = {left[i] : i \in pairs} \cup p.removed
      /\ Group(after, before, place) = {right[i] : i \in pairs} \cup p.added
      /\ {left[i] : i \in pairs} \cap p.removed = {} /\ {right[i] : i \in pairs} \cap p.added = {}
      /\ \A c : c \in p.changed =>
           \E i \in pairs : c.before = left[i] /\ c.after = right[i] /\
             c = [identity |-> place, before |-> left[i], after |-> right[i],
                  changedFields |-> changedFieldPaths(left[i], right[i])]
      /\ \A i \in pairs : \E c \in p.changed : c.before = left[i] /\ c.after = right[i]
      /\ \A i, j \in pairs : left[i] = left[j] \/ right[i] = right[j] => i = j
      /\ p.removed = {} \/ p.added = {}
  BY PairedAre
<1> HIDE DEF left, right, p, pairs
<1>2. ASSUME NEW c \in p.changed, NEW e \in p.changed, e.before = c.before \/ e.after = c.after PROVE e = c
  <2>1. PICK i \in pairs : /\ c.before = left[i] /\ c.after = right[i]
                           /\ c = [identity |-> place, before |-> left[i], after |-> right[i],
                                   changedFields |-> changedFieldPaths(left[i], right[i])]
    BY <1>1
  <2>2. PICK j \in pairs : /\ e.before = left[j] /\ e.after = right[j]
                           /\ e = [identity |-> place, before |-> left[j], after |-> right[j],
                                   changedFields |-> changedFieldPaths(left[j], right[j])]
    BY <1>1
  <2>3. j = i
    BY <1>1, <1>2, <2>1, <2>2
  <2> QED
    BY <2>1, <2>2, <2>3, Zenon
<1>3. ASSUME NEW c \in p.changed
      PROVE  /\ c.before \in Group(before, after, place) /\ c.before \notin p.removed
             /\ c.after \in Group(after, before, place) /\ c.after \notin p.added
  <2>1. PICK i \in pairs : c.before = left[i] /\ c.after = right[i]
    BY <1>1
  <2> QED
    BY <1>1, <2>1
<1>4. ASSUME NEW r \in Group(before, after, place) PROVE r \in p.removed \/ \E c \in p.changed : c.before = r
  BY <1>1
<1>5. ASSUME NEW a \in Group(after, before, place) PROVE a \in p.added \/ \E c \in p.changed : c.after = a
  BY <1>1
<1>6. p.removed \subseteq Group(before, after, place) /\ p.added \subseteq Group(after, before, place)
  BY <1>1
<1> QED
  BY <1>1, <1>2, <1>3, <1>4, <1>5, <1>6 DEF AtPlace, p

\* For any two graphs, and however many records of one place they share, their
\* difference is a patch that turns one into the other, and the same from either
\* side (diffIntentGraphs).
THEOREM DifferencesArePatches ==
  ASSUME NEW before, NEW after, GraphRecords(before), GraphRecords(after)
  PROVE  DiffIsPatch(before, after)
<1> DEFINE d == diffIntentGraphs(before, after)
           back == diffIntentGraphs(after, before)
           places == {r.place : r \in before.records \cup after.records}
           p(place) == Paired(before, after, place)
           q(place) == Paired(after, before, place)
<1>1. /\ \A r : r \in d.removed <=> \E x \in places : r \in p(x).removed
      /\ \A r : r \in d.added <=> \E x \in places : r \in p(x).added
      /\ \A c : c \in d.changed <=> \E x \in places : c \in p(x).changed
      /\ d.unchanged = before.records \ unmatched(before, after)
      /\ d.relationsAdded = after.relations \ before.relations
      /\ d.relationsRemoved = before.relations \ after.relations
  BY DifferenceIs
<1>2. /\ \A r : r \in back.removed <=> \E x \in places : r \in q(x).removed
      /\ \A r : r \in back.added <=> \E x \in places : r \in q(x).added
      /\ \A c : c \in back.changed <=> \E x \in places : c \in q(x).changed
  <2>1. {r.place : r \in after.records \cup before.records} = places
    OBVIOUS
  <2> QED
    BY <2>1, DifferenceIs
<1>3. \A x : AtPlace(before, after, x, p(x))
  BY AtPlaceHolds
<1>4. \A x : /\ q(x).added = p(x).removed /\ q(x).removed = p(x).added
             /\ {c.before : c \in q(x).changed} = {c.after : c \in p(x).changed}
  <2> SUFFICES ASSUME NEW x
               PROVE  /\ q(x).added = p(x).removed /\ q(x).removed = p(x).added
                      /\ {c.before : c \in q(x).changed} = {c.after : c \in p(x).changed}
    OBVIOUS
  <2>1. /\ Paired(after, before, x).added = Paired(before, after, x).removed
        /\ Paired(after, before, x).removed = Paired(before, after, x).added
        /\ {c.before : c \in Paired(after, before, x).changed} = {c.after : c \in Paired(before, after, x).changed}
    BY PairedIsSymmetric
  <2> QED
    BY <2>1
<1>5. /\ \A r \in unmatched(before, after) : r \in Group(before, after, r.place) /\ r.place \in places
      /\ \A a \in unmatched(after, before) : a \in Group(after, before, a.place) /\ a.place \in places
      /\ \A x, r : r \in Group(before, after, x) => r \in unmatched(before, after) /\ r.place = x
      /\ \A x, a : a \in Group(after, before, x) => a \in unmatched(after, before) /\ a.place = x
  BY DEF Group, unmatched
<1> HIDE DEF d, back, places, p, q
<1>6. /\ \A r \in unmatched(before, after) : r \in d.removed \/ r \in Befores(d)
      /\ \A r \in d.removed : r \in unmatched(before, after)
      /\ \A r \in Befores(d) : r \in unmatched(before, after)
  <2>1. \A r \in unmatched(before, after) : r \in d.removed \/ r \in Befores(d)
    BY <1>1, <1>3, <1>5 DEF AtPlace, Befores
  <2> QED
    BY <2>1, <1>1, <1>3, <1>5 DEF AtPlace, Befores
<1>7. /\ \A a \in unmatched(after, before) : a \in d.added \/ a \in Afters(d)
      /\ \A a \in d.added : a \in unmatched(after, before)
      /\ \A a \in Afters(d) : a \in unmatched(after, before)
  BY <1>1, <1>3, <1>5 DEF AtPlace, Afters
<1>8. IdsOf(before.records) = (IdsOf(d.removed) \cup IdsOf(Befores(d))) \cup IdsOf(d.unchanged)
  <2>1. unmatched(before, after) \subseteq before.records
    BY DEF unmatched
  <2>2. before.records = (d.removed \cup Befores(d)) \cup d.unchanged
    BY <1>1, <1>6, <2>1
  <2> QED
    BY <2>2 DEF IdsOf
<1>9. IdsOf(after.records) = (IdsOf(d.added) \cup IdsOf(Afters(d))) \cup IdsOf(d.unchanged)
  <2>1. unmatched(after, before) = d.added \cup Afters(d)
    BY <1>7
  <2>2. {r.id : r \in after.records \ unmatched(after, before)} = {r.id : r \in d.unchanged}
    BY <1>1 DEF unmatched
  <2>3. IdsOf(after.records) = IdsOf(unmatched(after, before)) \cup {r.id : r \in after.records \ unmatched(after, before)}
    BY DEF IdsOf, unmatched
  <2> QED
    BY <2>1, <2>2, <2>3 DEF IdsOf
<1>10. Disjoint(d.removed, Befores(d)) /\ Disjoint(d.added, Afters(d))
  <2>1. ASSUME NEW c \in d.changed PROVE c.before \notin d.removed /\ c.after \notin d.added
    BY <1>1, <1>3, <1>5 DEF AtPlace
  <2> QED
    BY <2>1 DEF Disjoint, Befores, Afters
<1>11. ASSUME NEW c \in d.changed
       PROVE  /\ c.before.place = c.after.place
              /\ \A e \in d.changed : e.before = c.before \/ e.after = c.after => e = c
  BY <1>1, <1>3, <1>5 DEF AtPlace
<1>12. ASSUME NEW r \in d.removed, NEW a \in d.added PROVE r.place # a.place
  BY <1>1, <1>3, <1>5 DEF AtPlace
<1>13. after.relations = (before.relations \ d.relationsRemoved) \cup d.relationsAdded
  BY <1>1
<1>14. back.added = d.removed /\ back.removed = d.added /\ Befores(back) = Afters(d)
  <2>1. back.added = d.removed /\ back.removed = d.added
    BY <1>1, <1>2, <1>4
  <2>2. ASSUME NEW r PROVE r \in Befores(back) <=> r \in Afters(d)
    <3>1. r \in Befores(back) <=> \E x \in places : r \in {c.before : c \in q(x).changed}
      BY <1>2 DEF Befores
    <3>2. r \in Afters(d) <=> \E x \in places : r \in {c.after : c \in p(x).changed}
      BY <1>1 DEF Afters
    <3> QED
      BY <1>4, <3>1, <3>2
  <2> QED
    BY <2>1, <2>2
<1> QED
  BY <1>8, <1>9, <1>10, <1>11, <1>12, <1>13, <1>14 DEF DiffIsPatch, d, back

-----------------------------------------------------------------------------
(* CodeChange: plans and their acceptance.                                 *)

\* What plans are made from: records, diagnostics and proposals as their validators
\* let them through.  An id is of one diagnostic; a target is a kind and a value.
PlanInput(i) ==
  /\ IsFiniteSet(i.diagnostics) /\ i.maxPlans \in Nat
  /\ \A d, e \in i.diagnostics : d.id \in Int /\ d.severity \in Range(Severities) /\ (d.id = e.id => d = e)
  /\ \A x \in Range(i.records) \cup Range(i.proposals) : \A t \in x.targets : t = <<t[1], t[2]>>

\* What comes before what in the plans.
PlanOrder(i) ==
  {p \in Candidates(i) \X Candidates(i) :
     \/ implementationDiagnosticRank(p[1]) < implementationDiagnosticRank(p[2])
     \/ implementationDiagnosticRank(p[1]) = implementationDiagnosticRank(p[2]) /\ p[1].id < p[2].id}

\* sort puts every element in its place.
LEMMA SortedByIsSorted ==
  ASSUME NEW S, IsFiniteSet(S), NEW R, StrictOrder(S, R)
  PROVE  Sorted(S, R, SortedBy(S, R)) /\ DOMAIN SortedBy(S, R) = 1 .. Cardinality(S)
<1>1. SortedBy(S, R) = [n \in 1 .. Cardinality(S) |-> CHOOSE x \in S : RankIn(S, R, x) = n - 1]
  BY Zenon DEF SortedBy, RankIn
<1>2. \A n \in 1 .. Cardinality(S) : SortedBy(S, R)[n] = CHOOSE x \in S : RankIn(S, R, x) = n - 1
  BY <1>1
<1>3. \A n \in 1 .. Cardinality(S) :
        (\E x \in S : RankIn(S, R, x) = n - 1) =>
          SortedBy(S, R)[n] \in S /\ RankIn(S, R, SortedBy(S, R)[n]) = n - 1
  BY <1>2
<1>4. Sorted(S, R, SortedBy(S, R))
  BY <1>3, RankedIsSorted
<1> QED
  BY <1>1, <1>4

\* Ids are an order.
LEMMA IdsAreOrder ==
  ASSUME NEW S, \A x, y \in S : x.id \in Int /\ (x.id = y.id => x = y)
  PROVE  StrictOrder(S, {p \in S \X S : p[1].id < p[2].id})
BY DEF StrictOrder

\* A rank and then the ids are an order.
LEMMA RanksAreOrder ==
  ASSUME NEW S, NEW rank, \A x, y \in S : rank[x] \in Int /\ x.id \in Int /\ (x.id = y.id => x = y),
         NEW R, \A x, y \in S : <<x, y>> \in R <=> rank[x] < rank[y] \/ (rank[x] = rank[y] /\ x.id < y.id)
  PROVE  StrictOrder(S, R)
BY DEF StrictOrder

\* The plans are the candidates' plans in their order, as many as may be.
PlansAre(i, s) ==
  LET count == Least(Cardinality(Candidates(i)), i.maxPlans) IN
  /\ Sorted(Candidates(i), PlanOrder(i), s)
  /\ Cardinality(Candidates(i)) \in Nat /\ count \in 0 .. Cardinality(Candidates(i)) /\ count <= i.maxPlans
  /\ count < Cardinality(Candidates(i)) => count = i.maxPlans
  /\ DOMAIN proposeCodeChangePlans(i) = 1 .. count /\ Len(proposeCodeChangePlans(i)) = count
  /\ \A n \in 1 .. count : proposeCodeChangePlans(i)[n] = buildPlanFromDiagnostic(i, s[n]) /\ s[n] \in Candidates(i)

\* They are so for every input.
LEMMA PlansAreThere ==
  ASSUME NEW i, PlanInput(i)
  PROVE  PlansAre(i, SortedBy(Candidates(i), PlanOrder(i)))
<1> DEFINE s == SortedBy(Candidates(i), PlanOrder(i))
           count == Least(Cardinality(Candidates(i)), i.maxPlans)
           rank == [d \in Candidates(i) |-> implementationDiagnosticRank(d)]
<1>1. IsFiniteSet(Candidates(i)) /\ Cardinality(Candidates(i)) \in Nat
  <2>1. Candidates(i) \in SUBSET i.diagnostics
    BY DEF Candidates
  <2> QED
    BY <2>1, FS_CardinalityType, FS_Subset DEF PlanInput
<1>2. \A d, e \in Candidates(i) : d.id \in Int /\ (d.id = e.id => d = e)
  BY DEF PlanInput, Candidates
<1>3. StrictOrder(Candidates(i), PlanOrder(i))
  <2>1. \A d, e \in Candidates(i) :
          <<d, e>> \in PlanOrder(i) <=> rank[d] < rank[e] \/ (rank[d] = rank[e] /\ d.id < e.id)
    BY DEF PlanOrder
  <2>2. \A d \in Candidates(i) : rank[d] \in Int
    BY DEF implementationDiagnosticRank
  <2> HIDE DEF rank
  <2> QED
    BY <1>2, <2>1, <2>2, RanksAreOrder
<1>4. Sorted(Candidates(i), PlanOrder(i), s)
  BY <1>1, <1>3, SortedByIsSorted
<1>5. /\ count \in 0 .. Cardinality(Candidates(i)) /\ count <= i.maxPlans
      /\ count < Cardinality(Candidates(i)) => count = i.maxPlans
  BY <1>1 DEF Least, PlanInput
<1>6. proposeCodeChangePlans(i) = [n \in 1 .. count |-> buildPlanFromDiagnostic(i, s[n])]
  BY Zenon DEF proposeCodeChangePlans, PlanOrder
<1>7. \A n \in 1 .. count : s[n] \in Candidates(i)
  BY <1>1, <1>4, <1>5 DEF Sorted
<1> HIDE DEF s, count
<1>8. /\ DOMAIN proposeCodeChangePlans(i) = 1 .. count
      /\ \A n \in 1 .. count : proposeCodeChangePlans(i)[n] = buildPlanFromDiagnostic(i, s[n])
  BY <1>6
<1>9. Len(proposeCodeChangePlans(i)) = count
  BY <1>1, <1>5, <1>6
<1> QED
  BY <1>1, <1>4, <1>5, <1>7, <1>8, <1>9 DEF PlansAre, s, count

\* What PlansStayInScope says of the paths of one plan.
InScope(i, plan, d) ==
  \A c \in plan.changes :
    /\ d.code \in IMPLEMENTATION_DIAGNOSTIC_CODES /\ isPlannablePath(c.path)
    /\ \/ \E r \in Range(i.records) : r.id \in plan.recordIds /\ <<"path", c.path>> \in r.targets
       \/ \E p \in Range(i.proposals) : plan.id \in p.diagnosticIds /\ <<"path", c.path>> \in p.targets
    /\ i.probed /\ c.path \notin i.files =>
         c.action = "create" /\ c.path.dirs # <<>> /\ \E r \in Range(i.records) :
           r.id \in plan.recordIds /\ (r.action = "add" \/ r.asksToCreate)
    /\ i.probed /\ c.path \in i.files => c.action = "modify"

\* Every path that is collected is plannable, and named by somebody it concerns.
LEMMA TargetIsNamed ==
  ASSUME NEW i, PlanInput(i), NEW d, NEW p \in collectTarget(i, d)
  PROVE  /\ isPlannablePath(p) /\ p.form = "relative"
         /\ \/ \E r \in Related(i, d) : <<"path", p>> \in r.targets
            \/ \E x \in Matching(i.proposals, d) : <<"path", p>> \in x.targets
<1>1. isPlannablePath(p) /\ p \in UNION {PathsOf(x.targets) : x \in Related(i, d) \cup Matching(i.proposals, d)}
  BY DEF collectTarget
<1>2. PICK x \in Related(i, d) \cup Matching(i.proposals, d) : p \in PathsOf(x.targets)
  BY <1>1
<1>3. PICK t \in x.targets : t[1] = "path" /\ p = t[2]
  BY <1>2 DEF PathsOf
<1>4. x \in Range(i.records) \cup Range(i.proposals)
  BY <1>2 DEF Related, Matching
<1>5. t = <<t[1], t[2]>>
  BY <1>4 DEF PlanInput
<1>6. <<"path", p>> \in x.targets
  BY <1>3, <1>5
<1>7. p.form = "relative"
  BY <1>1 DEF isPlannablePath
<1> QED
  BY <1>1, <1>2, <1>6, <1>7

\* One change for a path, from what exists and what is asked for.
LEMMA ChangesAre ==
  ASSUME NEW i, NEW d, NEW c \in buildChanges(i, d)
  PROVE  /\ c.path \in collectTarget(i, d)
         /\ c.action = IF Exists(i, c.path) THEN "modify" ELSE "create"
         /\ c = [path |-> c.path, action |-> IF Exists(i, c.path) THEN "modify" ELSE "create"]
         /\ Exists(i, c.path) \/ (c.path.dirs # <<>> /\ hasExplicitCreateIntent(Related(i, d)))
<1>1. PICK p \in {q \in collectTarget(i, d) :
                    Exists(i, q) \/ (q.dirs # <<>> /\ hasExplicitCreateIntent(Related(i, d)))} :
        c = [path |-> p, action |-> IF Exists(i, p) THEN "modify" ELSE "create"]
  BY Zenon DEF buildChanges
<1>2. c.path = p
  BY <1>1
<1> QED
  BY <1>1, <1>2

\* Ids of items of a sequence.
LEMMA IdsOfRange == ASSUME NEW s PROVE Ids(s) = {x.id : x \in Range(s)}
BY DEF Ids, Range

\* The plan of a candidate is in its scope, and meets its contract.
LEMMA PlanIsSound ==
  ASSUME NEW i, PlanInput(i), NEW d \in Candidates(i)
  PROVE  LET plan == buildPlanFromDiagnostic(i, d) IN
         /\ plan.id = d.id /\ plan.diagnosticIds = {d.id}
         /\ plan.priority = Priorities[Rank(d.severity, Severities)] /\ plan.graph = i.graph
         /\ InScope(i, plan, d)
         /\ PlanAccepted(plan, Known(i), i.graph)
         /\ PlanAccepted(plan, plan, i.graph)
         /\ assertCodeChangePlanForAcceptance(i, plan)
<1> DEFINE plan == buildPlanFromDiagnostic(i, d)
<1>1. /\ plan.id = d.id /\ plan.priority = priorityFor(d) /\ plan.target = collectTarget(i, d)
      /\ plan.changes = buildChanges(i, d) /\ plan.graph = i.graph /\ plan.diagnosticIds = {d.id}
      /\ plan.recordIds = {r.id : r \in Related(i, d)}
      /\ plan.conclusionIds = {c.id : c \in Matching(i.conclusions, d)}
      /\ plan.proposalIds = {p.id : p \in Matching(i.proposals, d)}
  BY DEF buildPlanFromDiagnostic
<1>2. /\ d \in i.diagnostics /\ d.code \in IMPLEMENTATION_DIAGNOSTIC_CODES
      /\ Related(i, d) # {} /\ buildChanges(i, d) # {}
  BY DEF Candidates
<1>3. /\ Known(i).recordIds = Ids(i.records) /\ Known(i).diagnosticIds = Diagnosed(i)
      /\ Known(i).conclusionIds = Ids(i.conclusions) /\ Known(i).proposalIds = Ids(i.proposals)
  BY DEF Known
<1>4. /\ plan.recordIds # {} /\ plan.recordIds \subseteq Ids(i.records)
      /\ plan.diagnosticIds # {} /\ plan.diagnosticIds \subseteq Diagnosed(i)
      /\ plan.conclusionIds \subseteq Ids(i.conclusions)
      /\ plan.proposalIds \subseteq Ids(i.proposals)
  BY <1>1, <1>2, IdsOfRange DEF Related, Matching, Diagnosed
<1>5. /\ plan.changes # {} /\ {c.path : c \in plan.changes} \subseteq plan.target
      /\ \A c, e \in plan.changes : c.path = e.path => c = e
      /\ \A p \in plan.target : p.form \notin {"absolute", "dots"}
  <2>1. \A c \in plan.changes : c.path \in plan.target
    BY <1>1, ChangesAre
  <2>2. \A c, e \in plan.changes : c.path = e.path => c = e
    BY <1>1, ChangesAre
  <2>3. \A p \in plan.target : p.form = "relative"
    BY <1>1 DEF collectTarget, isPlannablePath
  <2> QED
    BY <1>1, <1>2, <2>1, <2>2, <2>3
<1> HIDE DEF plan
<1>6. PlanAccepted(plan, Known(i), i.graph) /\ PlanAccepted(plan, plan, i.graph)
  BY <1>1, <1>3, <1>4, <1>5 DEF PlanAccepted
<1>7. assertCodeChangePlanForAcceptance(i, plan)
  <2> DEFINE known == [Known(i) EXCEPT !.conclusionIds = plan.conclusionIds, !.proposalIds = plan.proposalIds]
  <2>1. /\ known.recordIds = Ids(i.records) /\ known.diagnosticIds = Diagnosed(i)
        /\ known.conclusionIds = plan.conclusionIds /\ known.proposalIds = plan.proposalIds
    BY DEF Known
  <2>2. PlanAccepted(plan, known, i.graph)
    <3> HIDE DEF known
    <3> QED
      BY <1>1, <1>4, <1>5, <2>1 DEF PlanAccepted
  <2> QED
    BY <2>2 DEF assertCodeChangePlanForAcceptance
<1>8. InScope(i, plan, d)
  <2> SUFFICES ASSUME NEW c \in plan.changes
               PROVE  /\ isPlannablePath(c.path)
                      /\ \/ \E r \in Range(i.records) : r.id \in plan.recordIds /\ <<"path", c.path>> \in r.targets
                         \/ \E p \in Range(i.proposals) : plan.id \in p.diagnosticIds /\ <<"path", c.path>> \in p.targets
                      /\ i.probed /\ c.path \notin i.files =>
                           c.action = "create" /\ c.path.dirs # <<>> /\ \E r \in Range(i.records) :
                             r.id \in plan.recordIds /\ (r.action = "add" \/ r.asksToCreate)
                      /\ i.probed /\ c.path \in i.files => c.action = "modify"
    BY <1>2, Zenon DEF InScope
  <2>1. /\ c.path \in collectTarget(i, d)
        /\ c.action = IF Exists(i, c.path) THEN "modify" ELSE "create"
        /\ Exists(i, c.path) \/ (c.path.dirs # <<>> /\ hasExplicitCreateIntent(Related(i, d)))
    BY <1>1, ChangesAre
  <2>2. /\ isPlannablePath(c.path) /\ c.path.form = "relative"
        /\ \/ \E r \in Related(i, d) : <<"path", c.path>> \in r.targets
           \/ \E x \in Matching(i.proposals, d) : <<"path", c.path>> \in x.targets
    BY <2>1, TargetIsNamed
  <2>3. \/ \E r \in Range(i.records) : r.id \in plan.recordIds /\ <<"path", c.path>> \in r.targets
        \/ \E p \in Range(i.proposals) : plan.id \in p.diagnosticIds /\ <<"path", c.path>> \in p.targets
    BY <1>1, <2>2 DEF Related, Matching
  <2>4. i.probed => (Exists(i, c.path) <=> c.path \in i.files)
    BY <2>2 DEF Exists
  <2>5. hasExplicitCreateIntent(Related(i, d)) =>
          \E r \in Range(i.records) : r.id \in plan.recordIds /\ (r.action = "add" \/ r.asksToCreate)
    BY <1>1 DEF Related, hasExplicitCreateIntent
  <2> QED
    BY <2>1, <2>2, <2>3, <2>4, <2>5
<1> QED
  BY <1>1, <1>6, <1>7, <1>8 DEF plan, priorityFor

\* As many as there are places, when no two places have the same.
LEMMA InjectiveCount ==
  ASSUME NEW n \in Nat, NEW f, DOMAIN f = 1 .. n, \A j, k \in 1 .. n : f[j] = f[k] => j = k
  PROVE  IsFiniteSet(Range(f)) /\ Cardinality(Range(f)) = n
<1> DEFINE g == [k \in 1 .. n |-> f[k]]
<1>1. /\ IsFiniteSet(1 .. n) /\ Cardinality(1 .. n) = n
  <2>1. IsFiniteSet(1 .. n) /\ Cardinality(1 .. n) = IF 1 > n THEN 0 ELSE n - 1 + 1
    BY FS_Interval
  <2> QED
    BY <2>1
<1>2. g \in Bijection(1 .. n, Range(f))
  BY DEF Bijection, Injection, Surjection, IsInjective, Range
<1> HIDE DEF g
<1>3. IsFiniteSet(Range(f)) /\ Cardinality(1 .. n) = Cardinality(Range(f))
  <2>1. ExistsBijection(1 .. n, Range(f))
    BY <1>2 DEF ExistsBijection
  <2> QED
    BY <1>1, <2>1, FS_Bijection
<1> QED
  BY <1>1, <1>3

\* The plans by their places, and each of them with an id of its own.
LEMMA PlansAreApart ==
  ASSUME NEW i, PlanInput(i), NEW s, PlansAre(i, s)
  PROVE  LET plans == proposeCodeChangePlans(i)
             count == Least(Cardinality(Candidates(i)), i.maxPlans)
         IN /\ count \in Nat /\ \A n \in 1 .. count : plans[n].id = s[n].id /\ s[n] \in Candidates(i)
            /\ \A m, n \in 1 .. count : plans[m].id = plans[n].id => m = n
            /\ \A p, q \in Range(plans) : p.id \in Int /\ (p.id = q.id => p = q)
            /\ IsFiniteSet(Range(plans)) /\ Cardinality(Range(plans)) = count
            /\ Cardinality(Ids(plans)) = count
<1> DEFINE plans == proposeCodeChangePlans(i)
           count == Least(Cardinality(Candidates(i)), i.maxPlans)
<1>1. /\ count \in Nat /\ count <= Cardinality(Candidates(i)) /\ DOMAIN plans = 1 .. count
      /\ \A n \in 1 .. count : plans[n] = buildPlanFromDiagnostic(i, s[n]) /\ s[n] \in Candidates(i)
      /\ Cardinality(Candidates(i)) \in Nat
  BY DEF PlansAre
<1> HIDE DEF plans, count
<1>2. \A n \in 1 .. count : plans[n].id = s[n].id
  BY <1>1, PlanIsSound
<1>3. \A d, e \in Candidates(i) : d.id \in Int /\ (d.id = e.id => d = e)
  BY DEF PlanInput, Candidates
<1>4. \A m, n \in 1 .. count : plans[m].id = plans[n].id => m = n
  <2> SUFFICES ASSUME NEW m \in 1 .. count, NEW n \in 1 .. count, plans[m].id = plans[n].id, m # n PROVE FALSE
    OBVIOUS
  <2>1. s[m] = s[n]
    BY <1>1, <1>2, <1>3
  <2>2. m \in 1 .. Cardinality(Candidates(i)) /\ n \in 1 .. Cardinality(Candidates(i)) /\ (m < n \/ n < m)
    BY <1>1
  <2>3. s[m] # s[n]
    BY <2>2 DEF PlansAre, Sorted
  <2> QED
    BY <2>1, <2>3
<1>5. \A p, q \in Range(plans) : p.id \in Int /\ (p.id = q.id => p = q)
  <2>1. \A p \in Range(plans) : \E n \in 1 .. count : p = plans[n]
    BY <1>1 DEF Range
  <2>2. \A n \in 1 .. count : plans[n].id \in Int
    BY <1>1, <1>2, <1>3
  <2> QED
    BY <1>4, <2>1, <2>2
<1>6. IsFiniteSet(Range(plans)) /\ Cardinality(Range(plans)) = count
  <2>1. \A m, n \in 1 .. count : plans[m] = plans[n] => m = n
    BY <1>4
  <2> QED
    BY <1>1, <2>1, InjectiveCount
<1>7. Cardinality(Ids(plans)) = count
  <2> DEFINE ids == [n \in 1 .. count |-> plans[n].id]
  <2>1. DOMAIN ids = 1 .. count /\ \A m, n \in 1 .. count : ids[m] = ids[n] => m = n
    BY <1>4
  <2>2. Range(ids) = Ids(plans)
    BY <1>1 DEF Ids, Range
  <2> HIDE DEF ids
  <2>3. Cardinality(Range(ids)) = count
    BY <1>1, <2>1, InjectiveCount
  <2> QED
    BY <2>2, <2>3
<1> QED
  BY <1>1, <1>2, <1>4, <1>5, <1>6, <1>7 DEF plans, count

\* Ranks of the priorities.
LEMMA PriorityRanks ==
  /\ \A p \in Range(Priorities) : Rank(p, Priorities) \in 1 .. 4 /\ Priorities[Rank(p, Priorities)] = p
  /\ \A v \in Range(Severities) : Priorities[Rank(v, Severities)] \in Range(Priorities)
<1>1. \A p \in Range(Priorities) : Rank(p, Priorities) \in 1 .. 4 /\ Priorities[Rank(p, Priorities)] = p
  BY DEF Range, Rank, Priorities
<1>2. \A v \in Range(Severities) : Rank(v, Severities) \in 1 .. 4
  BY DEF Range, Rank, Severities
<1>3. \A n \in 1 .. 4 : Priorities[n] \in Range(Priorities)
  BY DEF Range, Priorities
<1> QED
  BY <1>1, <1>2, <1>3

\* The review holds the plans in the order of the brief.
LEMMA ReviewIsSorted ==
  ASSUME NEW plans, IsFiniteSet(Range(plans)),
         \A p, q \in Range(plans) : p.id \in Int /\ p.priority \in Range(Priorities) /\ (p.id = q.id => p = q)
  PROVE  LET review == createCodeChangeReviewPatch(plans)
             count == Cardinality(Range(plans))
         IN /\ DOMAIN review = 1 .. count /\ Len(review) = count /\ Range(review) = Range(plans)
            /\ \A k \in 2 .. Len(review) :
                 Rank(review[k].priority, Priorities) >= Rank(review[k - 1].priority, Priorities)
<1> DEFINE S == Range(plans)
           rank == [p \in S |-> Rank(p.priority, Priorities)]
           before == {p \in S \X S : \/ Rank(p[1].priority, Priorities) < Rank(p[2].priority, Priorities)
                                     \/ p[1].priority = p[2].priority /\ p[1].id < p[2].id}
           review == createCodeChangeReviewPatch(plans)
           count == Cardinality(S)
<1>1. \A p \in S : rank[p] \in Int /\ Priorities[rank[p]] = p.priority
  BY PriorityRanks
<1>2. \A p, q \in S : <<p, q>> \in before <=> rank[p] < rank[q] \/ (rank[p] = rank[q] /\ p.id < q.id)
  <2>1. \A p, q \in S : p.priority = q.priority <=> rank[p] = rank[q]
    <3> SUFFICES ASSUME NEW p \in S, NEW q \in S PROVE p.priority = q.priority <=> rank[p] = rank[q]
      OBVIOUS
    <3>1. p.priority = q.priority => rank[p] = rank[q]
      OBVIOUS
    <3>2. Priorities[rank[p]] = p.priority /\ Priorities[rank[q]] = q.priority
      BY <1>1
    <3> HIDE DEF rank
    <3> QED
      BY <3>1, <3>2, Zenon
  <2> QED
    BY <2>1
<1>3. StrictOrder(S, before)
  <2> HIDE DEF rank, before, S
  <2>1. \A x, y \in S : rank[x] \in Int /\ x.id \in Int /\ (x.id = y.id => x = y)
    BY <1>1 DEF S
  <2> QED
    BY <1>2, <2>1, RanksAreOrder
<1>4. review = SortedBy(S, before)
  BY Zenon DEF createCodeChangeReviewPatch
<1>5. count \in Nat /\ Sorted(S, before, review) /\ DOMAIN review = 1 .. count
  <2> HIDE DEF before, S, review
  <2>1. IsFiniteSet(S)
    BY DEF S
  <2> QED
    BY <1>3, <1>4, <2>1, SortedByIsSorted, FS_CardinalityType
<1>6. Len(review) = count
  <2>1. review = [n \in 1 .. count |-> CHOOSE x \in S : Cardinality({y \in S : <<y, x>> \in before}) = n - 1]
    BY <1>4 DEF SortedBy
  <2> HIDE DEF before, S, review
  <2> QED
    BY <1>5, <2>1
<1>7. Range(review) = S
  <2> HIDE DEF before, S, review, count
  <2> QED
    BY <1>5 DEF Sorted, Range, count
<1>8. ASSUME NEW k \in 2 .. Len(review)
      PROVE  Rank(review[k].priority, Priorities) >= Rank(review[k - 1].priority, Priorities)
  <2>1. k \in 1 .. count /\ k - 1 \in 1 .. count /\ k - 1 < k
    BY <1>5, <1>6
  <2> HIDE DEF before, S, review, count
  <2>2. <<review[k - 1], review[k]>> \in before /\ review[k - 1] \in S /\ review[k] \in S
    BY <1>5, <2>1 DEF Sorted, count
  <2>3. rank[review[k - 1]] <= rank[review[k]]
    <3> HIDE DEF rank
    <3> QED
      BY <1>1, <1>2, <2>2
  <2>4. /\ rank[review[k]] = Rank(review[k].priority, Priorities) /\ rank[review[k]] \in Int
        /\ rank[review[k - 1]] = Rank(review[k - 1].priority, Priorities) /\ rank[review[k - 1]] \in Int
    BY <1>1, <2>2
  <2> HIDE DEF rank
  <2> QED
    BY <2>3, <2>4
<1> QED
  BY <1>5, <1>6, <1>7, <1>8

\* What source patches are made of plans: one for each, under its id.
LEMMA PatchesAre ==
  ASSUME NEW plans, NEW diffs, IsFiniteSet(Range(plans)), \A p, q \in Range(plans) : p.id \in Int /\ (p.id = q.id => p = q)
  PROVE  LET patches == createCodeChangeSourcePatchSet(plans, diffs)
         IN /\ Len(patches) = Cardinality(Range(plans))
            /\ \A p \in Range(plans) : createCodeChangeSourcePatch(p, diffs) \in Range(patches)
<1> DEFINE S == Range(plans)
           before == {p \in S \X S : p[1].id < p[2].id}
           sorted == SortedBy(S, before)
           patches == createCodeChangeSourcePatchSet(plans, diffs)
<1>1. StrictOrder(S, before)
  BY IdsAreOrder
<1>2. Sorted(S, before, sorted) /\ DOMAIN sorted = 1 .. Cardinality(S) /\ Cardinality(S) \in Nat
  <2> HIDE DEF before
  <2> QED
    BY <1>1, SortedByIsSorted, FS_CardinalityType
<1>3. patches = [n \in DOMAIN sorted |-> createCodeChangeSourcePatch(sorted[n], diffs)]
  BY Zenon DEF createCodeChangeSourcePatchSet
<1> HIDE DEF S, before, sorted, patches
<1>4. patches = [n \in 1 .. Cardinality(S) |-> createCodeChangeSourcePatch(sorted[n], diffs)]
  BY <1>2, <1>3
<1>5. Len(patches) = Cardinality(S)
  BY <1>2, <1>4
<1>6. ASSUME NEW p \in S PROVE createCodeChangeSourcePatch(p, diffs) \in Range(patches)
  <2>1. PICK n \in 1 .. Cardinality(S) : sorted[n] = p
    BY <1>2 DEF Sorted
  <2>2. n \in DOMAIN patches /\ patches[n] = createCodeChangeSourcePatch(p, diffs)
    BY <1>4, <2>1
  <2> QED
    BY <2>2 DEF Range
<1> QED
  BY <1>5, <1>6 DEF S, patches

\* A source patch is of its plan, and holds its changes with the diffs for them.
LEMMA PatchIsOfPlan ==
  ASSUME NEW plan, NEW diffs, DiffsAccepted(plan, diffs), PlanAccepted(plan, plan, plan.graph)
  PROVE  assertCodeChangeSourcePatch(createCodeChangeSourcePatch(plan, diffs), plan)
<1> DEFINE patch == createCodeChangeSourcePatch(plan, diffs)
           EditOf(c) == [path |-> c.path, action |-> c.action,
                         unifiedDiff |-> IF c.path \in DOMAIN diffs THEN {diffs[c.path]} ELSE {}]
<1>1. /\ patch.plan = plan.id /\ patch.graph = plan.graph /\ patch.diagnosticIds = plan.diagnosticIds
      /\ patch.recordIds = plan.recordIds /\ patch.edits = {EditOf(c) : c \in plan.changes}
  BY DEF createCodeChangeSourcePatch
<1>2. /\ plan.changes # {} /\ {c.path : c \in plan.changes} \subseteq plan.target
      /\ \A c, e \in plan.changes : c.path = e.path => c = e
      /\ \A p \in plan.target : p.form \notin {"absolute", "dots"}
  BY DEF PlanAccepted
<1>3. /\ DOMAIN diffs \subseteq plan.target
      /\ \A p \in {c.path : c \in plan.changes} \cap DOMAIN diffs : diffs[p].headers \subseteq {p}
  BY DEF DiffsAccepted
<1>4. \A c : /\ EditOf(c).path = c.path /\ EditOf(c).action = c.action
             /\ EditOf(c).unifiedDiff = IF c.path \in DOMAIN diffs THEN {diffs[c.path]} ELSE {}
  OBVIOUS
<1> HIDE DEF patch, EditOf
<1>5. /\ patch.edits # {}
      /\ \A e \in patch.edits : \E c \in plan.changes : e = EditOf(c)
      /\ \A c \in plan.changes : EditOf(c) \in patch.edits
  BY <1>1, <1>2
<1>6. \A e \in patch.edits : e.path.form \notin {"absolute", "dots"} /\ \A d \in e.unifiedDiff : d.headers \subseteq {e.path}
  <2> SUFFICES ASSUME NEW c \in plan.changes
               PROVE  /\ EditOf(c).path.form \notin {"absolute", "dots"}
                      /\ \A d \in EditOf(c).unifiedDiff : d.headers \subseteq {EditOf(c).path}
    BY <1>5
  <2>1. c.path \in plan.target /\ (c.path \in DOMAIN diffs => diffs[c.path].headers \subseteq {c.path})
    BY <1>2, <1>3
  <2> QED
    BY <1>2, <1>4, <2>1
<1>7. \A e, f \in patch.edits : e.path = f.path /\ e.action = f.action => e = f
  <2> SUFFICES ASSUME NEW c \in plan.changes, NEW e \in plan.changes, EditOf(c).path = EditOf(e).path
               PROVE  EditOf(c) = EditOf(e)
    BY <1>5
  <2>1. c = e
    BY <1>2, <1>4
  <2> QED
    BY <2>1
<1>8. {e.path : e \in patch.edits} \subseteq plan.target
  BY <1>2, <1>4, <1>5
<1>9. {<<e.path, e.action>> : e \in patch.edits} = {<<c.path, c.action>> : c \in plan.changes}
  <2>1. ASSUME NEW x \in {<<e.path, e.action>> : e \in patch.edits} PROVE x \in {<<c.path, c.action>> : c \in plan.changes}
    BY <1>4, <1>5
  <2>2. ASSUME NEW c \in plan.changes PROVE <<c.path, c.action>> \in {<<e.path, e.action>> : e \in patch.edits}
    <3>1. <<EditOf(c).path, EditOf(c).action>> \in {<<e.path, e.action>> : e \in patch.edits}
      BY <1>5
    <3> QED
      BY <1>4, <3>1
  <2> QED
    BY <2>1, <2>2
<1>10. assertCodeChangeSourcePatch(patch, plan)
  BY <1>1, <1>5, <1>6, <1>7, <1>8, <1>9 DEF assertCodeChangeSourcePatch
<1> QED
  BY <1>10 DEF patch

\* Plans for any diagnostics, records and proposals, and any diffs given for them,
\* stay in their scope, pass their contracts and lose nothing on the way to the
\* review and the patches (proposeCodeChangePlans, createCodeChangeReviewPatch,
\* createCodeChangeSourcePatchSet).
THEOREM PlansAreInScope ==
  ASSUME NEW i, PlanInput(i), NEW diffs
  PROVE  PlansStayInScope(i, diffs)
<1> DEFINE plans == proposeCodeChangePlans(i)
           s == SortedBy(Candidates(i), PlanOrder(i))
           count == Least(Cardinality(Candidates(i)), i.maxPlans)
           review == createCodeChangeReviewPatch(plans)
           patches == createCodeChangeSourcePatchSet(plans, diffs)
           of(id) == CHOOSE d \in i.diagnostics : d.id = id
<1>1. PlansAre(i, s)
  BY PlansAreThere
<1> HIDE DEF s
<1>2. /\ Sorted(Candidates(i), PlanOrder(i), s)
      /\ Cardinality(Candidates(i)) \in Nat /\ count \in 0 .. Cardinality(Candidates(i)) /\ count <= i.maxPlans
      /\ count < Cardinality(Candidates(i)) => count = i.maxPlans
      /\ DOMAIN plans = 1 .. count /\ Len(plans) = count
      /\ \A n \in 1 .. count : plans[n] = buildPlanFromDiagnostic(i, s[n]) /\ s[n] \in Candidates(i)
  BY <1>1 DEF PlansAre
<1>3. /\ count \in Nat /\ \A n \in 1 .. count : plans[n].id = s[n].id /\ s[n] \in Candidates(i)
      /\ \A p, q \in Range(plans) : p.id \in Int /\ (p.id = q.id => p = q)
      /\ IsFiniteSet(Range(plans)) /\ Cardinality(Range(plans)) = count /\ Cardinality(Ids(plans)) = count
  BY <1>1, PlansAreApart
<1> HIDE DEF plans, count
<1>4. \A plan \in Range(plans) : \E n \in 1 .. count : plan = buildPlanFromDiagnostic(i, s[n]) /\ s[n] \in Candidates(i)
  BY <1>2 DEF Range
<1>5. ASSUME NEW d \in Candidates(i) PROVE d \in i.diagnostics /\ of(d.id) = d
  BY DEF Candidates, PlanInput
<1> HIDE DEF of
<1>6. ASSUME NEW plan \in Range(plans)
      PROVE  /\ PlanAccepted(plan, Known(i), i.graph) /\ PlanAccepted(plan, plan, i.graph) /\ plan.graph = i.graph
             /\ plan.priority \in Range(Priorities) /\ of(plan.id) \in Candidates(i)
             /\ InScope(i, plan, of(plan.id))
  <2>1. PICK n \in 1 .. count : plan = buildPlanFromDiagnostic(i, s[n]) /\ s[n] \in Candidates(i)
    BY <1>4
  <2>2. /\ plan.id = s[n].id /\ plan.priority = Priorities[Rank(s[n].severity, Severities)] /\ plan.graph = i.graph
        /\ InScope(i, plan, s[n])
        /\ PlanAccepted(plan, Known(i), i.graph) /\ PlanAccepted(plan, plan, i.graph)
    BY <2>1, PlanIsSound
  <2>3. of(plan.id) = s[n] /\ s[n].severity \in Range(Severities)
    BY <1>5, <2>1, <2>2 DEF PlanInput
  <2> QED
    BY <2>1, <2>2, <2>3, PriorityRanks
<1>7. assertCodeChangePlans(i, plans) /\ assertCodeChangePlansForReview(plans, i.graph) /\ Len(plans) <= i.maxPlans
  BY <1>2, <1>3, <1>6 DEF assertCodeChangePlans, assertCodeChangePlansForReview
<1>8. \A plan \in Range(plans) : \A c \in plan.changes :
        /\ of(plan.id).code \in IMPLEMENTATION_DIAGNOSTIC_CODES /\ isPlannablePath(c.path)
        /\ \/ \E r \in Range(i.records) : r.id \in plan.recordIds /\ <<"path", c.path>> \in r.targets
           \/ \E p \in Range(i.proposals) : plan.id \in p.diagnosticIds /\ <<"path", c.path>> \in p.targets
        /\ i.probed /\ c.path \notin i.files =>
             c.action = "create" /\ c.path.dirs # <<>> /\ \E r \in Range(i.records) :
               r.id \in plan.recordIds /\ (r.action = "add" \/ r.asksToCreate)
        /\ i.probed /\ c.path \in i.files => c.action = "modify"
  BY <1>6, Zenon DEF InScope
<1>9. ASSUME NEW d \in i.diagnostics, NEW plan \in Range(plans),
             d.code = "PLANNED_NOT_IMPLEMENTED", Related(i, d) # {}, buildChanges(i, d) # {}, d.id \notin Ids(plans)
      PROVE  of(plan.id).code = d.code
  <2>1. d \in Candidates(i)
    BY <1>9 DEF Candidates, IMPLEMENTATION_DIAGNOSTIC_CODES
  <2>2. PICK m \in 1 .. Cardinality(Candidates(i)) : s[m] = d
    BY <1>2, <2>1 DEF Sorted
  <2>3. m > count
    <3>1. m \in 1 .. count => plans[m].id \in Ids(plans)
      BY <1>2 DEF Ids
    <3> QED
      BY <1>2, <1>3, <1>9, <2>2, <3>1
  <2>4. PICK n \in 1 .. count : plan = buildPlanFromDiagnostic(i, s[n]) /\ s[n] \in Candidates(i)
    BY <1>4
  <2>5. n \in 1 .. Cardinality(Candidates(i)) /\ n < m
    BY <1>2, <2>2, <2>3, <2>4
  <2>6. <<s[n], d>> \in PlanOrder(i)
    BY <1>2, <2>2, <2>5 DEF Sorted
  <2>7. s[n].code = d.code
    BY <1>9, <2>6 DEF PlanOrder, implementationDiagnosticRank
  <2>8. plan.id = s[n].id
    BY <2>4, PlanIsSound
  <2>9. of(plan.id) = s[n]
    BY <1>5, <2>4, <2>8
  <2> QED
    BY <2>7, <2>9
<1>10. /\ Range(review) = Range(plans) /\ Len(review) = Len(plans)
       /\ \A k \in 2 .. Len(review) :
            Rank(review[k].priority, Priorities) >= Rank(review[k - 1].priority, Priorities)
  BY <1>2, <1>3, <1>6, ReviewIsSorted
<1>11. /\ Len(patches) = Len(plans)
       /\ \A p \in Range(plans) : createCodeChangeSourcePatch(p, diffs) \in Range(patches)
  BY <1>2, <1>3, PatchesAre
<1> HIDE DEF review, patches
<1>12. ASSUME NEW plan \in Range(plans), DiffsAccepted(plan, diffs)
       PROVE  \E p \in Range(patches) : assertCodeChangeSourcePatch(p, plan)
  <2>1. PlanAccepted(plan, plan, plan.graph)
    BY <1>6
  <2>2. assertCodeChangeSourcePatch(createCodeChangeSourcePatch(plan, diffs), plan)
    BY <1>12, <2>1, PatchIsOfPlan
  <2> QED
    BY <1>11, <2>2
<1> QED
  BY <1>7, <1>8, <1>9, <1>10, <1>11, <1>12, Zenon DEF PlansStayInScope, plans, review, patches, of

\* How many plans are accepted.
AcceptedPlaces(plans, before, after) ==
  {n \in DOMAIN plans : evaluateCodeChangeAcceptance(plans[n], before, after).accepted}

\* closeCodeChanges counts the places of the accepted ones.
LEMMA ClosingCounts ==
  ASSUME NEW plans, NEW before, NEW after
  PROVE  LET closed == closeCodeChanges(plans, before, after)
             accepted == Cardinality(AcceptedPlaces(plans, before, after))
         IN /\ closed.acceptedCount = accepted /\ closed.rejectedCount = Len(plans) - accepted
            /\ closed.allAccepted <=> plans # <<>> /\ accepted = Len(plans)
            /\ \A n \in DOMAIN plans : closed.acceptances[n] = evaluateCodeChangeAcceptance(plans[n], before, after)
<1> DEFINE verdicts == [n \in DOMAIN plans |-> evaluateCodeChangeAcceptance(plans[n], before, after)]
           counted == Cardinality({n \in DOMAIN plans : verdicts[n].accepted})
<1>1. counted = Cardinality(AcceptedPlaces(plans, before, after))
  <2>1. {n \in DOMAIN plans : verdicts[n].accepted} = AcceptedPlaces(plans, before, after)
    <3> HIDE DEF evaluateCodeChangeAcceptance
    <3> QED
      BY Zenon DEF AcceptedPlaces
  <2> QED
    BY <2>1
<1>2. closeCodeChanges(plans, before, after) =
        [acceptances |-> verdicts, acceptedCount |-> counted, rejectedCount |-> Len(plans) - counted,
         allAccepted |-> plans # <<>> /\ counted = Len(plans)]
  BY Zenon DEF closeCodeChanges
<1>3. \A n \in DOMAIN plans : verdicts[n] = evaluateCodeChangeAcceptance(plans[n], before, after)
  OBVIOUS
<1> HIDE DEF verdicts, counted
<1>4. LET closed == closeCodeChanges(plans, before, after)
      IN /\ closed.acceptedCount = counted /\ closed.rejectedCount = Len(plans) - counted
         /\ closed.allAccepted <=> plans # <<>> /\ counted = Len(plans)
         /\ closed.acceptances = verdicts
  <2> DEFINE result == closeCodeChanges(plans, before, after)
             all == (plans # <<>> /\ counted = Len(plans))
  <2>1. result.acceptedCount = counted /\ result.rejectedCount = Len(plans) - counted /\ result.acceptances = verdicts
    BY <1>2
  <2>2. result.allAccepted = all
    <3>1. result = [acceptances |-> verdicts, acceptedCount |-> counted, rejectedCount |-> Len(plans) - counted,
                    allAccepted |-> all]
      BY <1>2, Zenon
    <3> HIDE DEF all, result
    <3> QED
      BY <3>1
  <2>3. result.allAccepted <=> all
    <3> HIDE DEF result, all
    <3> QED
      BY <2>2, Zenon
  <2> QED
    BY <2>1, <2>3, Zenon
<1> QED
  BY <1>1, <1>3, <1>4

\* For any diagnostics before and after, plans are closed by evidence alone, and
\* more diagnostics never close more (closeCodeChanges).
THEOREM PlansAreClosedByEvidence ==
  ASSUME NEW i, PlanInput(i), NEW after
  PROVE  ClosingIsEarned(i, after)
<1> DEFINE plans == proposeCodeChangePlans(i)
           s == SortedBy(Candidates(i), PlanOrder(i))
           count == Least(Cardinality(Candidates(i)), i.maxPlans)
           closed == closeCodeChanges(plans, i.diagnostics, after)
           Places(now) == AcceptedPlaces(plans, i.diagnostics, now)
           Verdict(n, now) == evaluateCodeChangeAcceptance(plans[n], i.diagnostics, now)
<1>1. PlansAre(i, s)
  BY PlansAreThere
<1> HIDE DEF s
<1>2. /\ count \in Nat /\ DOMAIN plans = 1 .. count /\ Len(plans) = count
      /\ \A n \in 1 .. count : plans[n] = buildPlanFromDiagnostic(i, s[n]) /\ s[n] \in Candidates(i)
  BY <1>1 DEF PlansAre
<1> HIDE DEF plans, count
<1>3. ASSUME NEW n \in 1 .. count
      PROVE  /\ plans[n].diagnosticIds = {s[n].id} /\ s[n] \in i.diagnostics
             /\ assertCodeChangePlanForAcceptance(i, plans[n])
  <2>1. plans[n] = buildPlanFromDiagnostic(i, s[n]) /\ s[n] \in Candidates(i)
    BY <1>2
  <2> QED
    BY <2>1, PlanIsSound DEF Candidates
<1>4. /\ IsFiniteSet(DOMAIN plans) /\ Cardinality(DOMAIN plans) = count
  <2>1. IsFiniteSet(1 .. count) /\ Cardinality(1 .. count) = IF 1 > count THEN 0 ELSE count - 1 + 1
    BY <1>2, FS_Interval
  <2> QED
    BY <1>2, <2>1
<1>5. \A now : /\ Places(now) \in SUBSET DOMAIN plans /\ IsFiniteSet(Places(now)) /\ Cardinality(Places(now)) \in Nat
               /\ Cardinality(Places(now)) <= count /\ (Cardinality(Places(now)) = count => Places(now) = DOMAIN plans)
  <2> SUFFICES ASSUME NEW now
               PROVE  /\ Places(now) \in SUBSET DOMAIN plans /\ IsFiniteSet(Places(now)) /\ Cardinality(Places(now)) \in Nat
                      /\ Cardinality(Places(now)) <= count /\ (Cardinality(Places(now)) = count => Places(now) = DOMAIN plans)
    OBVIOUS
  <2>1. Places(now) \in SUBSET DOMAIN plans
    BY DEF AcceptedPlaces
  <2> HIDE DEF Places
  <2> QED
    BY <1>4, <2>1, FS_Subset, FS_CardinalityType
<1>6. \A n, now : /\ Verdict(n, now).plan = plans[n].id
                  /\ Verdict(n, now).cleared = plans[n].diagnosticIds \ {d.id : d \in now}
                  /\ Verdict(n, now).remaining = plans[n].diagnosticIds \cap {d.id : d \in now}
                  /\ Verdict(n, now).newBlocking =
                       {d.id : d \in {e \in now : e.severity = "blocking" /\ \A b \in i.diagnostics : b.id # e.id}}
                  /\ Verdict(n, now).accepted <=>
                       Verdict(n, now).remaining = {} /\ Verdict(n, now).newBlocking = {}
  BY DEF evaluateCodeChangeAcceptance
<1>7. \A now : \A n : n \in Places(now) <=> n \in DOMAIN plans /\ Verdict(n, now).accepted
  BY DEF AcceptedPlaces
<1> HIDE DEF Verdict, Places
<1>8. closeCodeChanges(plans, i.diagnostics, i.diagnostics).acceptedCount = 0
  <2>1. \A n \in 1 .. count : Verdict(n, i.diagnostics).remaining # {}
    <3> SUFFICES ASSUME NEW n \in 1 .. count PROVE Verdict(n, i.diagnostics).remaining # {}
      OBVIOUS
    <3>1. s[n].id \in {d.id : d \in i.diagnostics} /\ s[n].id \in plans[n].diagnosticIds
      BY <1>3
    <3>2. Verdict(n, i.diagnostics).remaining = plans[n].diagnosticIds \cap {d.id : d \in i.diagnostics}
      BY <1>6
    <3> QED
      BY <3>1, <3>2
  <2>2. Places(i.diagnostics) = {}
    BY <1>2, <1>6, <1>7, <2>1
  <2>3. Cardinality(Places(i.diagnostics)) = 0
    BY <2>2, FS_EmptySet
  <2> QED
    BY <2>3, ClosingCounts DEF Places
<1>9. closed.acceptedCount + closed.rejectedCount = Len(plans)
  <2>1. closed.acceptedCount = Cardinality(Places(after)) /\ closed.rejectedCount = Len(plans) - Cardinality(Places(after))
    BY ClosingCounts DEF Places
  <2> HIDE DEF closed
  <2> QED
    BY <1>2, <1>5, <2>1
<1>10. ASSUME NEW n \in DOMAIN plans PROVE assertCodeChangeAcceptance(i, closed.acceptances[n], plans[n], after)
  <2>1. closed.acceptances[n] = Verdict(n, after)
    BY ClosingCounts DEF Verdict
  <2>2. Verdict(n, after).newBlocking = {d.id : d \in {e \in after : e.severity = "blocking"}} \ Diagnosed(i)
    <3> DEFINE news == {d.id : d \in {e \in after : e.severity = "blocking" /\ \A b \in i.diagnostics : b.id # e.id}}
               blocking == {d.id : d \in {e \in after : e.severity = "blocking"}}
    <3>1. \A x : x \in news <=> x \in blocking \ {d.id : d \in i.diagnostics}
      OBVIOUS
    <3>2. news = blocking \ Diagnosed(i)
      BY <3>1, Zenon DEF Diagnosed
    <3> QED
      BY <1>6, <3>2
  <2>3. assertCodeChangePlanForAcceptance(i, plans[n])
    BY <1>2, <1>3
  <2>4. assertCodeChangeAcceptance(i, Verdict(n, after), plans[n], after)
    BY <1>6, <2>2, <2>3 DEF assertCodeChangeAcceptance
  <2> QED
    BY <2>1, <2>4
<1>11. ASSUME closed.allAccepted
       PROVE  /\ plans # <<>> /\ \A plan \in Range(plans) : plan.diagnosticIds \cap {d.id : d \in after} = {}
              /\ \A d \in after : d.severity = "blocking" => \E b \in i.diagnostics : b.id = d.id
  <2>1. plans # <<>> /\ Cardinality(Places(after)) = Len(plans)
    BY <1>11, ClosingCounts DEF Places
  <2>2. Places(after) = DOMAIN plans
    BY <1>2, <1>5, <2>1
  <2>3. \A n \in DOMAIN plans : Verdict(n, after).remaining = {} /\ Verdict(n, after).newBlocking = {}
    BY <1>6, <1>7, <2>2
  <2>4. \A plan \in Range(plans) : plan.diagnosticIds \cap {d.id : d \in after} = {}
    <3>1. \A n \in DOMAIN plans : plans[n].diagnosticIds \cap {d.id : d \in after} = {}
      <4> SUFFICES ASSUME NEW n \in DOMAIN plans PROVE plans[n].diagnosticIds \cap {d.id : d \in after} = {}
        OBVIOUS
      <4>1. Verdict(n, after).remaining = plans[n].diagnosticIds \cap {d.id : d \in after}
        BY <1>6
      <4> QED
        BY <2>3, <4>1
    <3> QED
      BY <3>1, Zenon DEF Range
  <2>5. 1 \in DOMAIN plans
    <3>1. count # 0
      <4> SUFFICES ASSUME count = 0 PROVE FALSE
        OBVIOUS
      <4>1. plans = [n \in 1 .. count |-> plans[n]]
        BY <1>2 DEF plans, proposeCodeChangePlans, count
      <4>2. plans = <<>>
        BY <4>1
      <4> QED
        BY <2>1, <4>2
    <3> QED
      BY <1>2, <3>1
  <2>6. {d.id : d \in {e \in after : e.severity = "blocking" /\ \A b \in i.diagnostics : b.id # e.id}} = {}
    <3>1. Verdict(1, after).newBlocking =
            {d.id : d \in {e \in after : e.severity = "blocking" /\ \A b \in i.diagnostics : b.id # e.id}}
      BY <1>6
    <3> QED
      BY <2>3, <2>5, <3>1
  <2> QED
    BY <2>1, <2>4, <2>6
<1>12. ASSUME NEW d \in i.diagnostics
       PROVE  closeCodeChanges(plans, i.diagnostics, after \cup {d}).acceptedCount <= closed.acceptedCount
  <2>1. \A n : /\ Verdict(n, after).remaining \subseteq Verdict(n, after \cup {d}).remaining
               /\ Verdict(n, after).newBlocking \subseteq Verdict(n, after \cup {d}).newBlocking
    BY <1>6
  <2>2. Places(after \cup {d}) \in SUBSET Places(after)
    BY <1>6, <1>7, <2>1
  <2>3. Cardinality(Places(after \cup {d})) <= Cardinality(Places(after))
    BY <1>5, <2>2, FS_Subset
  <2> QED
    BY <2>3, ClosingCounts DEF Places
<1> QED
  BY <1>2, <1>8, <1>9, <1>10, <1>11, <1>12, Zenon DEF ClosingIsEarned, plans

-----------------------------------------------------------------------------
(* TaskSynthesis: what is proposed, and in which order.                    *)

\* Proposals as assertTodoProposals lets them through.
OrderInput(proposals) ==
  /\ proposals \in Seq(Range(proposals)) /\ Cardinality(Ids(proposals)) = Len(proposals)
  /\ \A p \in Range(proposals) :
       p.id \in Int /\ p.priority \in Range(Priorities) /\ p.dependencies \subseteq Ids(proposals)
  /\ assertAcyclicProposalDependencies(proposals)

\* The first n of them, in an order: none twice, each behind all it depends on, and
\* the last the one to be preferred of all that were ready.
OrderSoFar(proposals, n, s) ==
  /\ s \in Seq(Range(proposals)) /\ Len(s) = n
  /\ \A j, k \in 1 .. n : s[j] = s[k] => j = k
  /\ \A k \in 1 .. n : s[k].dependencies \subseteq {s[m].id : m \in 1 .. k - 1}
  /\ \A k \in 2 .. n : compareProposals(s[k - 1], s[k]) \/ s[k - 1].id \in s[k].dependencies
  /\ n > 0 => \A q \in Range(proposals) :
       (\A m \in 1 .. n : s[m] # q) /\ q.dependencies \subseteq {s[m].id : m \in 1 .. n - 1} => compareProposals(s[n], q)

\* One more of them.
OneMore(proposals, placed) ==
  LET ready == Ready(proposals, placed) IN
  IF ready = {} THEN placed
  ELSE Append(placed, CHOOSE p \in ready : \A q \in ready : compareProposals(p, q))

\* Their ids tell them apart.
LEMMA ProposalsAreApart ==
  ASSUME NEW proposals, OrderInput(proposals)
  PROVE  /\ Len(proposals) \in Nat /\ DOMAIN proposals = 1 .. Len(proposals)
         /\ \A p, q \in Range(proposals) : p.id = q.id => p = q
         /\ IsFiniteSet(Range(proposals)) /\ Cardinality(Range(proposals)) = Len(proposals)
<1> DEFINE n == Len(proposals)
           ids == [k \in 1 .. n |-> proposals[k].id]
<1>1. n \in Nat /\ DOMAIN proposals = 1 .. n
  BY LenProperties DEF OrderInput
<1>2. IsFiniteSet(1 .. n) /\ Cardinality(1 .. n) = n
  <2>1. IsFiniteSet(1 .. n) /\ Cardinality(1 .. n) = IF 1 > n THEN 0 ELSE n - 1 + 1
    BY <1>1, FS_Interval
  <2> QED
    BY <1>1, <2>1
<1>3. ids \in Surjection(1 .. n, Ids(proposals))
  <2>1. \A k \in 1 .. n : proposals[k].id \in Ids(proposals)
    BY <1>1 DEF Ids
  <2>2. \A x \in Ids(proposals) : \E k \in 1 .. n : proposals[k].id = x
    BY <1>1 DEF Ids
  <2> HIDE DEF n
  <2> QED
    BY <2>1, <2>2 DEF Surjection
<1>4. ids \in Injection(1 .. n, Ids(proposals))
  <2>1. Cardinality(Ids(proposals)) = Cardinality(1 .. n)
    BY <1>2 DEF OrderInput
  <2> HIDE DEF ids, n
  <2> QED
    BY <1>2, <1>3, <2>1, FS_SurjSameCardinalityImpliesInj
<1>5. \A j, k \in 1 .. n : proposals[j].id = proposals[k].id => j = k
  <2>1. \A j, k \in 1 .. n : ids[j] = ids[k] => j = k
    <3> HIDE DEF ids
    <3> QED
      BY <1>4 DEF Injection, IsInjective
  <2> QED
    BY <2>1
<1>6. \A p \in Range(proposals) : \E k \in 1 .. n : p = proposals[k]
  BY <1>1 DEF Range
<1>7. \A p, q \in Range(proposals) : p.id = q.id => p = q
  BY <1>5, <1>6
<1>8. \A j, k \in 1 .. n : proposals[j] = proposals[k] => j = k
  BY <1>5
<1>9. IsFiniteSet(Range(proposals)) /\ Cardinality(Range(proposals)) = n
  BY <1>1, <1>8, InjectiveCount
<1> QED
  BY <1>1, <1>7, <1>9

\* Of some proposals there is one to be preferred to all.
LEMMA OneIsFirst ==
  ASSUME NEW S, IsFiniteSet(S), S # {},
         \A p, q \in S : p.id \in Int /\ p.priority \in Range(Priorities) /\ (p.id = q.id => p = q)
  PROVE  \E p \in S : \A q \in S : compareProposals(p, q)
<1> DEFINE rank == [p \in S |-> Rank(p.priority, Priorities)]
           before == {p \in S \X S : rank[p[1]] < rank[p[2]] \/ (rank[p[1]] = rank[p[2]] /\ p[1].id < p[2].id)}
<1>1. \A p \in S : rank[p] \in Int /\ Priorities[rank[p]] = p.priority
  BY PriorityRanks
<1>2. \A p, q \in S : rank[p] = rank[q] => p.priority = q.priority
  <2> SUFFICES ASSUME NEW p \in S, NEW q \in S, rank[p] = rank[q] PROVE p.priority = q.priority
    OBVIOUS
  <2>1. Priorities[rank[p]] = p.priority /\ Priorities[rank[q]] = q.priority
    BY <1>1
  <2> HIDE DEF rank
  <2> QED
    BY <2>1, Zenon
<1>3. StrictOrder(S, before)
  <2>1. \A x, y \in S : rank[x] \in Int /\ x.id \in Int /\ (x.id = y.id => x = y)
    BY <1>1
  <2>2. \A p, q \in S : <<p, q>> \in before <=> rank[p] < rank[q] \/ (rank[p] = rank[q] /\ p.id < q.id)
    <3> HIDE DEF rank
    <3> QED
      OBVIOUS
  <2> HIDE DEF rank, before
  <2> QED
    BY <2>1, <2>2, RanksAreOrder
<1>4. Cardinality(S) \in Nat /\ Cardinality(S) # 0
  BY FS_CardinalityType, FS_EmptySet
<1>5. PICK p \in S : RankIn(S, before, p) = 0
  <2>1. \A n \in 1 .. Cardinality(S) : \E x \in S : RankIn(S, before, x) = n - 1
    <3> HIDE DEF before
    <3> QED
      BY <1>3, RanksAreFilled
  <2>2. 1 \in 1 .. Cardinality(S) /\ 1 - 1 = 0
    BY <1>4
  <2> HIDE DEF before
  <2> QED
    BY <2>1, <2>2
<1>6. \A q \in S : <<q, p>> \notin before
  <2> HIDE DEF before
  <2>1. {y \in S : <<y, p>> \in before} \in SUBSET S
    OBVIOUS
  <2>2. IsFiniteSet({y \in S : <<y, p>> \in before}) /\ Cardinality({y \in S : <<y, p>> \in before}) = 0
    BY <1>5, <2>1, FS_Subset DEF RankIn
  <2>3. {y \in S : <<y, p>> \in before} = {}
    BY <2>2, FS_EmptySet
  <2> QED
    BY <2>3
<1>7. \A q \in S : compareProposals(p, q)
  <2> SUFFICES ASSUME NEW q \in S PROVE compareProposals(p, q)
    OBVIOUS
  <2>1. ~(rank[q] < rank[p] \/ (rank[q] = rank[p] /\ q.id < p.id))
    <3> HIDE DEF rank
    <3> QED
      BY <1>6
  <2>2. rank[p] < rank[q] \/ (rank[p] = rank[q] /\ p.id <= q.id)
    <3> HIDE DEF rank
    <3> QED
      BY <1>1, <2>1
  <2>3. rank[p] = Rank(p.priority, Priorities) /\ rank[q] = Rank(q.priority, Priorities)
    OBVIOUS
  <2> HIDE DEF rank
  <2> QED
    BY <1>2, <2>2, <2>3 DEF compareProposals
<1> QED
  BY <1>7

\* While some are left, one of them is ready: what is left is no cycle.
LEMMA SomeAreReady ==
  ASSUME NEW proposals, OrderInput(proposals), NEW n \in Nat, n < Len(proposals), NEW s, OrderSoFar(proposals, n, s)
  PROVE  Ready(proposals, s) # {}
<1>1. /\ Len(proposals) \in Nat /\ IsFiniteSet(Range(proposals)) /\ Cardinality(Range(proposals)) = Len(proposals)
  BY ProposalsAreApart
<1>2. DOMAIN s = 1 .. n /\ \A j, k \in 1 .. n : s[j] = s[k] => j = k
  BY LenProperties DEF OrderSoFar
<1>3. Cardinality(Range(s)) = n
  BY <1>2, InjectiveCount
<1> DEFINE left == Range(proposals) \ Range(s)
<1>4. left # {}
  <2> SUFFICES ASSUME left = {} PROVE FALSE
    OBVIOUS
  <2>1. Range(s) \subseteq Range(proposals)
    <3>1. \A k \in 1 .. n : s[k] \in Range(proposals)
      BY <1>2, ElementOfSeq DEF OrderSoFar
    <3> QED
      BY <1>2, <3>1 DEF Range
  <2>2. Range(s) = Range(proposals)
    BY <2>1
  <2> QED
    BY <1>1, <1>3, <2>2
<1>5. left \in SUBSET Range(proposals)
  OBVIOUS
<1>6. PICK p \in left : \A q \in left : q.id \notin p.dependencies
  <2> HIDE DEF left
  <2> QED
    BY <1>4, <1>5 DEF OrderInput, assertAcyclicProposalDependencies
<1>7. p.dependencies \subseteq Ids(s)
  <2> SUFFICES ASSUME NEW x \in p.dependencies PROVE x \in Ids(s)
    OBVIOUS
  <2>1. PICK q \in Range(proposals) : x = q.id
    BY IdsOfRange DEF OrderInput
  <2>2. q \in Range(s)
    BY <1>6, <2>1
  <2> QED
    BY <2>1, <2>2, IdsOfRange
<1> QED
  BY <1>7 DEF Ready

\* Each step adds one.
LEMMA OrderGrows ==
  ASSUME NEW proposals, OrderInput(proposals), NEW n \in Nat, n < Len(proposals), NEW s, OrderSoFar(proposals, n, s)
  PROVE  OrderSoFar(proposals, n + 1, OneMore(proposals, s))
<1> DEFINE ready == Ready(proposals, s)
           p == CHOOSE x \in ready : \A q \in ready : compareProposals(x, q)
           t == Append(s, p)
<1>1. ready # {} /\ ready \in SUBSET Range(proposals)
  BY SomeAreReady DEF Ready
<1>2. p \in ready /\ \A q \in ready : compareProposals(p, q)
  <2>1. IsFiniteSet(ready)
    <3> HIDE DEF ready
    <3> QED
      BY <1>1, ProposalsAreApart, FS_Subset
  <2>2. \A x, y \in ready : x.id \in Int /\ x.priority \in Range(Priorities) /\ (x.id = y.id => x = y)
    <3> HIDE DEF ready
    <3>1. \A x, y \in Range(proposals) : x.id = y.id => x = y
      BY ProposalsAreApart
    <3> QED
      BY <1>1, <3>1 DEF OrderInput
  <2>3. \E x \in ready : \A q \in ready : compareProposals(x, q)
    <3> HIDE DEF ready
    <3> QED
      BY <1>1, <2>1, <2>2, OneIsFirst
  <2> HIDE DEF ready
  <2> QED
    BY <2>3
<1>3. OneMore(proposals, s) = t
  BY <1>1, Zenon DEF OneMore
<1> HIDE DEF p
<1>4. /\ p \in Range(proposals) /\ p \notin Range(s) /\ p.dependencies \subseteq Ids(s)
  BY <1>2 DEF Ready
<1>5. /\ s \in Seq(Range(proposals)) /\ Len(s) = n /\ DOMAIN s = 1 .. n
      /\ \A k \in 1 .. n : s[k] \in Range(proposals)
  BY LenProperties, ElementOfSeq DEF OrderSoFar
<1>6. /\ t \in Seq(Range(proposals)) /\ Len(t) = n + 1
      /\ \A k \in 1 .. n : t[k] = s[k]
      /\ t[n + 1] = p
  BY <1>4, <1>5, AppendProperties
<1> HIDE DEF t
<1>7. \A k \in 0 .. n : {t[m].id : m \in 1 .. k} = {s[m].id : m \in 1 .. k}
  <2> SUFFICES ASSUME NEW k \in 0 .. n PROVE {t[m].id : m \in 1 .. k} = {s[m].id : m \in 1 .. k}
    OBVIOUS
  <2>1. \A m \in 1 .. k : t[m] = s[m]
    BY <1>6
  <2> QED
    BY <2>1
<1>8. Ids(s) = {s[m].id : m \in 1 .. n}
  BY <1>5 DEF Ids
<1>9. \A j, k \in 1 .. n + 1 : t[j] = t[k] => j = k
  <2>1. \A k \in 1 .. n : s[k] # p
    BY <1>4, <1>5 DEF Range
  <2>2. \A j, k \in 1 .. n : s[j] = s[k] => j = k
    BY DEF OrderSoFar
  <2>3. \A j \in 1 .. n + 1 : j \in 1 .. n \/ j = n + 1
    OBVIOUS
  <2> QED
    BY <1>6, <2>1, <2>2, <2>3
<1>10. \A k \in 1 .. n + 1 : t[k].dependencies \subseteq {t[m].id : m \in 1 .. k - 1}
  <2> SUFFICES ASSUME NEW k \in 1 .. n + 1 PROVE t[k].dependencies \subseteq {t[m].id : m \in 1 .. k - 1}
    OBVIOUS
  <2>1. k - 1 \in 0 .. n /\ (k \in 1 .. n \/ k = n + 1)
    OBVIOUS
  <2>2. {t[m].id : m \in 1 .. k - 1} = {s[m].id : m \in 1 .. k - 1}
    BY <1>7, <2>1
  <2>3. CASE k \in 1 .. n
    <3>1. s[k].dependencies \subseteq {s[m].id : m \in 1 .. k - 1}
      BY <2>3 DEF OrderSoFar
    <3> QED
      BY <1>6, <2>2, <2>3, <3>1
  <2>4. CASE k = n + 1
    <3>1. k - 1 = n
      BY <2>4
    <3> QED
      BY <1>4, <1>6, <1>8, <2>2, <2>4, <3>1
  <2> QED
    BY <2>1, <2>3, <2>4
<1>11. \A k \in 2 .. n + 1 : compareProposals(t[k - 1], t[k]) \/ t[k - 1].id \in t[k].dependencies
  <2> SUFFICES ASSUME NEW k \in 2 .. n + 1 PROVE compareProposals(t[k - 1], t[k]) \/ t[k - 1].id \in t[k].dependencies
    OBVIOUS
  <2>1. CASE k \in 2 .. n
    <3>1. k - 1 \in 1 .. n /\ k \in 1 .. n
      BY <2>1
    <3>2. compareProposals(s[k - 1], s[k]) \/ s[k - 1].id \in s[k].dependencies
      BY <2>1 DEF OrderSoFar
    <3> QED
      BY <1>6, <3>1, <3>2
  <2>2. CASE k = n + 1
    <3>1. n > 0 /\ n \in 1 .. n /\ k - 1 = n
      BY <2>2
    <3>2. ASSUME s[n].id \notin p.dependencies PROVE compareProposals(s[n], p)
      <4>1. p.dependencies \subseteq {s[m].id : m \in 1 .. n - 1}
        <5>1. \A x \in p.dependencies : \E m \in 1 .. n : x = s[m].id
          BY <1>4, <1>8
        <5>2. \A m \in 1 .. n : m = n \/ m \in 1 .. n - 1
          OBVIOUS
        <5> QED
          BY <3>2, <5>1, <5>2
      <4>2. \A m \in 1 .. n : s[m] # p
        BY <1>4, <1>5 DEF Range
      <4> QED
        BY <1>4, <3>1, <4>1, <4>2 DEF OrderSoFar
    <3>3. t[k - 1] = s[n] /\ t[k] = p
      BY <1>6, <2>2, <3>1
    <3> QED
      BY <3>2, <3>3
  <2>3. k \in 2 .. n \/ k = n + 1
    OBVIOUS
  <2> QED
    BY <2>1, <2>2, <2>3
<1>12. \A q \in Range(proposals) :
         (\A m \in 1 .. n + 1 : t[m] # q) /\ q.dependencies \subseteq {t[m].id : m \in 1 .. (n + 1) - 1} =>
           compareProposals(t[n + 1], q)
  <2> SUFFICES ASSUME NEW q \in Range(proposals), \A m \in 1 .. n + 1 : t[m] # q,
                      q.dependencies \subseteq {t[m].id : m \in 1 .. (n + 1) - 1}
               PROVE  compareProposals(t[n + 1], q)
    OBVIOUS
  <2>1. q.dependencies \subseteq Ids(s)
    <3>1. (n + 1) - 1 = n /\ n \in 0 .. n
      OBVIOUS
    <3> QED
      BY <1>7, <1>8, <3>1
  <2>2. q \notin Range(s)
    <3>1. \A m \in 1 .. n : m \in 1 .. n + 1
      OBVIOUS
    <3>2. \A m \in 1 .. n : s[m] # q
      BY <1>6, <3>1
    <3> QED
      BY <1>5, <3>2 DEF Range
  <2>3. q \in ready
    BY <2>1, <2>2 DEF Ready
  <2> HIDE DEF ready
  <2> QED
    BY <1>2, <1>6, <2>3
<1>13. OrderSoFar(proposals, n + 1, t)
  BY <1>6, <1>9, <1>10, <1>11, <1>12, Zenon DEF OrderSoFar
<1> QED
  BY <1>3, <1>13


\* The steps of dependencyFirstPriorityOrder, up to the n-th.
Grows(proposals, n, place) ==
  place = [k \in 0 .. n |-> IF k = 0 THEN <<>> ELSE OneMore(proposals, place[k - 1])]

\* There are such steps, as many as are asked for.
LEMMA GrowthExists == ASSUME NEW proposals, NEW n \in Nat PROVE \E place : Grows(proposals, n, place)
<1> DEFINE T == {k \in Nat : ~\E place : Grows(proposals, k, place)}
<1> SUFFICES ASSUME T # {} PROVE FALSE
  OBVIOUS
<1>1. PICK k \in T : \A j \in T : k <= j
  BY SmallestOf
<1>2. CASE k = 0
  <2>1. Grows(proposals, 0, [j \in 0 .. 0 |-> <<>>])
    BY DEF Grows
  <2> QED
    BY <1>1, <1>2, <2>1
<1>3. CASE k # 0
  <2>1. k - 1 \in Nat /\ k - 1 \notin T
    BY <1>1, <1>3
  <2>2. PICK place : Grows(proposals, k - 1, place)
    BY <2>1
  <2> DEFINE longer == [j \in 0 .. k |-> IF j = k THEN OneMore(proposals, place[k - 1]) ELSE place[j]]
  <2>3. longer = [j \in 0 .. k |-> IF j = 0 THEN <<>> ELSE OneMore(proposals, longer[j - 1])]
    <3> SUFFICES ASSUME NEW j \in 0 .. k
                 PROVE  longer[j] = IF j = 0 THEN <<>> ELSE OneMore(proposals, longer[j - 1])
      BY Zenon
    <3>1. j \in 0 .. k - 1 => place[j] = IF j = 0 THEN <<>> ELSE OneMore(proposals, place[j - 1])
      BY <2>2 DEF Grows
    <3>2. j \in 0 .. k - 1 \/ j = k
      BY <2>1
    <3>3. j # 0 => j - 1 \in 0 .. k /\ j - 1 # k
      BY <2>1
    <3>4. j # 0 => longer[j - 1] = place[j - 1]
      BY <3>3
    <3>5. longer[j] = IF j = k THEN OneMore(proposals, place[k - 1]) ELSE place[j]
      OBVIOUS
    <3> HIDE DEF longer
    <3> QED
      BY <1>3, <3>1, <3>2, <3>4, <3>5
  <2>4. Grows(proposals, k, longer)
    <3> HIDE DEF longer
    <3> QED
      BY <2>3 DEF Grows
  <2> QED
    BY <1>1, <2>4
<1> QED
  BY <1>2, <1>3

\* Every step is an order so far.
LEMMA GrowthIsOrder ==
  ASSUME NEW proposals, OrderInput(proposals), NEW place, Grows(proposals, Len(proposals), place)
  PROVE  OrderSoFar(proposals, Len(proposals), place[Len(proposals)])
<1> DEFINE T == {k \in Nat : k <= Len(proposals) /\ ~OrderSoFar(proposals, k, place[k])}
<1>1. Len(proposals) \in Nat
  BY ProposalsAreApart
<1> SUFFICES ASSUME T # {} PROVE FALSE
  BY <1>1
<1>2. PICK k \in T : \A j \in T : k <= j
  BY SmallestOf
<1>3. k \in 0 .. Len(proposals) /\ (k # 0 => k - 1 \in Nat /\ k - 1 \notin T /\ k - 1 < Len(proposals))
  BY <1>1, <1>2
<1>4. place[k] = IF k = 0 THEN <<>> ELSE OneMore(proposals, place[k - 1])
  BY <1>3 DEF Grows
<1>5. CASE k = 0
  <2>1. place[k] = <<>>
    BY <1>4, <1>5
  <2>2. <<>> \in Seq(Range(proposals)) /\ Len(<<>>) = 0
    BY EmptySeq
  <2>3. OrderSoFar(proposals, 0, <<>>)
    BY <2>2 DEF OrderSoFar
  <2> QED
    BY <1>2, <1>5, <2>1, <2>3
<1>6. CASE k # 0
  <2>1. OrderSoFar(proposals, k - 1, place[k - 1])
    BY <1>1, <1>3, <1>6
  <2>2. OrderSoFar(proposals, (k - 1) + 1, OneMore(proposals, place[k - 1]))
    BY <1>3, <1>6, <2>1, OrderGrows
  <2>3. (k - 1) + 1 = k
    BY <1>2
  <2> QED
    BY <1>2, <1>4, <1>6, <2>2, <2>3
<1> QED
  BY <1>5, <1>6

\* The order of any proposals that assertTodoProposals lets through has each of
\* them once.
LEMMA OrderIsWhole ==
  ASSUME NEW proposals, OrderInput(proposals)
  PROVE  LET order == dependencyFirstPriorityOrder(proposals)
         IN /\ OrderSoFar(proposals, Len(proposals), order)
            /\ Range(order) = Range(proposals) /\ Len(order) = Len(proposals)
<1> DEFINE n == Len(proposals)
           place == CHOOSE f : Grows(proposals, n, f)
           order == dependencyFirstPriorityOrder(proposals)
<1>1. n \in Nat /\ IsFiniteSet(Range(proposals)) /\ Cardinality(Range(proposals)) = n
  BY ProposalsAreApart
<1>2. Grows(proposals, n, place)
  <2>1. \E f : Grows(proposals, n, f)
    BY <1>1, GrowthExists
  <2> QED
    BY <2>1
<1>3. order = place[n]
  BY Zenon DEF dependencyFirstPriorityOrder, Grows, OneMore
<1> HIDE DEF place, order
<1>4. OrderSoFar(proposals, n, order)
  BY <1>2, <1>3, GrowthIsOrder
<1>5. /\ Len(order) = n /\ DOMAIN order = 1 .. n /\ \A k \in 1 .. n : order[k] \in Range(proposals)
      /\ \A j, k \in 1 .. n : order[j] = order[k] => j = k
  BY <1>4, LenProperties, ElementOfSeq DEF OrderSoFar
<1>6. Range(order) = Range(proposals)
  <2>1. Cardinality(Range(order)) = n
    BY <1>1, <1>5, InjectiveCount
  <2>2. Range(order) \in SUBSET Range(proposals)
    BY <1>5 DEF Range
  <2> QED
    BY <1>1, <2>1, <2>2, FS_Subset
<1> QED
  BY <1>4, <1>5, <1>6 DEF order

\* Answers as the response contract lets them through: sequences of proposals with
\* a priority and a finite text.
SynthesisInput(answers) ==
  \A n \in 1 .. 2 : IsAnswer(answers[n]) =>
    /\ answers[n].proposals \in Seq(Range(answers[n].proposals))
    /\ \A p \in Range(answers[n].proposals) :
         p.text \in Int /\ p.priority \in Range(Priorities) /\ IsFiniteSet(p.words)

\* What some diagnostics carry.
Carried(i, ids) == UNION {d.recordIds : d \in {e \in i.diagnostics : e.id \in ids}}

\* What SynthesisIsGrounded says of a conclusion or a proposal.
GroundedIn(i, c) ==
  /\ c.diagnosticIds \subseteq Diagnosed(i) /\ c.recordIds \subseteq Ids(i.records)
  /\ (\A d \in i.diagnostics : d.id \in c.diagnosticIds => d.recordIds # {}) =>
       c.recordIds \subseteq Carried(i, c.diagnosticIds)

\* A conclusion that is accepted is grounded.
LEMMA ConclusionsAreGrounded ==
  ASSUME NEW i, NEW raw,
         LET c == Conclusion(i, raw).id
         IN /\ c.diagnosticIds # {} /\ c.diagnosticIds \subseteq Diagnosed(i)
            /\ c.recordIds \subseteq Ids(i.records)
  PROVE  GroundedIn(i, Conclusion(i, raw).id)
<1> DEFINE c == Conclusion(i, raw).id
           allowed == Carried(i, raw.diagnosticIds)
<1>1. /\ c.diagnosticIds = raw.diagnosticIds
      /\ c.recordIds = groundRecordIdsByDiagnostics(i, raw.diagnosticIds, raw.recordIds)
  BY DEF Conclusion
<1>2. groundRecordIdsByDiagnostics(i, raw.diagnosticIds, raw.recordIds) =
        IF allowed = {} THEN raw.recordIds
        ELSE IF raw.recordIds \cap allowed # {} THEN raw.recordIds \cap allowed ELSE allowed
  BY Zenon DEF groundRecordIdsByDiagnostics, Carried
<1>3. ASSUME \A d \in i.diagnostics : d.id \in c.diagnosticIds => d.recordIds # {}
      PROVE  c.recordIds \subseteq Carried(i, c.diagnosticIds)
  <2>1. PICK x \in c.diagnosticIds : TRUE
    OBVIOUS
  <2>2. PICK d \in i.diagnostics : d.id = x
    BY <2>1 DEF Diagnosed
  <2>3. d.recordIds # {} /\ d.recordIds \subseteq Carried(i, raw.diagnosticIds)
    BY <1>1, <1>3, <2>1, <2>2 DEF Carried
  <2>4. allowed # {}
    BY <2>3
  <2> HIDE DEF allowed
  <2>5. c.recordIds \subseteq allowed
    BY <1>1, <1>2, <2>4
  <2> QED
    BY <1>1, <2>5 DEF allowed
<1> QED
  BY <1>3 DEF GroundedIn

\* A proposal that is accepted is grounded in the conclusions it cites.
LEMMA ProposalsAreGrounded ==
  ASSUME NEW i, NEW answer, NEW raw,
         \A x \in Range(answer.conclusions) : GroundedIn(i, Conclusion(i, x).id),
         LET p == Proposal(i, answer, raw)
         IN p.diagnosticIds \subseteq Diagnosed(i) /\ p.recordIds \subseteq Ids(i.records)
  PROVE  GroundedIn(i, Proposal(i, answer, raw))
<1> DEFINE p == Proposal(i, answer, raw)
           cited == {Conclusion(i, x).id : x \in Cited(answer, raw)}
<1>1. /\ p.diagnosticIds = UNION {c.diagnosticIds : c \in cited}
      /\ p.recordIds = UNION {c.recordIds : c \in cited}
  BY DEF Proposal
<1>2. \A c \in cited : GroundedIn(i, c)
  BY DEF Cited
<1>3. ASSUME \A d \in i.diagnostics : d.id \in p.diagnosticIds => d.recordIds # {}
      PROVE  p.recordIds \subseteq Carried(i, p.diagnosticIds)
  <2> HIDE DEF p, cited
  <2> SUFFICES ASSUME NEW x \in p.recordIds PROVE x \in Carried(i, p.diagnosticIds)
    OBVIOUS
  <2>1. PICK c \in cited : x \in c.recordIds
    BY <1>1
  <2>2. c.diagnosticIds \subseteq p.diagnosticIds
    BY <1>1, <2>1
  <2>3. x \in Carried(i, c.diagnosticIds)
    BY <1>2, <1>3, <2>1, <2>2 DEF GroundedIn
  <2> QED
    BY <2>2, <2>3 DEF Carried
<1> QED
  BY <1>3 DEF GroundedIn

\* What comes out of an answer that materializes.
LEMMA OutputIsSound ==
  ASSUME NEW i, NEW answer, Materializes(i, answer),
         answer.proposals \in Seq(Range(answer.proposals)),
         \A p \in Range(answer.proposals) : p.text \in Int /\ p.priority \in Range(Priorities) /\ IsFiniteSet(p.words)
  PROVE  LET output == materialize(i, answer)
         IN /\ OrderInput(output.proposals)
            /\ \A p \in Range(output.proposals) : IsFiniteSet(p.words)
            /\ \A c \in Ids(output.conclusions) \cup Range(output.proposals) : GroundedIn(i, c)
<1> DEFINE output == materialize(i, answer)
           proposals == [n \in DOMAIN answer.proposals |-> Proposal(i, answer, answer.proposals[n])]
           conclusions == [n \in DOMAIN answer.conclusions |-> Conclusion(i, answer.conclusions[n])]
<1>1. output.proposals = proposals /\ output.conclusions = conclusions
  BY DEF materialize
<1>2. /\ assertTodoProposals(i, conclusions, proposals)
      /\ assertProposalEvidenceMatchesConclusions(proposals)
  BY <1>1, Zenon DEF Materializes
<1>3. Len(answer.proposals) \in Nat /\ DOMAIN answer.proposals = 1 .. Len(answer.proposals)
  BY LenProperties
<1>4. \A n \in DOMAIN answer.proposals : answer.proposals[n] \in Range(answer.proposals)
  BY DEF Range
<1>5. \A x : x \in Range(proposals) <=> \E raw \in Range(answer.proposals) : x = Proposal(i, answer, raw)
  BY DEF Range
<1>6. \A raw : /\ Proposal(i, answer, raw).id = raw.text /\ Proposal(i, answer, raw).priority = raw.priority
               /\ Proposal(i, answer, raw).words = raw.words
  BY DEF Proposal
<1>7. Ids(conclusions) = {Conclusion(i, x).id : x \in Range(answer.conclusions)}
  BY DEF Ids, Range
<1>8. \A x \in Range(answer.conclusions) : GroundedIn(i, Conclusion(i, x).id)
  <2> SUFFICES ASSUME NEW x \in Range(answer.conclusions) PROVE GroundedIn(i, Conclusion(i, x).id)
    OBVIOUS
  <2>1. Conclusion(i, x).id \in Ids(conclusions)
    BY <1>7
  <2> HIDE DEF conclusions, proposals
  <2>2. LET c == Conclusion(i, x).id
        IN /\ c.diagnosticIds # {} /\ c.diagnosticIds \subseteq Diagnosed(i)
           /\ c.recordIds \subseteq Ids(i.records)
    BY <1>2, <2>1 DEF assertTodoProposals, assertConclusions
  <2> QED
    BY <2>2, ConclusionsAreGrounded
<1>9. proposals \in Seq(Range(proposals))
  <2>1. \A n \in 1 .. Len(answer.proposals) : proposals[n] \in Range(proposals)
    BY <1>3 DEF Range
  <2>2. proposals = [n \in 1 .. Len(answer.proposals) |-> proposals[n]]
    BY <1>3
  <2> HIDE DEF proposals
  <2> QED
    <3>1. proposals \in [1 .. Len(answer.proposals) -> Range(proposals)]
      BY <2>1, <2>2
    <3> QED
      BY <1>3, <3>1, SeqDef
<1> HIDE DEF proposals, conclusions
<1>10. \A p \in Range(proposals) :
         /\ p.dependencies \subseteq Ids(proposals) \ {p.id}
         /\ p.diagnosticIds \subseteq Diagnosed(i) /\ p.recordIds \subseteq Ids(i.records)
  BY <1>2 DEF assertTodoProposals
<1>11. OrderInput(proposals)
  <2>1. \A p \in Range(proposals) :
          p.id \in Int /\ p.priority \in Range(Priorities) /\ p.dependencies \subseteq Ids(proposals)
    BY <1>5, <1>6, <1>10
  <2>2. Cardinality(Ids(proposals)) = Len(proposals) /\ assertAcyclicProposalDependencies(proposals)
    BY <1>2 DEF assertTodoProposals
  <2> QED
    BY <1>9, <2>1, <2>2 DEF OrderInput
<1>12. \A p \in Range(proposals) : IsFiniteSet(p.words)
  BY <1>5, <1>6
<1>13. \A p \in Range(proposals) : GroundedIn(i, p)
  <2> SUFFICES ASSUME NEW raw \in Range(answer.proposals), Proposal(i, answer, raw) \in Range(proposals)
               PROVE  GroundedIn(i, Proposal(i, answer, raw))
    BY <1>5
  <2>1. LET p == Proposal(i, answer, raw)
        IN p.diagnosticIds \subseteq Diagnosed(i) /\ p.recordIds \subseteq Ids(i.records)
    BY <1>10
  <2> QED
    BY <1>8, <2>1, ProposalsAreGrounded
<1>14. \A c \in Ids(conclusions) \cup Range(proposals) : GroundedIn(i, c)
  BY <1>7, <1>8, <1>13
<1> QED
  BY <1>1, <1>11, <1>12, <1>14

\* What a synthesis leaves, whatever it was answered.
Concludes(i, mode, r) ==
  /\ OrderInput(r.output.proposals)
  /\ \A p \in Range(r.output.proposals) : IsFiniteSet(p.words)
  /\ \A c \in Ids(r.output.conclusions) \cup Range(r.output.proposals) : GroundedIn(i, c)
  /\ r.status = "thrown" => mode = "require-llm"
  /\ r.status = "fallback" => mode = "prefer-llm" /\ (\A d \in i.diagnostics : d.code = "ALIGNED" \/ d.id \in r.actions)
  /\ r.status # "succeeded" => r.output = Nothing
  /\ r.calls <= 2

\* It does, by the last answer.
LEMMA SynthesisLeaves ==
  ASSUME NEW i, NEW mode \in {"require-llm", "prefer-llm"}, NEW answers, SynthesisInput(answers)
  PROVE  Concludes(i, mode, synthesizeTodoProposals(i, TRUE, mode, answers))
<1> DEFINE r == synthesizeTodoProposals(i, TRUE, mode, answers)
           calls == Attempts(i, answers)
           last == answers[calls]
<1>1. calls \in 1 .. 2
  BY DEF Attempts
<1> HIDE DEF calls
<1>2. r = IF ~Materializes(i, last) THEN fallbackOrThrow(i, mode, calls) ELSE Result("succeeded", materialize(i, last), calls)
  BY Zenon DEF synthesizeTodoProposals, calls
<1> SUFFICES Concludes(i, mode, r)
  OBVIOUS
<1> HIDE DEF r
<1>3. /\ OrderInput(Nothing.proposals) /\ Range(Nothing.proposals) = {} /\ Ids(Nothing.conclusions) = {}
  <2>1. Nothing.proposals = <<>> /\ Nothing.conclusions = <<>>
    BY DEF Nothing
  <2>2. Range(<<>>) = {} /\ Ids(<<>>) = {}
    BY DEF Range, Ids
  <2>3. Cardinality({}) = 0 /\ <<>> \in Seq({}) /\ Len(<<>>) = 0
    BY FS_EmptySet, EmptySeq
  <2>4. assertAcyclicProposalDependencies(<<>>)
    BY <2>2 DEF assertAcyclicProposalDependencies
  <2>5. OrderInput(<<>>)
    BY <2>2, <2>3, <2>4 DEF OrderInput
  <2> QED
    BY <2>1, <2>2, <2>5
<1>4. CASE Materializes(i, last)
  <2>1. r = Result("succeeded", materialize(i, last), calls)
    BY <1>2, <1>4
  <2>2. r.status = "succeeded" /\ r.output = materialize(i, last) /\ r.calls = calls
    BY <2>1 DEF Result
  <2>3. IsAnswer(last)
    BY <1>4 DEF Materializes
  <2>4. /\ last.proposals \in Seq(Range(last.proposals))
        /\ \A p \in Range(last.proposals) : p.text \in Int /\ p.priority \in Range(Priorities) /\ IsFiniteSet(p.words)
    BY <1>1, <2>3 DEF SynthesisInput
  <2>5. /\ OrderInput(r.output.proposals)
        /\ \A p \in Range(r.output.proposals) : IsFiniteSet(p.words)
        /\ \A c \in Ids(r.output.conclusions) \cup Range(r.output.proposals) : GroundedIn(i, c)
    BY <1>4, <2>2, <2>4, OutputIsSound
  <2> QED
    BY <1>1, <2>2, <2>5 DEF Concludes
<1>5. CASE ~Materializes(i, last)
  <2>1. r = fallbackOrThrow(i, mode, calls)
    BY <1>2, <1>5
  <2>2. CASE mode = "require-llm"
    <3>1. r = Result("thrown", Nothing, calls)
      BY <2>1, <2>2 DEF fallbackOrThrow
    <3>2. r.status = "thrown" /\ r.output = Nothing /\ r.calls = calls
      BY <3>1 DEF Result
    <3> QED
      BY <1>1, <1>3, <2>2, <3>2 DEF Concludes
  <2>3. CASE mode = "prefer-llm"
    <3>1. r = [Result("fallback", Nothing, calls) EXCEPT !.actions = {d.id : d \in {e \in i.diagnostics : e.code # "ALIGNED"}}]
      BY <2>1, <2>3 DEF fallbackOrThrow
    <3>2. /\ r.status = "fallback" /\ r.output = Nothing /\ r.calls = calls
          /\ r.actions = {d.id : d \in {e \in i.diagnostics : e.code # "ALIGNED"}}
      BY <3>1 DEF Result
    <3>3. \A d \in i.diagnostics : d.code = "ALIGNED" \/ d.id \in r.actions
      BY <3>2
    <3> QED
      BY <1>1, <1>3, <2>3, <3>2, <3>3 DEF Concludes
  <2> QED
    BY <2>2, <2>3
<1> QED
  BY <1>4, <1>5

\* A proposal that says what a TODO says repeats it.
LEMMA SameWordsAreSimilar ==
  ASSUME NEW p, NEW t, IsFiniteSet(p.words), p.words = t.words, p.words # {}
  PROVE  Similar(p, t, 72)
<1>1. p.words \cap t.words = p.words /\ p.words \cup t.words = p.words
  OBVIOUS
<1>2. Cardinality(p.words) \in Nat /\ Cardinality(p.words) # 0
  BY FS_CardinalityType, FS_EmptySet
<1>3. 100 * Cardinality(p.words) >= 72 * Cardinality(p.words)
  BY <1>2
<1> QED
  BY <1>1, <1>2, <1>3 DEF Similar

\* Whatever a model answers, and answers again, and for any number of proposals
\* that depend on each other: what is proposed is grounded, whole and in order
\* (synthesizeTodoProposals, dependencyFirstPriorityOrder).
THEOREM ProposalsAreGroundedAndOrdered ==
  ASSUME NEW i, NEW mode \in {"require-llm", "prefer-llm"}, NEW answers, SynthesisInput(answers)
  PROVE  SynthesisIsGrounded(i, mode, answers)
<1> DEFINE r == synthesizeTodoProposals(i, TRUE, mode, answers)
           alone == synthesizeTodoProposals(i, FALSE, mode, answers)
           proposals == r.output.proposals
           order == validateAndClassifyTodoProposals(i, r.output).ordered
           new == validateAndClassifyTodoProposals(i, r.output).new
<1>1. /\ OrderInput(proposals) /\ \A p \in Range(proposals) : IsFiniteSet(p.words)
      /\ \A c \in Ids(r.output.conclusions) \cup Range(proposals) : GroundedIn(i, c)
      /\ r.status = "thrown" => mode = "require-llm"
      /\ r.status = "fallback" => mode = "prefer-llm" /\ (\A d \in i.diagnostics : d.code = "ALIGNED" \/ d.id \in r.actions)
      /\ r.status # "succeeded" => r.output = Nothing
      /\ r.calls <= 2
  BY SynthesisLeaves DEF Concludes
<1>2. alone.calls = 0 /\ alone.output = Nothing
  <2>1. alone = fallbackOrThrow(i, mode, 0)
    BY Zenon DEF synthesizeTodoProposals
  <2> HIDE DEF alone
  <2> QED
    BY <2>1 DEF fallbackOrThrow, Result
<1>3. /\ order = dependencyFirstPriorityOrder(proposals)
      /\ new = {p \in Range(order) : duplicateEvidence(i, p) = {}}
  BY DEF validateAndClassifyTodoProposals
<1> HIDE DEF r, alone
<1>4. Len(proposals) \in Nat
  BY <1>1, ProposalsAreApart
<1> HIDE DEF proposals, order, new
<1>5. /\ OrderSoFar(proposals, Len(proposals), order)
      /\ Range(order) = Range(proposals) /\ Len(order) = Len(proposals)
  BY <1>1, <1>3, OrderIsWhole
<1>6. ASSUME NEW k \in 1 .. Len(order)
      PROVE  /\ order[k].dependencies \subseteq {order[n].id : n \in 1 .. k - 1}
             /\ k > 1 /\ ~compareProposals(order[k - 1], order[k]) => order[k - 1].id \in order[k].dependencies
  <2>1. k \in 1 .. Len(proposals) /\ (k > 1 => k \in 2 .. Len(proposals))
    BY <1>4, <1>5
  <2> QED
    BY <1>5, <2>1 DEF OrderSoFar
<1>7. ASSUME NEW p \in new, NEW t \in Range(i.records), t.source = "todo", p.words = t.words, p.words # {}
      PROVE  FALSE
  <2>1. p \in Range(order) /\ duplicateEvidence(i, p) = {}
    BY <1>3
  <2>2. IsFiniteSet(p.words)
    BY <1>1, <1>5, <2>1
  <2>3. Similar(p, t, 72)
    BY <1>7, <2>2, SameWordsAreSimilar
  <2>4. t \in duplicateEvidence(i, p)
    BY <1>7, <2>3 DEF duplicateEvidence
  <2> QED
    BY <2>1, <2>4
<1>8. \A c \in Ids(r.output.conclusions) \cup Range(proposals) :
        /\ c.diagnosticIds \subseteq Diagnosed(i) /\ c.recordIds \subseteq Ids(i.records)
        /\ (\A d \in i.diagnostics : d.id \in c.diagnosticIds => d.recordIds # {}) =>
             c.recordIds \subseteq UNION {d.recordIds : d \in {e \in i.diagnostics : e.id \in c.diagnosticIds}}
  BY <1>1, Zenon DEF GroundedIn, Carried
<1>9. \A p \in new, t \in Range(i.records) : t.source = "todo" => p.words # t.words \/ p.words = {}
  BY <1>7
<1>10. \A k \in 1 .. Len(order) :
         /\ order[k].dependencies \subseteq {order[n].id : n \in 1 .. k - 1}
         /\ k > 1 /\ ~compareProposals(order[k - 1], order[k]) => order[k - 1].id \in order[k].dependencies
  BY <1>6
<1> QED
  BY <1>1, <1>2, <1>5, <1>8, <1>9, <1>10, Zenon DEF SynthesisIsGrounded, r, alone, proposals, order, new

-----------------------------------------------------------------------------
(* Reranker: what a model may choose from, and what a graph gains.         *)

\* What is asked: a graph of records and relations, scored pairs in any order, and
\* what is at hand of snapshots and earlier results.
RerankInput(graph, inputs, max, client, options) ==
  /\ graph = [records |-> graph.records, relations |-> graph.relations]
  /\ inputs \in Seq(Range(inputs)) /\ max \in Nat
  /\ \A i \in Range(inputs) : i.score \in Int /\ i.module \in Int
  /\ options = [snapshot |-> options.snapshot, cached |-> options.cached, identity |-> options.identity]
  /\ options.identity \in Int
  /\ client.reply \in Seq(Range(client.reply))
  /\ \A r \in options.cached : r.decisions \in Seq(Range(r.decisions))

\* The order of the inputs of a declaration.
InputOrder(inputs, S) ==
  {p \in S \X S : \/ ComesBefore(inputs[p[1]], inputs[p[2]])
                  \/ ~ComesBefore(inputs[p[2]], inputs[p[1]]) /\ p[1] < p[2]}

\* Ranked, by the ranks of its inputs.
LEMMA RankedByRank ==
  ASSUME NEW inputs, NEW declaration
  PROVE  LET S == InputsOf(inputs, declaration)
         IN Ranked(inputs, declaration) =
              [n \in 1 .. Cardinality(S) |-> inputs[CHOOSE k \in S : RankIn(S, InputOrder(inputs, S), k) = n - 1]]
BY Zenon DEF Ranked, InputOrder, RankIn

\* The inputs of a declaration are ranked by their score, each once.
LEMMA RankedAre ==
  ASSUME NEW graph, NEW inputs, NEW max, NEW client, NEW options, RerankInput(graph, inputs, max, client, options), NEW declaration
  PROVE  LET S == InputsOf(inputs, declaration)
             ranked == Ranked(inputs, declaration)
         IN /\ Len(ranked) = Cardinality(S) /\ Cardinality(S) \in Nat /\ DOMAIN ranked = 1 .. Cardinality(S)
            /\ \A n \in DOMAIN ranked : \E k \in S : ranked[n] = inputs[k]
            /\ \A k \in S : \E n \in DOMAIN ranked : ranked[n] = inputs[k]
            /\ \A m, n \in DOMAIN ranked : m < n => ranked[m].score >= ranked[n].score
            /\ \A n \in DOMAIN ranked : ranked[n].score \in Int
<1> DEFINE S == InputsOf(inputs, declaration)
           before == InputOrder(inputs, S)
           ranked == Ranked(inputs, declaration)
           count == Cardinality(S)
           place == [n \in 1 .. count |-> CHOOSE k \in S : RankIn(S, before, k) = n - 1]
<1>1. Len(inputs) \in Nat /\ DOMAIN inputs = 1 .. Len(inputs)
  BY LenProperties DEF RerankInput
<1>2. IsFiniteSet(S) /\ count \in Nat /\ S \subseteq Nat
  <2>1. IsFiniteSet(1 .. Len(inputs)) /\ S \in SUBSET (1 .. Len(inputs))
    BY <1>1, FS_Interval DEF InputsOf
  <2>2. (1 .. Len(inputs)) \subseteq Nat
    BY <1>1
  <2> HIDE DEF S
  <2>3. IsFiniteSet(S) /\ count \in Nat
    BY <2>1, FS_Subset, FS_CardinalityType
  <2> QED
    BY <2>1, <2>2, <2>3
<1>3. \A k \in S : inputs[k].score \in Int /\ inputs[k].module \in Int
  BY DEF InputsOf, Range, RerankInput
<1> HIDE DEF S
<1>4. StrictOrder(S, before)
  <2>1. \A k, l \in S : <<k, l>> \in before <=>
          \/ inputs[k].score > inputs[l].score
          \/ inputs[k].score = inputs[l].score /\ inputs[k].module < inputs[l].module
          \/ inputs[k].score = inputs[l].score /\ inputs[k].module = inputs[l].module /\ k < l
    BY <1>2, <1>3 DEF InputOrder, ComesBefore
  <2> HIDE DEF before
  <2>2. \A k \in S : <<k, k>> \notin before
    BY <1>2, <1>3, <2>1
  <2>3. \A k, l \in S : k # l => <<k, l>> \in before \/ <<l, k>> \in before
    BY <1>2, <1>3, <2>1
  <2>4. \A k, l, m \in S : <<k, l>> \in before /\ <<l, m>> \in before => <<k, m>> \in before
    BY <1>2, <1>3, <2>1
  <2> QED
    BY <2>2, <2>3, <2>4 DEF StrictOrder
<1>5. ranked = [n \in 1 .. count |-> inputs[place[n]]]
  <2>1. ranked = [n \in 1 .. count |-> inputs[CHOOSE k \in S : RankIn(S, before, k) = n - 1]]
    BY RankedByRank DEF S
  <2> HIDE DEF before, ranked
  <2> QED
    BY <2>1
<1>6. Sorted(S, before, place)
  <2>1. \A n \in 1 .. count : (\E k \in S : RankIn(S, before, k) = n - 1) =>
          place[n] \in S /\ RankIn(S, before, place[n]) = n - 1
    <3> HIDE DEF before
    <3> QED
      OBVIOUS
  <2> HIDE DEF before, place
  <2> QED
    BY <1>2, <1>4, <2>1, RankedIsSorted
<1> HIDE DEF place, ranked
<1>7. DOMAIN ranked = 1 .. count /\ Len(ranked) = count /\ \A n \in 1 .. count : ranked[n] = inputs[place[n]] /\ place[n] \in S
  BY <1>2, <1>5, <1>6 DEF Sorted
<1>8. \A k \in S : \E n \in 1 .. count : ranked[n] = inputs[k]
  BY <1>6, <1>7 DEF Sorted
<1>9. ASSUME NEW m \in 1 .. count, NEW n \in 1 .. count, m < n PROVE ranked[m].score >= ranked[n].score
  <2>1. <<place[m], place[n]>> \in before
    BY <1>6, <1>9 DEF Sorted
  <2>2. place[m] \in S /\ place[n] \in S /\ inputs[place[m]].score >= inputs[place[n]].score
    BY <1>3, <1>7, <2>1 DEF InputOrder, ComesBefore
  <2> QED
    BY <1>7, <2>2
<1>10. \A n \in 1 .. count : ranked[n].score \in Int
  BY <1>3, <1>7
<1> QED
  BY <1>2, <1>7, <1>8, <1>9, <1>10 DEF S, ranked

\* The shortlist of a declaration are its first inputs.
LEMMA ShortlistIs ==
  ASSUME NEW graph, NEW inputs, NEW max, NEW client, NEW options, RerankInput(graph, inputs, max, client, options), NEW i \in Range(inputs)
  PROVE  LET kept == Shortlist(inputs, i.declaration, max)
             ranked == Ranked(inputs, i.declaration)
         IN /\ Cardinality(kept) = IF Len(ranked) > max THEN max ELSE Len(ranked)
            /\ \A c \in kept : c.declaration = i.declaration
            /\ \A c \in kept : c.module = i.module \/ i.score <= c.score \/ \E d \in kept : d.module = i.module
<1> DEFINE ranked == Ranked(inputs, i.declaration)
           kept == Shortlist(inputs, i.declaration, max)
           S == InputsOf(inputs, i.declaration)
           count == IF Len(ranked) > max THEN max ELSE Len(ranked)
           Entry(n) == [declaration |-> i.declaration, module |-> ranked[n].module, score |-> ranked[n].score, rank |-> n]
<1>1. /\ Len(ranked) = Cardinality(S) /\ Cardinality(S) \in Nat /\ DOMAIN ranked = 1 .. Cardinality(S)
      /\ \A k \in S : \E n \in DOMAIN ranked : ranked[n] = inputs[k]
      /\ \A m, n \in DOMAIN ranked : m < n => ranked[m].score >= ranked[n].score
      /\ \A n \in DOMAIN ranked : ranked[n].score \in Int
  BY RankedAre
<1>2. kept = {Entry(n) : n \in {k \in DOMAIN ranked : k <= max}}
  BY Zenon DEF Shortlist
<1> HIDE DEF ranked, kept
<1>3. max \in Nat /\ count \in Nat /\ {k \in DOMAIN ranked : k <= max} = 1 .. count
  BY <1>1 DEF RerankInput
<1>4. \A n : /\ Entry(n).declaration = i.declaration /\ Entry(n).module = ranked[n].module
             /\ Entry(n).score = ranked[n].score /\ Entry(n).rank = n
  OBVIOUS
<1>5. kept = {Entry(n) : n \in 1 .. count}
  BY <1>2, <1>3
<1>6. Cardinality(kept) = count
  <2> DEFINE f == [n \in 1 .. count |-> Entry(n)]
  <2>1. \A m, n \in 1 .. count : f[m] = f[n] => m = n
    <3> SUFFICES ASSUME NEW m \in 1 .. count, NEW n \in 1 .. count, f[m] = f[n] PROVE m = n
      OBVIOUS
    <3>1. f[m].rank = m /\ f[n].rank = n
      OBVIOUS
    <3> HIDE DEF f
    <3> QED
      BY <3>1
  <2>2. Range(f) = kept
    BY <1>5 DEF Range
  <2>3. DOMAIN f = 1 .. count
    OBVIOUS
  <2> HIDE DEF f, count
  <2>4. Cardinality(Range(f)) = count
    BY <1>3, <2>1, <2>3, InjectiveCount
  <2> QED
    BY <2>2, <2>4
<1>7. PICK p \in DOMAIN ranked : ranked[p] = i
  <2>1. PICK k \in DOMAIN inputs : inputs[k] = i
    BY DEF Range
  <2>2. k \in S
    BY <2>1 DEF InputsOf
  <2> HIDE DEF S
  <2> QED
    BY <1>1, <2>1, <2>2
<1> HIDE DEF Entry
<1>8. \A c \in kept : c.declaration = i.declaration
  BY <1>4, <1>5
<1>9. ASSUME NEW c \in kept PROVE c.module = i.module \/ i.score <= c.score \/ \E d \in kept : d.module = i.module
  <2>1. PICK n \in 1 .. count : c = Entry(n)
    BY <1>5
  <2>2. CASE p \in 1 .. count
    <3>1. Entry(p) \in kept /\ Entry(p).module = i.module
      BY <1>4, <1>5, <1>7, <2>2
    <3> QED
      BY <3>1
  <2>3. CASE p \notin 1 .. count
    <3>1. n < p /\ n \in DOMAIN ranked
      BY <1>1, <1>3, <1>7, <2>1, <2>3
    <3>2. ranked[n].score >= ranked[p].score /\ ranked[n].score \in Int /\ ranked[p].score \in Int
      BY <1>1, <1>7, <3>1
    <3> QED
      BY <1>4, <1>7, <2>1, <3>2
  <2> QED
    BY <2>2, <2>3
<1> QED
  BY <1>6, <1>8, <1>9 DEF ranked, kept

\* What is kept of a declaration is its shortlist.
LEMMA KeptIsTheShortlist ==
  ASSUME NEW graph, NEW inputs, NEW max, NEW set \in createSemanticCandidateSet(graph, inputs, max), NEW i \in Range(inputs)
  PROVE  /\ Of(set.candidates, i.declaration) = Shortlist(inputs, i.declaration, max)
         /\ set.graph = graph /\ assertSemanticCandidateSet(set, graph)
<1>1. \A declaration : \A c \in Shortlist(inputs, declaration, max) : c.declaration = declaration
  BY DEF Shortlist
<1>2. /\ set.candidates = UNION {Shortlist(inputs, j.declaration, max) : j \in Range(inputs)}
      /\ set.graph = graph /\ assertSemanticCandidateSet(set, graph)
  <2> DEFINE first == [graph |-> graph, max |-> max, candidates |-> UNION {Shortlist(inputs, j.declaration, max) : j \in Range(inputs)}]
             second == [graph |-> graph, max |-> max, candidates |-> first.candidates, hash |-> hash(first)]
  <2>1. set \in {s \in {second} : assertSemanticCandidateSet(s, graph)}
    BY Zenon DEF createSemanticCandidateSet
  <2>2. set = second /\ assertSemanticCandidateSet(set, graph)
    <3> HIDE DEF second
    <3> QED
      BY <2>1
  <2> QED
    BY <2>2
<1> QED
  BY <1>1, <1>2 DEF Of

\* A result there is names who was asked, is grounded in the set, and has its
\* decisions in a sequence.
LEMMA ResultsAre ==
  ASSUME NEW graph, NEW inputs, NEW max, NEW client, NEW options, RerankInput(graph, inputs, max, client, options), NEW set,
         NEW result \in rerankSemanticCandidates(graph, set, client, options).results
  PROVE  /\ assertSemanticCandidateSet(set, graph) /\ Cardinality(set.candidates) \in 1 .. MostInPayload
         /\ result.identity = options.identity /\ assertSemanticRerankResult(result, set, graph)
         /\ result.decisions \in Seq(Range(result.decisions))
<1> DEFINE good == assertSemanticCandidateSet(set, graph) /\ Cardinality(set.candidates) \in 1 .. MostInPayload
           fresh == createSemanticRerankResult(graph, set, client.reply, options.identity)
           run == rerankSemanticCandidates(graph, set, client, options)
<1>1. good
  <2>1. ~good => run = NothingSent
    BY Zenon DEF rerankSemanticCandidates
  <2> HIDE DEF good, run
  <2>2. result \in run.results
    BY DEF run
  <2> QED
    BY <2>1, <2>2 DEF NothingSent
<1>2. CASE options.cached # {}
  <2>1. run = [sent |-> {}, results |-> {r \in options.cached : r.identity = options.identity
                                                             /\ assertSemanticRerankResult(r, set, graph)}]
    BY Zenon, <1>1, <1>2 DEF rerankSemanticCandidates
  <2>2. result \in {r \in options.cached : r.identity = options.identity /\ assertSemanticRerankResult(r, set, graph)}
    BY <2>1
  <2> QED
    BY <1>1, <2>2 DEF RerankInput
<1>3. CASE options.cached = {}
  <2>1. run \in {NothingSent, [sent |-> CitedBy(set), results |-> {}], [sent |-> CitedBy(set), results |-> fresh]}
    BY Zenon, <1>1, <1>3 DEF rerankSemanticCandidates
  <2> HIDE DEF run, fresh
  <2>2. result \in run.results
    BY DEF run
  <2>3. result \in fresh
    BY <2>1, <2>2 DEF NothingSent
  <2>4. /\ result = [graph |-> graph, setHash |-> set.hash, decisions |-> client.reply, identity |-> options.identity]
        /\ assertSemanticRerankResult(result, set, graph)
    BY Zenon, <2>3 DEF fresh, createSemanticRerankResult
  <2>5. result.decisions = client.reply /\ result.identity = options.identity
    BY <2>4
  <2> QED
    BY <1>1, <2>4, <2>5 DEF RerankInput
<1> QED
  BY <1>2, <1>3

\* What is at hand when it is asked for once more: the result, and who asks.
OnceMore(options, result, identity) == [options EXCEPT !.cached = {result}, !.identity = identity]

\* What is asked for again: from the cache, or refused.
LEMMA AskedAgain ==
  ASSUME NEW graph, NEW inputs, NEW max, NEW client, NEW options, RerankInput(graph, inputs, max, client, options), NEW set,
         NEW result \in rerankSemanticCandidates(graph, set, client, options).results, NEW identity
  PROVE  rerankSemanticCandidates(graph, set, client, OnceMore(options, result, identity)) =
           [sent |-> {}, results |-> IF identity = options.identity THEN {result} ELSE {}]
<1> DEFINE again == OnceMore(options, result, identity)
<1>1. /\ assertSemanticCandidateSet(set, graph) /\ Cardinality(set.candidates) \in 1 .. MostInPayload
      /\ result.identity = options.identity /\ assertSemanticRerankResult(result, set, graph)
  BY ResultsAre
<1>2. again.cached = {result} /\ again.identity = identity
  BY DEF RerankInput, OnceMore
<1> HIDE DEF again
<1>3. again.cached # {}
  BY <1>2
<1>4. rerankSemanticCandidates(graph, set, client, again) =
        [sent |-> {}, results |-> {r \in again.cached : r.identity = again.identity /\ assertSemanticRerankResult(r, set, graph)}]
  BY Zenon, <1>1, <1>3 DEF rerankSemanticCandidates
<1>5. {r \in again.cached : r.identity = again.identity /\ assertSemanticRerankResult(r, set, graph)} =
        IF identity = options.identity THEN {result} ELSE {}
  <2>1. \A r : r \in again.cached /\ r.identity = again.identity /\ assertSemanticRerankResult(r, set, graph)
               <=> r = result /\ identity = options.identity
    BY <1>1, <1>2
  <2> QED
    BY <2>1
<1> QED
  BY <1>4, <1>5 DEF again

\* What is sent: with nothing cached, and tracked by a clean HEAD.
LEMMA SentIsTracked ==
  ASSUME NEW graph, NEW set, NEW client, NEW options
  PROVE  LET run == rerankSemanticCandidates(graph, set, client, options)
         IN /\ run.sent # {} => options.cached = {}
            /\ \A id \in run.sent : \E s \in options.snapshot :
                 s.status = {} /\ s.head = s.revision /\ graph.records[id].path \in s.tracked
<1> DEFINE run == rerankSemanticCandidates(graph, set, client, options)
<1>1. CASE run.sent = {}
  BY <1>1
<1>2. CASE run.sent # {}
  <2>1. run.sent = CitedBy(set) /\ options.cached = {} /\ \E s \in options.snapshot : assertTrackedSnapshot(graph, set, s)
    <3>1. \/ run = NothingSent
          \/ \E r : run = [sent |-> {}, results |-> r]
          \/ /\ \E r : run = [sent |-> CitedBy(set), results |-> r]
             /\ options.cached = {} /\ \E s \in options.snapshot : assertTrackedSnapshot(graph, set, s)
      BY DEF rerankSemanticCandidates
    <3> HIDE DEF run
    <3> QED
      BY <1>2, <3>1 DEF NothingSent
  <2> HIDE DEF run
  <2>2. PICK s \in options.snapshot : assertTrackedSnapshot(graph, set, s)
    BY <2>1
  <2>3. \A id \in run.sent : s.status = {} /\ s.head = s.revision /\ graph.records[id].path \in s.tracked
    BY <2>1, <2>2 DEF assertTrackedSnapshot
  <2> QED
    BY <2>1, <2>3 DEF run
<1> QED
  BY <1>1, <1>2

\* The ceiling of a relation's confidence is a number below that of certainty.
LEMMA CeilingsAre == Ceiling \in Int /\ Million \in Int /\ Ceiling < Million
<1>1. Ceiling < Million
  BY SMT DEF Ceiling, Million
<1>2. Ceiling \in Int
  BY SMT DEF Ceiling
<1>3. Million \in Int
  BY SMT DEF Million
<1> QED
  BY <1>1, <1>2, <1>3

\* What a confidence is capped to is below certainty.
LEMMA CeilingIsBelow ==
  ASSUME NEW confidence, confidence \in 0 .. Million
  PROVE  (IF confidence > Ceiling THEN Ceiling ELSE confidence) < Million
<1>1. Ceiling \in Int /\ Million \in Int /\ Ceiling < Million
  BY CeilingsAre
<1>2. confidence \in Int
  BY <1>1
<1> QED
  BY <1>1, <1>2

\* An accepted decision as a relation: of the set, quoted on either side, and not certain.
LEMMA RelationsAreGrounded ==
  ASSUME NEW graph, NEW set, NEW result, assertSemanticRerankResult(result, set, graph),
         result.decisions \in Seq(Range(result.decisions)),
         NEW n \in DOMAIN result.decisions
  PROVE  LET r == Relation(result.decisions[n])
         IN /\ \E c \in set.candidates : c.declaration = r.from /\ c.module = r.to
            /\ \A id \in {r.from, r.to} : \E e \in r.basis.evidence : e.record = id /\ e.quote \in graph.records[id].said
            /\ r.confidence < Million
            /\ \A k \in DOMAIN result.decisions :
                 /\ result.decisions[n].verdict = "accept" /\ result.decisions[k].verdict = "accept"
                 /\ Relation(result.decisions[k]).from = r.from
                 => Relation(result.decisions[k]) = r
<1> DEFINE d == result.decisions[n]
           r == Relation(d)
<1>1. \A x : /\ Relation(x).from = x.candidate.declaration /\ Relation(x).to = x.candidate.module
             /\ Relation(x).basis = x /\ Relation(x).confidence = IF x.confidence > Ceiling THEN Ceiling ELSE x.confidence
  BY DEF Relation
<1>2. \A m \in DOMAIN result.decisions :
        LET x == result.decisions[m] IN
        /\ x.candidate \in set.candidates /\ x.confidence \in 0 .. Million /\ IsGrounded(x, graph.records)
        /\ \A k \in 1 .. m - 1 :
             ~("accept" = x.verdict /\ "accept" = result.decisions[k].verdict
               /\ result.decisions[k].candidate.declaration = x.candidate.declaration)
  BY DEF assertSemanticRerankResult, validateSemanticDecisions
<1>3. d.candidate \in set.candidates /\ d.confidence \in 0 .. Million /\ IsGrounded(d, graph.records)
  BY <1>2
<1>4. \A id \in {r.from, r.to} : \E e \in r.basis.evidence : e.record = id /\ e.quote \in graph.records[id].said
  <2>1. /\ {e.record : e \in d.evidence} = {d.candidate.declaration, d.candidate.module}
        /\ \A e \in d.evidence : e.quote \in graph.records[e.record].said
    BY <1>3 DEF IsGrounded
  <2>2. r.from = d.candidate.declaration /\ r.to = d.candidate.module /\ r.basis = d
    BY <1>1
  <2> HIDE DEF r, d
  <2> QED
    BY <2>1, <2>2
<1>5. r.confidence < Million
  <2>1. r.confidence = IF d.confidence > Ceiling THEN Ceiling ELSE d.confidence
    BY Zenon, <1>1
  <2> HIDE DEF r, d
  <2> QED
    BY <1>3, <2>1, CeilingIsBelow
<1>6. ASSUME NEW k \in DOMAIN result.decisions, d.verdict = "accept", result.decisions[k].verdict = "accept",
             Relation(result.decisions[k]).from = r.from
      PROVE  Relation(result.decisions[k]) = r
  <2>1. Len(result.decisions) \in Nat /\ DOMAIN result.decisions = 1 .. Len(result.decisions)
    BY LenProperties
  <2>2. result.decisions[k].candidate.declaration = d.candidate.declaration
    BY <1>1, <1>6
  <2>3. ~(k \in 1 .. n - 1)
    BY <1>2, <1>6, <2>2
  <2>4. ~(n \in 1 .. k - 1)
    BY <1>2, <1>6, <2>2
  <2>5. n = k
    BY <2>1, <2>3, <2>4
  <2> QED
    BY <2>5
<1> QED
  BY <1>1, <1>3, <1>4, <1>5, <1>6

\* What a graph gains from a result, and that it gains it once.
GainsGrounded(graph, set, result) ==
  \E after \in applyAcceptedSemanticRelations(graph, set, result) :
    LET gained == after.relations \ graph.relations IN
    /\ graph.relations \subseteq after.relations /\ after.records = graph.records
    /\ \A r \in gained :
         /\ \E c \in set.candidates : c.declaration = r.from /\ c.module = r.to
         /\ \A id \in {r.from, r.to} : \E e \in r.basis.evidence :
              e.record = id /\ e.quote \in graph.records[id].said
         /\ r.confidence < Million
         /\ \A s \in gained : s.from = r.from => s = r
    /\ gained # {} => applyAcceptedSemanticRelations(after, set, result) = {}

LEMMA AppliedIsGrounded ==
  ASSUME NEW graph, graph = [records |-> graph.records, relations |-> graph.relations], NEW set, set.graph = graph,
         NEW result, assertSemanticRerankResult(result, set, graph), result.decisions \in Seq(Range(result.decisions))
  PROVE  GainsGrounded(graph, set, result)
<1> DEFINE accepted == {e \in Range(result.decisions) : e.verdict = "accept"}
           after == [graph EXCEPT !.relations = @ \cup {Relation(d) : d \in accepted}]
           gained == after.relations \ graph.relations
<1>1. after \in applyAcceptedSemanticRelations(graph, set, result)
  BY Zenon DEF applyAcceptedSemanticRelations
<1>2. after.relations = graph.relations \cup {Relation(d) : d \in accepted} /\ after.records = graph.records
  <2> HIDE DEF accepted
  <2> QED
    OBVIOUS
<1> HIDE DEF after
<1>3. ASSUME NEW r \in gained
      PROVE  \E n \in DOMAIN result.decisions : r = Relation(result.decisions[n]) /\ result.decisions[n].verdict = "accept"
  BY <1>2 DEF Range
<1>4. ASSUME NEW r \in gained
      PROVE  /\ \E c \in set.candidates : c.declaration = r.from /\ c.module = r.to
             /\ \A id \in {r.from, r.to} : \E e \in r.basis.evidence :
                  e.record = id /\ e.quote \in graph.records[id].said
             /\ r.confidence < Million
             /\ \A s \in gained : s.from = r.from => s = r
  <2>1. PICK n \in DOMAIN result.decisions : r = Relation(result.decisions[n]) /\ result.decisions[n].verdict = "accept"
    BY <1>3
  <2>2. /\ \E c \in set.candidates : c.declaration = r.from /\ c.module = r.to
        /\ \A id \in {r.from, r.to} : \E e \in r.basis.evidence : e.record = id /\ e.quote \in graph.records[id].said
        /\ r.confidence < Million
        /\ \A k \in DOMAIN result.decisions :
             /\ result.decisions[n].verdict = "accept" /\ result.decisions[k].verdict = "accept"
             /\ Relation(result.decisions[k]).from = r.from
             => Relation(result.decisions[k]) = r
    BY <2>1, RelationsAreGrounded
  <2>3. ASSUME NEW s \in gained, s.from = r.from PROVE s = r
    <3>1. PICK k \in DOMAIN result.decisions : s = Relation(result.decisions[k]) /\ result.decisions[k].verdict = "accept"
      BY <1>3
    <3> QED
      BY <2>1, <2>2, <2>3, <3>1
  <2> QED
    BY <2>2, <2>3
<1>5. gained # {} => applyAcceptedSemanticRelations(after, set, result) = {}
  <2> SUFFICES ASSUME gained # {} PROVE ~assertSemanticRerankResult(result, set, after)
    BY DEF applyAcceptedSemanticRelations
  <2>1. after # graph
    OBVIOUS
  <2> QED
    BY <2>1 DEF assertSemanticRerankResult, assertSemanticCandidateSet
<1> QED
  BY <1>1, <1>2, <1>4, <1>5 DEF GainsGrounded

\* The model chooses from the shortlist of the best modules, only what a clean
\* HEAD tracks is sent, and a graph gains at most one module for a declaration,
\* quoted on either side, and gains it once (rerankSemanticCandidates,
\* applyAcceptedSemanticRelations).
THEOREM RerankingIsGrounded ==
  ASSUME NEW graph, NEW inputs, NEW max, NEW client, NEW options, RerankInput(graph, inputs, max, client, options)
  PROVE  RerankIsGrounded(graph, inputs, max, client, options)
<1> SUFFICES ASSUME NEW set \in createSemanticCandidateSet(graph, inputs, max)
             PROVE  LET run == rerankSemanticCandidates(graph, set, client, options)
                        again(identity, result) ==
                          rerankSemanticCandidates(graph, set, client, [options EXCEPT !.cached = {result}, !.identity = identity])
                    IN /\ \A i \in Range(inputs) :
                            LET kept == Of(set.candidates, i.declaration) IN
                            /\ Cardinality(kept) = IF Len(Ranked(inputs, i.declaration)) > max THEN max ELSE Len(Ranked(inputs, i.declaration))
                            /\ \A c \in kept : c.module = i.module \/ i.score <= c.score \/ \E d \in kept : d.module = i.module
                       /\ run.sent # {} => options.cached = {}
                       /\ \A id \in run.sent : \E s \in options.snapshot :
                            s.status = {} /\ s.head = s.revision /\ graph.records[id].path \in s.tracked
                       /\ \A result \in run.results :
                            /\ result.identity = options.identity
                            /\ again(options.identity, result) = [sent |-> {}, results |-> {result}]
                            /\ again(options.identity + 1, result) = NothingSent
                            /\ GainsGrounded(graph, set, result)
  BY Zenon DEF RerankIsGrounded, GainsGrounded
<1> DEFINE run == rerankSemanticCandidates(graph, set, client, options)
           again(identity, result) ==
             rerankSemanticCandidates(graph, set, client, [options EXCEPT !.cached = {result}, !.identity = identity])
<1>1. ASSUME NEW i \in Range(inputs)
      PROVE  LET kept == Of(set.candidates, i.declaration) IN
             /\ Cardinality(kept) = IF Len(Ranked(inputs, i.declaration)) > max THEN max ELSE Len(Ranked(inputs, i.declaration))
             /\ \A c \in kept : c.module = i.module \/ i.score <= c.score \/ \E d \in kept : d.module = i.module
  <2>1. Of(set.candidates, i.declaration) = Shortlist(inputs, i.declaration, max)
    BY KeptIsTheShortlist
  <2>2. LET kept == Shortlist(inputs, i.declaration, max)
            ranked == Ranked(inputs, i.declaration)
        IN /\ Cardinality(kept) = IF Len(ranked) > max THEN max ELSE Len(ranked)
           /\ \A c \in kept : c.declaration = i.declaration
           /\ \A c \in kept : c.module = i.module \/ i.score <= c.score \/ \E d \in kept : d.module = i.module
    BY ShortlistIs
  <2> QED
    BY <2>1, <2>2
<1>2. /\ run.sent # {} => options.cached = {}
      /\ \A id \in run.sent : \E s \in options.snapshot :
           s.status = {} /\ s.head = s.revision /\ graph.records[id].path \in s.tracked
  BY SentIsTracked
<1>3. ASSUME NEW result \in run.results
      PROVE  /\ result.identity = options.identity
             /\ again(options.identity, result) = [sent |-> {}, results |-> {result}]
             /\ again(options.identity + 1, result) = NothingSent
             /\ GainsGrounded(graph, set, result)
  <2>1. /\ result.identity = options.identity /\ assertSemanticRerankResult(result, set, graph)
        /\ result.decisions \in Seq(Range(result.decisions))
    BY ResultsAre
  <2>2. \A identity : again(identity, result) = [sent |-> {}, results |-> IF identity = options.identity THEN {result} ELSE {}]
    <3> SUFFICES ASSUME NEW identity
                 PROVE  again(identity, result) = [sent |-> {}, results |-> IF identity = options.identity THEN {result} ELSE {}]
      OBVIOUS
    <3>1. result \in rerankSemanticCandidates(graph, set, client, options).results
      OBVIOUS
    <3>2. rerankSemanticCandidates(graph, set, client, OnceMore(options, result, identity)) =
            [sent |-> {}, results |-> IF identity = options.identity THEN {result} ELSE {}]
      <4> HIDE DEF run, again
      <4> QED
        BY <3>1, AskedAgain
    <3> QED
      BY Zenon, <3>2 DEF OnceMore
  <2> HIDE DEF again
  <2>3. again(options.identity, result) = [sent |-> {}, results |-> {result}]
    BY <2>2
  <2>4. again(options.identity + 1, result) = NothingSent
    <3>1. options.identity + 1 # options.identity
      BY DEF RerankInput
    <3>2. again(options.identity + 1, result) =
            [sent |-> {}, results |-> IF options.identity + 1 = options.identity THEN {result} ELSE {}]
      BY <2>2
    <3> QED
      BY <3>1, <3>2 DEF NothingSent
  <2>5. set.graph = graph
    BY <2>1 DEF assertSemanticRerankResult, assertSemanticCandidateSet
  <2>6. graph = [records |-> graph.records, relations |-> graph.relations]
    BY DEF RerankInput
  <2>7. GainsGrounded(graph, set, result)
    BY <2>1, <2>5, <2>6, AppliedIsGrounded
  <2> QED
    BY <2>1, <2>3, <2>4, <2>7
<1> HIDE DEF run
<1> QED
  BY Zenon, <1>1, <1>2, <1>3 DEF run

-----------------------------------------------------------------------------
(* DeliverySlices: the order and precedence of what is compiled.         *)

\* Finitely many keys, which are numbers, and what each waits for.
Keyed(dependsOn) ==
  IsFiniteSet(DOMAIN dependsOn) /\ DOMAIN dependsOn \subseteq Int /\ dependsOn = [k \in DOMAIN dependsOn |-> dependsOn[k]]

\* The keys of a round, each once.
LEMMA ByKeyIsAll ==
  ASSUME NEW S, IsFiniteSet(S), S \subseteq Int
  PROVE  /\ Cardinality(S) \in Nat /\ ByKey(S) \in Seq(S) /\ Len(ByKey(S)) = Cardinality(S)
         /\ \A m, n \in 1 .. Cardinality(S) : ByKey(S)[m] = ByKey(S)[n] => m = n
         /\ Range(ByKey(S)) = S
<1> DEFINE R == {p \in S \X S : p[1] < p[2]}
           s == ByKey(S)
           count == Cardinality(S)
<1>1. count \in Nat
  BY FS_CardinalityType
<1>2. StrictOrder(S, R)
  BY DEF StrictOrder
<1>3. \A k \in S : Cardinality({l \in S : l < k}) = RankIn(S, R, k)
  <2> SUFFICES ASSUME NEW k \in S PROVE Cardinality({l \in S : l < k}) = RankIn(S, R, k)
    OBVIOUS
  <2>1. {l \in S : l < k} = {l \in S : <<l, k>> \in R}
    OBVIOUS
  <2> QED
    BY <2>1 DEF RankIn
<1>4. s = [n \in 1 .. count |-> CHOOSE k \in S : Cardinality({l \in S : l < k}) = n - 1]
  BY DEF ByKey
<1> HIDE DEF R, s
<1>5. ASSUME NEW n \in 1 .. count, \E k \in S : RankIn(S, R, k) = n - 1
      PROVE  s[n] \in S /\ RankIn(S, R, s[n]) = n - 1
  <2>1. \E k \in S : Cardinality({l \in S : l < k}) = n - 1
    BY <1>3, <1>5
  <2>2. s[n] = CHOOSE k \in S : Cardinality({l \in S : l < k}) = n - 1
    BY Zenon, <1>4
  <2>3. s[n] \in S /\ Cardinality({l \in S : l < s[n]}) = n - 1
    BY <2>1, <2>2
  <2> QED
    BY <1>3, <2>3
<1>6. Sorted(S, R, s)
  BY <1>2, <1>5, RankedIsSorted
<1>7. DOMAIN s = 1 .. count
  BY <1>4
<1>8. /\ \A n \in 1 .. count : s[n] \in S
      /\ \A m, n \in 1 .. count : m < n => s[m] # s[n]
      /\ \A x \in S : \E n \in 1 .. count : s[n] = x
  BY <1>6 DEF Sorted
<1>9. s \in Seq(S) /\ Len(s) = count
  <2>1. s \in [1 .. count -> S]
    BY <1>4, <1>7, <1>8
  <2> QED
    BY <1>1, <2>1
<1>10. Range(s) = S
  BY <1>7, <1>8 DEF Range
<1>11. \A m, n \in 1 .. count : s[m] = s[n] => m = n
  BY <1>1, <1>8
<1> QED
  BY <1>1, <1>9, <1>10, <1>11 DEF s

\* One more round, and so many of them.
OneRound(dependsOn, placed) == placed \o ByKey(Unblocked(dependsOn, placed))
Rounds(dependsOn, n, rounds) ==
  rounds = [k \in 0 .. n |-> IF k = 0 THEN <<>> ELSE OneRound(dependsOn, rounds[k - 1])]

\* There are as many rounds as are asked for.
LEMMA RoundsExist == ASSUME NEW dependsOn, NEW n \in Nat PROVE \E rounds : Rounds(dependsOn, n, rounds)
<1> DEFINE T == {k \in Nat : ~\E rounds : Rounds(dependsOn, k, rounds)}
<1> SUFFICES ASSUME T # {} PROVE FALSE
  OBVIOUS
<1>1. PICK k \in T : \A j \in T : k <= j
  BY SmallestOf
<1>2. CASE k = 0
  <2>1. Rounds(dependsOn, 0, [j \in 0 .. 0 |-> <<>>])
    BY DEF Rounds
  <2> QED
    BY <1>1, <1>2, <2>1
<1>3. CASE k # 0
  <2>1. k - 1 \in Nat /\ k - 1 \notin T
    BY <1>1, <1>3
  <2>2. PICK rounds : Rounds(dependsOn, k - 1, rounds)
    BY <2>1
  <2> DEFINE longer == [j \in 0 .. k |-> IF j = k THEN OneRound(dependsOn, rounds[k - 1]) ELSE rounds[j]]
  <2>3. longer = [j \in 0 .. k |-> IF j = 0 THEN <<>> ELSE OneRound(dependsOn, longer[j - 1])]
    <3> SUFFICES ASSUME NEW j \in 0 .. k
                 PROVE  longer[j] = IF j = 0 THEN <<>> ELSE OneRound(dependsOn, longer[j - 1])
      BY Zenon
    <3>1. j \in 0 .. k - 1 => rounds[j] = IF j = 0 THEN <<>> ELSE OneRound(dependsOn, rounds[j - 1])
      BY <2>2 DEF Rounds
    <3>2. j \in 0 .. k - 1 \/ j = k
      BY <2>1
    <3>3. CASE j = k
      <4>1. k - 1 \in 0 .. k /\ k - 1 # k /\ j # 0 /\ j - 1 = k - 1
        BY <1>3, <2>1, <3>3
      <4> QED
        BY <3>3, <4>1
    <3>4. CASE j \in 0 .. k - 1
      <4>1. j # k /\ (j # 0 => j - 1 \in 0 .. k /\ j - 1 # k)
        BY <2>1, <3>4
      <4> QED
        BY <3>1, <3>4, <4>1
    <3> QED
      BY <3>2, <3>3, <3>4
  <2> QED
    BY <1>1, <2>3 DEF Rounds
<1> QED
  BY <1>2, <1>3

\* topological, as its last round.
LEMMA TopologicalIs ==
  ASSUME NEW dependsOn, Cardinality(DOMAIN dependsOn) \in Nat
  PROVE  \E rounds : /\ Rounds(dependsOn, Cardinality(DOMAIN dependsOn), rounds)
                     /\ topological(dependsOn) = rounds[Cardinality(DOMAIN dependsOn)]
<1> DEFINE N == Cardinality(DOMAIN dependsOn)
           rounds == CHOOSE f : f = [k \in 0 .. N |-> IF k = 0 THEN <<>>
                                                     ELSE LET placed == f[k - 1] IN placed \o ByKey(Unblocked(dependsOn, placed))]
<1>1. topological(dependsOn) = rounds[N]
  BY Zenon DEF topological
<1>2. \E f : f = [k \in 0 .. N |-> IF k = 0 THEN <<>> ELSE f[k - 1] \o ByKey(Unblocked(dependsOn, f[k - 1]))]
  <2> HIDE DEF N
  <2> QED
    BY RoundsExist DEF Rounds, OneRound, N
<1>3. rounds = [k \in 0 .. N |-> IF k = 0 THEN <<>> ELSE rounds[k - 1] \o ByKey(Unblocked(dependsOn, rounds[k - 1]))]
  <2> HIDE DEF N
  <2> QED
    BY Zenon, <1>2
<1>4. Rounds(dependsOn, N, rounds)
  <2> HIDE DEF N, rounds
  <2> QED
    BY Zenon, <1>3 DEF Rounds, OneRound
<1> HIDE DEF rounds
<1> QED
  BY <1>1, <1>4

\* An order of keys: none twice, each behind all it waits for.
InRounds(dependsOn, s) ==
  /\ s \in Seq(DOMAIN dependsOn)
  /\ \A m, n \in 1 .. Len(s) : s[m] = s[n] => m = n
  /\ \A n \in 1 .. Len(s) : \A l \in dependsOn[s[n]] : \E m \in 1 .. n - 1 : s[m] = l

\* A round adds every key that waits for none that is left.
LEMMA RoundAdds ==
  ASSUME NEW dependsOn, Keyed(dependsOn), NEW s, InRounds(dependsOn, s)
  PROVE  LET ready == Unblocked(dependsOn, s)
             t == OneRound(dependsOn, s)
         IN /\ InRounds(dependsOn, t) /\ Range(t) = Range(s) \cup ready
            /\ IsFiniteSet(ready) /\ Len(s) \in Nat /\ Cardinality(ready) \in Nat /\ Len(t) = Len(s) + Cardinality(ready)
<1> DEFINE ready == Unblocked(dependsOn, s)
           u == ByKey(ready)
           t == s \o u
           a == Len(s)
           b == Cardinality(ready)
<1>1. ready \in SUBSET DOMAIN dependsOn /\ IsFiniteSet(ready) /\ ready \subseteq Int
  <2>1. ready \in SUBSET DOMAIN dependsOn
    BY DEF Unblocked
  <2> HIDE DEF ready
  <2> QED
    BY <2>1, FS_Subset DEF Keyed
<1>2. \A k \in ready : k \notin Range(s) /\ dependsOn[k] \subseteq Range(s)
  BY DEF Unblocked
<1> HIDE DEF ready
<1>3. /\ b \in Nat /\ u \in Seq(ready) /\ Len(u) = b /\ Range(u) = ready
      /\ \A m, n \in 1 .. b : u[m] = u[n] => m = n
  BY <1>1, ByKeyIsAll
<1> HIDE DEF u
<1>4. a \in Nat /\ DOMAIN s = 1 .. a /\ s \in Seq(DOMAIN dependsOn) /\ DOMAIN u = 1 .. b
  BY <1>3, LenProperties DEF InRounds
<1>5. u \in Seq(DOMAIN dependsOn)
  BY <1>1, <1>3
<1>6. /\ t \in Seq(DOMAIN dependsOn) /\ Len(t) = a + b
      /\ \A n \in 1 .. a + b : t[n] = IF n <= a THEN s[n] ELSE u[n - a]
  <2>1. /\ s \o u \in Seq(DOMAIN dependsOn) /\ Len(s \o u) = Len(s) + Len(u)
        /\ \A n \in 1 .. Len(s) + Len(u) : (s \o u)[n] = IF n <= Len(s) THEN s[n] ELSE u[n - Len(s)]
    BY <1>4, <1>5, ConcatProperties
  <2> QED
    BY <1>3, <2>1
<1> HIDE DEF t, a, b
<1>7. /\ \A n \in 1 .. a : n \in 1 .. a + b /\ t[n] = s[n]
      /\ \A n \in a + 1 .. a + b : n \in 1 .. a + b /\ t[n] = u[n - a] /\ n - a \in 1 .. b
      /\ \A n \in 1 .. a + b : n \in 1 .. a \/ n \in a + 1 .. a + b
  BY <1>3, <1>4, <1>6
<1>8. /\ \A n \in 1 .. a : s[n] \in Range(s)
      /\ \A n \in 1 .. b : u[n] \in ready
      /\ \A x \in Range(s) : \E n \in 1 .. a : s[n] = x
      /\ \A x \in ready : \E n \in 1 .. b : u[n] = x
  BY <1>3, <1>4 DEF Range
<1>9. Range(t) = Range(s) \cup ready
  <2>1. \A x \in Range(t) : x \in Range(s) \cup ready
    <3>1. \A x \in Range(t) : \E n \in 1 .. a + b : x = t[n]
      BY <1>4, <1>6, LenProperties DEF Range
    <3> QED
      BY <1>7, <1>8, <3>1
  <2>2. \A n \in 1 .. a + b : t[n] \in Range(t)
    BY <1>6, LenProperties DEF Range
  <2>3. \A x \in Range(s) : x \in Range(t)
    BY <1>7, <1>8, <2>2
  <2>4. \A x \in ready : x \in Range(t)
    <3> SUFFICES ASSUME NEW x \in ready PROVE x \in Range(t)
      OBVIOUS
    <3>1. PICK n \in 1 .. b : u[n] = x
      BY <1>8
    <3> DEFINE j == a + n
    <3>2. j \in a + 1 .. a + b /\ j - a = n
      BY <1>3, <1>4
    <3> HIDE DEF j
    <3>3. t[j] = u[j - a] /\ j \in 1 .. a + b
      BY <1>7, <3>2
    <3>4. t[j] = x
      BY Zenon, <3>1, <3>2, <3>3
    <3> QED
      BY <2>2, <3>3, <3>4
  <2> QED
    BY <2>1, <2>3, <2>4
<1>10. ASSUME NEW m \in 1 .. a + b, NEW n \in 1 .. a + b, t[m] = t[n] PROVE m = n
  <2>1. CASE m \in 1 .. a /\ n \in 1 .. a
    <3>1. \A j, k \in 1 .. a : s[j] = s[k] => j = k
      BY DEF InRounds, a
    <3> QED
      BY <1>7, <1>10, <2>1, <3>1
  <2>2. CASE m \in a + 1 .. a + b /\ n \in a + 1 .. a + b
    <3>1. m - a = n - a
      BY <1>3, <1>7, <1>10, <2>2
    <3> QED
      BY <1>4, <2>2, <3>1
  <2>3. CASE m \in 1 .. a /\ n \in a + 1 .. a + b
    BY <1>2, <1>7, <1>8, <1>10, <2>3
  <2>4. CASE m \in a + 1 .. a + b /\ n \in 1 .. a
    BY <1>2, <1>7, <1>8, <1>10, <2>4
  <2> QED
    BY <1>7, <2>1, <2>2, <2>3, <2>4
<1>11. ASSUME NEW n \in 1 .. a + b, NEW l \in dependsOn[t[n]] PROVE \E m \in 1 .. n - 1 : t[m] = l
  <2>1. CASE n \in 1 .. a
    <3>1. PICK m \in 1 .. n - 1 : s[m] = l
      BY <1>7, <1>11, <2>1 DEF InRounds, a
    <3>2. m \in 1 .. a
      BY <1>4, <2>1
    <3> QED
      BY <1>7, <3>1, <3>2
  <2>2. CASE n \in a + 1 .. a + b
    <3>1. l \in Range(s)
      BY <1>2, <1>7, <1>8, <1>11, <2>2
    <3>2. PICK m \in 1 .. a : s[m] = l
      BY <1>8, <3>1
    <3>3. m \in 1 .. n - 1
      BY <1>4, <2>2
    <3> QED
      BY <1>7, <3>2, <3>3
  <2> QED
    BY <1>7, <2>1, <2>2
<1>12. InRounds(dependsOn, t)
  BY <1>6, <1>10, <1>11 DEF InRounds
<1> QED
  BY <1>1, <1>3, <1>4, <1>6, <1>9, <1>12 DEF OneRound, t, a, b, u, ready

\* Every set of keys has one that waits for none of them: there is no cycle.
NoCycle(dependsOn) ==
  \A S \in SUBSET DOMAIN dependsOn : S # {} => \E k \in S : dependsOn[k] \cap S = {}

\* A round that adds nothing has found a cycle, or everything is there.
LEMMA RoundIsBlocked ==
  ASSUME NEW dependsOn, Keyed(dependsOn), NEW s, InRounds(dependsOn, s), NoCycle(dependsOn),
         \A k \in DOMAIN dependsOn : dependsOn[k] \subseteq DOMAIN dependsOn, Range(s) # DOMAIN dependsOn
  PROVE  Unblocked(dependsOn, s) # {}
<1> DEFINE left == DOMAIN dependsOn \ Range(s)
<1>1. Range(s) \subseteq DOMAIN dependsOn
  <2>1. \A n \in DOMAIN s : s[n] \in DOMAIN dependsOn
    BY ElementOfSeq, LenProperties DEF InRounds
  <2> QED
    BY <2>1 DEF Range
<1>2. left # {} /\ left \in SUBSET DOMAIN dependsOn
  BY <1>1
<1>3. PICK k \in left : dependsOn[k] \cap left = {}
  <2> HIDE DEF left
  <2> QED
    BY <1>2 DEF NoCycle
<1>4. dependsOn[k] \subseteq Range(s)
  BY <1>3
<1> QED
  BY <1>4 DEF Unblocked

\* What is placed is of any number at most of the keys, and all of them if of that many.
LEMMA PlacedAreCounted ==
  ASSUME NEW dependsOn, Keyed(dependsOn), NEW s, InRounds(dependsOn, s)
  PROVE  /\ Len(s) \in Nat /\ Cardinality(DOMAIN dependsOn) \in Nat /\ Len(s) <= Cardinality(DOMAIN dependsOn)
         /\ Len(s) = Cardinality(DOMAIN dependsOn) <=> Range(s) = DOMAIN dependsOn
<1>1. Len(s) \in Nat /\ DOMAIN s = 1 .. Len(s) /\ \A n \in DOMAIN s : s[n] \in DOMAIN dependsOn
  BY ElementOfSeq, LenProperties DEF InRounds
<1>2. Range(s) \in SUBSET DOMAIN dependsOn
  BY <1>1 DEF Range
<1>3. IsFiniteSet(Range(s)) /\ Cardinality(Range(s)) = Len(s)
  BY <1>1, InjectiveCount DEF InRounds
<1>4. /\ Cardinality(DOMAIN dependsOn) \in Nat /\ Cardinality(Range(s)) <= Cardinality(DOMAIN dependsOn)
      /\ Cardinality(DOMAIN dependsOn) = Cardinality(Range(s)) => Range(s) = DOMAIN dependsOn
  BY <1>2, FS_CardinalityType, FS_Subset DEF Keyed
<1> QED
  BY <1>1, <1>3, <1>4

\* The order that topological returns, whole unless there is a cycle.
LEMMA TopologicalIsOrder ==
  ASSUME NEW dependsOn, Keyed(dependsOn)
  PROVE  /\ InRounds(dependsOn, topological(dependsOn))
         /\ (\A k \in DOMAIN dependsOn : dependsOn[k] \subseteq DOMAIN dependsOn) /\ NoCycle(dependsOn) =>
              Range(topological(dependsOn)) = DOMAIN dependsOn
<1> DEFINE N == Cardinality(DOMAIN dependsOn)
           fine == (\A k \in DOMAIN dependsOn : dependsOn[k] \subseteq DOMAIN dependsOn) /\ NoCycle(dependsOn)
<1>1. N \in Nat
  BY FS_CardinalityType DEF Keyed
<1>2. PICK rounds : Rounds(dependsOn, N, rounds) /\ topological(dependsOn) = rounds[N]
  BY <1>1, TopologicalIs
<1> HIDE DEF N
<1>3. rounds[0] = <<>> /\ \A n \in 1 .. N : rounds[n] = OneRound(dependsOn, rounds[n - 1])
  <2>1. 0 \in 0 .. N /\ \A n \in 1 .. N : n \in 0 .. N /\ n # 0
    BY <1>1
  <2>2. \A n \in 0 .. N : rounds[n] = IF n = 0 THEN <<>> ELSE OneRound(dependsOn, rounds[n - 1])
    BY Zenon, <1>2 DEF Rounds
  <2> QED
    BY <2>1, <2>2
\* After n rounds at least n keys are there, or all.
<1> DEFINE Holds(n) == /\ InRounds(dependsOn, rounds[n])
                       /\ fine => n <= Len(rounds[n]) \/ Range(rounds[n]) = DOMAIN dependsOn
           T == {n \in 0 .. N : ~Holds(n)}
<1>4. Holds(0)
  <2>1. InRounds(dependsOn, <<>>)
    BY DEF InRounds
  <2> QED
    BY <1>3, <2>1
<1>5. ASSUME NEW n \in 1 .. N, Holds(n - 1) PROVE Holds(n)
  <2> DEFINE s == rounds[n - 1]
             ready == Unblocked(dependsOn, s)
  <2>1. InRounds(dependsOn, s) /\ rounds[n] = OneRound(dependsOn, s)
    BY <1>3, <1>5
  <2>2. /\ InRounds(dependsOn, rounds[n]) /\ Range(rounds[n]) = Range(s) \cup ready
        /\ IsFiniteSet(ready) /\ Len(s) \in Nat /\ Cardinality(ready) \in Nat /\ Len(rounds[n]) = Len(s) + Cardinality(ready)
    BY <2>1, RoundAdds
  <2>3. ASSUME fine, n - 1 <= Len(s), Range(s) # DOMAIN dependsOn PROVE n <= Len(rounds[n])
    <3>1. ready # {}
      BY <2>1, <2>3, RoundIsBlocked
    <3>2. Cardinality(ready) # 0
      BY <2>2, <3>1, FS_EmptySet
    <3> QED
      BY <2>2, <2>3, <3>2
  <2>4. Range(rounds[n]) \subseteq DOMAIN dependsOn
    <3>1. \A k \in DOMAIN rounds[n] : rounds[n][k] \in DOMAIN dependsOn
      BY <2>2, ElementOfSeq, LenProperties DEF InRounds
    <3> QED
      BY <3>1 DEF Range
  <2>5. ASSUME Range(s) = DOMAIN dependsOn PROVE Range(rounds[n]) = DOMAIN dependsOn
    BY <2>2, <2>4, <2>5
  <2> HIDE DEF s, ready, fine
  <2> QED
    BY <1>5, <2>2, <2>3, <2>5 DEF s
<1>6. T = {}
  <2> SUFFICES ASSUME T # {} PROVE FALSE
    OBVIOUS
  <2>1. T \in SUBSET Nat
    BY <1>1
  <2>2. PICK n \in T : \A m \in T : n <= m
    <3> HIDE DEF T
    <3> QED
      BY <2>1, SmallestOf
  <2> HIDE DEF Holds
  <2>3. n \in 1 .. N
    BY <1>1, <1>4, <2>2
  <2>4. n - 1 \in 0 .. N /\ ~(n <= n - 1)
    BY <1>1, <2>3
  <2>5. Holds(n - 1)
    BY <2>2, <2>4
  <2> QED
    BY <1>5, <2>2, <2>3, <2>5
<1>7. Holds(N)
  <2>1. N \in 0 .. N
    BY <1>1
  <2> HIDE DEF Holds
  <2> QED
    BY <1>6, <2>1
<1>8. fine => Range(rounds[N]) = DOMAIN dependsOn
  <2>1. /\ Len(rounds[N]) <= N /\ Len(rounds[N]) \in Nat
        /\ Len(rounds[N]) = N => Range(rounds[N]) = DOMAIN dependsOn
    BY <1>7, PlacedAreCounted DEF N
  <2> QED
    BY <1>1, <1>7, <2>1
<1> QED
  BY <1>2, <1>7, <1>8

\* In an order that is whole, something comes first and something last of any keys.
LEMMA WholeOrderHasEnds ==
  ASSUME NEW dependsOn, Keyed(dependsOn), NEW s, InRounds(dependsOn, s), Range(s) = DOMAIN dependsOn,
         NEW S \in SUBSET DOMAIN dependsOn, S # {}
  PROVE  /\ \E k \in S : dependsOn[k] \cap S = {}
         /\ \E k \in S : \A l \in S : k \notin dependsOn[l]
<1> DEFINE N == Len(s)
<1>1. N \in Nat /\ DOMAIN s = 1 .. N
  BY LenProperties DEF InRounds
<1>2. \A x \in S : \E n \in 1 .. N : s[n] = x
  BY <1>1 DEF Range
<1>3. /\ \A m, n \in 1 .. N : s[m] = s[n] => m = n
      /\ \A n \in 1 .. N : \A l \in dependsOn[s[n]] : \E m \in 1 .. n - 1 : s[m] = l
  BY DEF InRounds
<1> HIDE DEF N
<1>4. \E k \in S : dependsOn[k] \cap S = {}
  <2> DEFINE T == {n \in 1 .. N : s[n] \in S}
  <2>1. T \in SUBSET Nat /\ T # {}
    BY <1>1, <1>2
  <2>2. PICK n \in T : \A m \in T : n <= m
    <3> HIDE DEF T
    <3> QED
      BY <2>1, SmallestOf
  <2>3. dependsOn[s[n]] \cap S = {}
    <3> SUFFICES ASSUME NEW l \in S, l \in dependsOn[s[n]] PROVE FALSE
      OBVIOUS
    <3>1. PICK m \in 1 .. n - 1 : s[m] = l
      BY <1>3, <2>2
    <3>2. m \in 1 .. N /\ ~(n <= m)
      BY <1>1, <2>2
    <3> QED
      BY <2>2, <3>1, <3>2
  <2> QED
    BY <2>2, <2>3
<1>5. \E k \in S : \A l \in S : k \notin dependsOn[l]
  <2> DEFINE T == {j \in 0 .. N : N - j \in 1 .. N /\ s[N - j] \in S}
  <2>1. T \in SUBSET Nat
    BY <1>1
  <2>4. T # {}
    <3>1. PICK n \in 1 .. N : s[n] \in S
      BY <1>2
    <3>2. N - n \in 0 .. N /\ N - (N - n) = n
      BY <1>1
    <3>3. N - n \in T
      BY <3>1, <3>2
    <3> QED
      BY <3>3
  <2>2. PICK j \in T : \A i \in T : j <= i
    <3> HIDE DEF T
    <3> QED
      BY <2>1, <2>4, SmallestOf
  <2>3. ASSUME NEW l \in S, s[N - j] \in dependsOn[l] PROVE FALSE
    <3>1. PICK n \in 1 .. N : s[n] = l
      BY <1>2
    <3>2. PICK m \in 1 .. n - 1 : s[m] = s[N - j]
      BY <1>3, <2>3, <3>1
    <3>3. m = N - j
      <4>1. m \in 1 .. N /\ N - j \in 1 .. N
        BY <1>1, <2>2, <3>1
      <4> QED
        BY <1>3, <3>2, <4>1
    <3>4. N - n \in 0 .. N /\ N - (N - n) = n /\ ~(j <= N - n)
      BY <1>1, <2>2, <3>3
    <3>5. N - n \in T
      BY <3>1, <3>4
    <3> QED
      BY <2>2, <3>4, <3>5
  <2> QED
    BY <2>2, <2>3
<1> QED
  BY <1>4, <1>5

\* What the validator of dependencies says: there is no cycle, nor anything unknown.
LEMMA DependenciesAre ==
  ASSUME NEW dependsOn, Keyed(dependsOn)
  PROVE  /\ DependenciesAccepted(dependsOn) <=>
              (\A k \in DOMAIN dependsOn : dependsOn[k] \subseteq DOMAIN dependsOn) /\ NoCycle(dependsOn)
         /\ DependenciesAccepted(dependsOn) =>
              \A S \in SUBSET DOMAIN dependsOn : S # {} => \E k \in S : \A l \in S : k \notin dependsOn[l]
<1> DEFINE s == topological(dependsOn)
<1>1. /\ InRounds(dependsOn, s)
      /\ (\A k \in DOMAIN dependsOn : dependsOn[k] \subseteq DOMAIN dependsOn) /\ NoCycle(dependsOn) => Range(s) = DOMAIN dependsOn
  BY TopologicalIsOrder
<1>2. Len(s) = Cardinality(DOMAIN dependsOn) <=> Range(s) = DOMAIN dependsOn
  BY <1>1, PlacedAreCounted
<1>3. ASSUME DependenciesAccepted(dependsOn)
      PROVE  /\ \A k \in DOMAIN dependsOn : dependsOn[k] \subseteq DOMAIN dependsOn
             /\ NoCycle(dependsOn)
             /\ \A S \in SUBSET DOMAIN dependsOn : S # {} => \E k \in S : \A l \in S : k \notin dependsOn[l]
  <2>1. Range(s) = DOMAIN dependsOn /\ \A k \in DOMAIN dependsOn : dependsOn[k] \subseteq DOMAIN dependsOn
    BY <1>2, <1>3 DEF DependenciesAccepted
  <2> HIDE DEF s
  <2>2. \A S \in SUBSET DOMAIN dependsOn : S # {} =>
          /\ \E k \in S : dependsOn[k] \cap S = {}
          /\ \E k \in S : \A l \in S : k \notin dependsOn[l]
    BY <1>1, <2>1, WholeOrderHasEnds
  <2> QED
    BY <2>1, <2>2 DEF NoCycle
<1>4. ASSUME \A k \in DOMAIN dependsOn : dependsOn[k] \subseteq DOMAIN dependsOn, NoCycle(dependsOn)
      PROVE  DependenciesAccepted(dependsOn)
  <2>1. \A k \in DOMAIN dependsOn : k \notin dependsOn[k]
    <3> SUFFICES ASSUME NEW k \in DOMAIN dependsOn PROVE k \notin dependsOn[k]
      OBVIOUS
    <3>1. {k} \in SUBSET DOMAIN dependsOn /\ {k} # {}
      OBVIOUS
    <3>2. \E l \in {k} : dependsOn[l] \cap {k} = {}
      BY <1>4, <3>1 DEF NoCycle
    <3> QED
      BY <3>2
  <2> QED
    BY <1>1, <1>2, <1>4, <2>1 DEF DependenciesAccepted
<1> QED
  BY <1>3, <1>4

\* A request as it was parsed: finitely many slices, and finitely many children of those that are decomposed.
SliceInput(r) ==
  /\ IsFiniteSet(DOMAIN r.plan.slices) /\ DOMAIN r.plan.slices \subseteq Int
  /\ \A s \in DOMAIN r.decompositions :
       IsFiniteSet(DOMAIN r.decompositions[s]) /\ DOMAIN r.decompositions[s] \subseteq Int

Sources(r) == DOMAIN r.plan.slices
KeysOf(r, s) == DOMAIN Children(r, s)
Waits(r) == [k \in DOMAIN expand(r) |-> expand(r)[k].dependsOn]

\* A source that is decomposed, and one that is not.
LEMMA SplitSource ==
  ASSUME NEW r, SliceInput(r), RequestAccepted(r), NEW s \in Split(r)
  PROVE  /\ s \in Sources(r) /\ Children(r, s) = r.decompositions[s] /\ LeavesOf(r, s) = Leaves(Children(r, s))
         /\ IsFiniteSet(KeysOf(r, s)) /\ KeysOf(r, s) \subseteq Int /\ KeysOf(r, s) # {} /\ KeysOf(r, s) \cap Sources(r) = {}
         /\ DecompositionAccepted(r.plan.slices[s], Children(r, s), r.plan.ownership)
<1>1. s \in DOMAIN r.decompositions /\ s \in Sources(r)
  BY DEF Split, RequestAccepted, Sources
<1>2. Children(r, s) = r.decompositions[s] /\ LeavesOf(r, s) = Leaves(Children(r, s))
  BY DEF Children, LeavesOf
<1>3. IsFiniteSet(KeysOf(r, s)) /\ KeysOf(r, s) \subseteq Int /\ KeysOf(r, s) \cap Sources(r) = {}
  BY <1>1, <1>2 DEF SliceInput, RequestAccepted, KeysOf, Sources
<1>4. DecompositionAccepted(r.plan.slices[s], Children(r, s), r.plan.ownership)
  BY <1>1, <1>2 DEF RequestAccepted
<1>5. KeysOf(r, s) # {}
  <2>1. Cardinality(KeysOf(r, s)) >= 2
    BY <1>4 DEF DecompositionAccepted, KeysOf
  <2> QED
    BY <2>1, FS_EmptySet
<1> QED
  BY <1>1, <1>2, <1>3, <1>4, <1>5

LEMMA WholeSource ==
  ASSUME NEW r, SliceInput(r), RequestAccepted(r), NEW s \in Sources(r), s \notin Split(r)
  PROVE  /\ Children(r, s) = [k \in {s} |-> r.plan.slices[s]] /\ KeysOf(r, s) = {s} /\ LeavesOf(r, s) = {s}
         /\ boundedReasons(r.plan.slices[s]) = {}
<1>1. Children(r, s) = [k \in {s} |-> r.plan.slices[s]] /\ LeavesOf(r, s) = {s}
  BY DEF Children, LeavesOf
<1>2. boundedReasons(r.plan.slices[s]) = {}
  BY DEF RequestAccepted, Sources, Split
<1> QED
  BY <1>1, <1>2 DEF KeysOf

\* Each source has children, and none is of two sources.
LEMMA ChildrenArePartition ==
  ASSUME NEW r, SliceInput(r), RequestAccepted(r)
  PROVE  /\ \A s \in Sources(r) : IsFiniteSet(KeysOf(r, s)) /\ KeysOf(r, s) \subseteq Int /\ KeysOf(r, s) # {}
         /\ \A s, t \in Sources(r) : s # t => KeysOf(r, s) \cap KeysOf(r, t) = {}
         /\ \A s \in Sources(r) : \A k \in KeysOf(r, s) : SourceOf(r, k) = s
<1>1. ASSUME NEW s \in Sources(r) PROVE IsFiniteSet(KeysOf(r, s)) /\ KeysOf(r, s) \subseteq Int /\ KeysOf(r, s) # {}
  <2>1. CASE s \in Split(r)
    BY <2>1, SplitSource
  <2>2. CASE s \notin Split(r)
    <3>1. KeysOf(r, s) = {s} /\ s \in Int
      BY <2>2, WholeSource DEF SliceInput, Sources
    <3> QED
      BY <3>1, FS_Singleton
  <2> QED
    BY <2>1, <2>2
<1>4. \A s \in Sources(r) : IF s \in Split(r) THEN KeysOf(r, s) \cap Sources(r) = {} ELSE KeysOf(r, s) = {s}
  BY SplitSource, WholeSource
<1>2. ASSUME NEW s \in Sources(r), NEW t \in Sources(r), s # t PROVE KeysOf(r, s) \cap KeysOf(r, t) = {}
  <2>1. CASE s \in Split(r) /\ t \in Split(r)
    <3>1. KeysOf(r, s) = DOMAIN r.decompositions[s] /\ KeysOf(r, t) = DOMAIN r.decompositions[t]
      BY <2>1, SplitSource DEF KeysOf
    <3> QED
      BY <1>2, <2>1, <3>1 DEF RequestAccepted, Split
  <2>2. CASE s \in Split(r) /\ t \notin Split(r)
    BY <1>4, <2>2
  <2>3. CASE s \notin Split(r) /\ t \in Split(r)
    BY <1>4, <2>3
  <2>4. CASE s \notin Split(r) /\ t \notin Split(r)
    BY <1>2, <1>4, <2>4
  <2> QED
    BY <2>1, <2>2, <2>3, <2>4
<1>3. ASSUME NEW s \in Sources(r), NEW k \in KeysOf(r, s) PROVE SourceOf(r, k) = s
  <2>1. SourceOf(r, k) = CHOOSE t \in Sources(r) : k \in KeysOf(r, t)
    BY Zenon DEF SourceOf, Sources, KeysOf
  <2>2. SourceOf(r, k) \in Sources(r) /\ k \in KeysOf(r, SourceOf(r, k))
    BY <1>3, <2>1
  <2> QED
    BY <1>2, <1>3, <2>2
<1> QED
  BY <1>1, <1>2, <1>3

\* The drafts, source by source.
LEMMA DraftsAre ==
  ASSUME NEW r, SliceInput(r), RequestAccepted(r)
  PROVE  /\ \A k : k \in DOMAIN expand(r) <=> \E s \in Sources(r) : k \in KeysOf(r, s)
         /\ \A s \in Sources(r) : \A k \in KeysOf(r, s) :
              k \in DOMAIN expand(r) /\ expand(r)[k] = Draft(r, s, k)
         /\ IsFiniteSet(DOMAIN expand(r)) /\ DOMAIN expand(r) \subseteq Int
<1> DEFINE K == UNION {KeysOf(r, s) : s \in Sources(r)}
<1>1. expand(r) = [k \in K |-> Draft(r, SourceOf(r, k), k)]
  BY Zenon DEF expand, Sources, KeysOf
<1>2. DOMAIN expand(r) = K /\ \A k \in K : expand(r)[k] = Draft(r, SourceOf(r, k), k)
  BY <1>1
<1>3. \A k : k \in K <=> \E s \in Sources(r) : k \in KeysOf(r, s)
  OBVIOUS
<1>4. IsFiniteSet(K) /\ K \subseteq Int
  <2> DEFINE F == {KeysOf(r, s) : s \in Sources(r)}
  <2>1. IsFiniteSet(Sources(r))
    BY DEF SliceInput, Sources
  <2>2. IsFiniteSet(F)
    <3> DEFINE f == [s \in Sources(r) |-> KeysOf(r, s)]
    <3>1. f \in Surjection(Sources(r), F)
      BY DEF Surjection
    <3> HIDE DEF f, F
    <3> QED
      BY <2>1, <3>1, FS_Surjection
  <2>3. \A T \in F : IsFiniteSet(T)
    BY ChildrenArePartition
  <2> HIDE DEF F
  <2>4. IsFiniteSet(UNION F)
    BY <2>2, <2>3, FS_UNION
  <2>5. K \subseteq Int
    BY <1>3, ChildrenArePartition
  <2> QED
    BY <2>4, <2>5 DEF F
<1> HIDE DEF K
<1>5. ASSUME NEW s \in Sources(r), NEW k \in KeysOf(r, s) PROVE k \in DOMAIN expand(r) /\ expand(r)[k] = Draft(r, s, k)
  BY <1>2, <1>3, <1>5, ChildrenArePartition
<1> QED
  BY <1>2, <1>3, <1>4, <1>5

\* What a candidate waits for: its siblings, or else the last of what comes before its source.
LEMMA WaitsAre ==
  ASSUME NEW r, SliceInput(r), RequestAccepted(r)
  PROVE  /\ Keyed(Waits(r)) /\ DOMAIN Waits(r) = DOMAIN expand(r)
         /\ \A s \in Sources(r) : \A k \in KeysOf(r, s) :
              /\ s \notin Split(r) => Waits(r)[k] = Inherited(r, s)
              /\ s \in Split(r) =>
                   Waits(r)[k] = IF Children(r, s)[k].dependsOn # {} THEN Children(r, s)[k].dependsOn ELSE Inherited(r, s)
<1>1. DOMAIN Waits(r) = DOMAIN expand(r) /\ \A k \in DOMAIN expand(r) : Waits(r)[k] = expand(r)[k].dependsOn
  BY DEF Waits
<1>2. Keyed(Waits(r))
  <2>1. Waits(r) = [k \in DOMAIN Waits(r) |-> Waits(r)[k]]
    BY DEF Waits
  <2> QED
    BY <1>1, <2>1, DraftsAre DEF Keyed
<1>3. ASSUME NEW s \in Sources(r), NEW k \in KeysOf(r, s) PROVE Waits(r)[k] = Draft(r, s, k).dependsOn
  BY <1>1, <1>3, DraftsAre
<1>4. ASSUME NEW s \in Sources(r), NEW k \in KeysOf(r, s), s \notin Split(r) PROVE Draft(r, s, k).dependsOn = Inherited(r, s)
  BY <1>4 DEF Draft
<1>5. ASSUME NEW s \in Sources(r), NEW k \in KeysOf(r, s), s \in Split(r)
      PROVE  Draft(r, s, k).dependsOn =
               IF Children(r, s)[k].dependsOn # {} THEN Children(r, s)[k].dependsOn ELSE Inherited(r, s)
  BY <1>5 DEF Draft
<1> QED
  BY <1>1, <1>2, <1>3, <1>4, <1>5

\* The dependencies of the plan, and those of the children of a source that is decomposed.
LEMMA AcceptedAreKeyed ==
  ASSUME NEW r, SliceInput(r), RequestAccepted(r)
  PROVE  /\ Keyed(DependsOn(r.plan.slices)) /\ DependenciesAccepted(DependsOn(r.plan.slices))
         /\ DOMAIN DependsOn(r.plan.slices) = Sources(r)
         /\ \A s \in Sources(r) : DependsOn(r.plan.slices)[s] = r.plan.slices[s].dependsOn
         /\ \A s \in Split(r) :
              /\ Keyed(DependsOn(Children(r, s))) /\ DependenciesAccepted(DependsOn(Children(r, s)))
              /\ DOMAIN DependsOn(Children(r, s)) = KeysOf(r, s)
              /\ \A k \in KeysOf(r, s) : DependsOn(Children(r, s))[k] = Children(r, s)[k].dependsOn
<1>1. \A slices : /\ DOMAIN DependsOn(slices) = DOMAIN slices
                  /\ \A k \in DOMAIN slices : DependsOn(slices)[k] = slices[k].dependsOn
                  /\ DependsOn(slices) = [k \in DOMAIN DependsOn(slices) |-> DependsOn(slices)[k]]
  BY DEF DependsOn
<1>2. Keyed(DependsOn(r.plan.slices))
  BY <1>1 DEF Keyed, SliceInput
<1>3. DependenciesAccepted(DependsOn(r.plan.slices))
  BY DEF RequestAccepted, DeliveryPlanAccepted
<1>4. ASSUME NEW s \in Split(r)
      PROVE  /\ Keyed(DependsOn(Children(r, s))) /\ DependenciesAccepted(DependsOn(Children(r, s)))
             /\ DOMAIN DependsOn(Children(r, s)) = KeysOf(r, s)
             /\ \A k \in KeysOf(r, s) : DependsOn(Children(r, s))[k] = Children(r, s)[k].dependsOn
  <2>1. /\ IsFiniteSet(KeysOf(r, s)) /\ KeysOf(r, s) \subseteq Int
        /\ DecompositionAccepted(r.plan.slices[s], Children(r, s), r.plan.ownership)
    BY SplitSource
  <2>2. DependenciesAccepted(DependsOn(Children(r, s)))
    BY <2>1 DEF DecompositionAccepted
  <2>3. DOMAIN DependsOn(Children(r, s)) = KeysOf(r, s)
    BY <1>1 DEF KeysOf
  <2>4. Keyed(DependsOn(Children(r, s)))
    BY <1>1, <2>1, <2>3 DEF Keyed
  <2> QED
    BY <1>1, <2>2, <2>3, <2>4 DEF KeysOf
<1> QED
  BY <1>1, <1>2, <1>3, <1>4 DEF Sources

\* Siblings are siblings, and what is inherited is of the sources before.
LEMMA WaitsStayInside ==
  ASSUME NEW r, SliceInput(r), RequestAccepted(r)
  PROVE  /\ \A s \in Split(r) : \A k \in KeysOf(r, s) : Children(r, s)[k].dependsOn \subseteq KeysOf(r, s)
         /\ \A s \in Sources(r) : LeavesOf(r, s) \subseteq KeysOf(r, s) /\ r.plan.slices[s].dependsOn \subseteq Sources(r)
         /\ \A s \in Sources(r) : \A l \in Inherited(r, s) :
              \E d \in r.plan.slices[s].dependsOn : d \in Sources(r) /\ l \in KeysOf(r, d)
         /\ \A k \in DOMAIN Waits(r) : Waits(r)[k] \subseteq DOMAIN Waits(r)
<1>1. ASSUME NEW s \in Split(r), NEW k \in KeysOf(r, s) PROVE Children(r, s)[k].dependsOn \subseteq KeysOf(r, s)
  BY AcceptedAreKeyed DEF DependenciesAccepted
<1>2. ASSUME NEW s \in Sources(r) PROVE r.plan.slices[s].dependsOn \subseteq Sources(r)
  BY AcceptedAreKeyed DEF DependenciesAccepted
<1>3. ASSUME NEW s \in Sources(r) PROVE LeavesOf(r, s) \subseteq KeysOf(r, s)
  <2>1. CASE s \in Split(r)
    <3>1. LeavesOf(r, s) = Leaves(Children(r, s))
      BY <2>1, SplitSource
    <3> QED
      BY <3>1 DEF Leaves, KeysOf
  <2>2. CASE s \notin Split(r)
    BY <2>2, WholeSource
  <2> QED
    BY <2>1, <2>2
<1>4. ASSUME NEW s \in Sources(r), NEW l \in Inherited(r, s)
      PROVE  \E d \in r.plan.slices[s].dependsOn : d \in Sources(r) /\ l \in KeysOf(r, d)
  <2>1. PICK d \in r.plan.slices[s].dependsOn : l \in LeavesOf(r, d)
    BY <1>4 DEF Inherited
  <2> QED
    BY <1>2, <1>3, <2>1
<1>5. ASSUME NEW k \in DOMAIN Waits(r), NEW l \in Waits(r)[k] PROVE l \in DOMAIN Waits(r)
  <2>1. PICK s \in Sources(r) : k \in KeysOf(r, s)
    BY DraftsAre, WaitsAre
  <2>2. \A t \in Sources(r) : KeysOf(r, t) \subseteq DOMAIN Waits(r)
    BY DraftsAre, WaitsAre
  <2>3. /\ s \notin Split(r) => Waits(r)[k] = Inherited(r, s)
        /\ s \in Split(r) =>
             Waits(r)[k] = IF Children(r, s)[k].dependsOn # {} THEN Children(r, s)[k].dependsOn ELSE Inherited(r, s)
    BY <2>1, WaitsAre
  <2>4. CASE l \in Inherited(r, s)
    BY <1>4, <2>2, <2>4
  <2>5. CASE s \in Split(r) /\ l \in Children(r, s)[k].dependsOn
    BY <1>1, <2>1, <2>2, <2>5
  <2> QED
    BY <1>5, <2>3, <2>4, <2>5
<1> QED
  BY <1>1, <1>2, <1>3, <1>4, <1>5

\* The candidates never wait in a circle.
LEMMA CandidatesHaveNoCycle ==
  ASSUME NEW r, SliceInput(r), RequestAccepted(r)
  PROVE  NoCycle(Waits(r)) /\ DependenciesAccepted(Waits(r))
<1> DEFINE plan == DependsOn(r.plan.slices)
<1>1. ASSUME NEW S \in SUBSET DOMAIN Waits(r), S # {} PROVE \E k \in S : Waits(r)[k] \cap S = {}
  <2> DEFINE Q == {s \in Sources(r) : KeysOf(r, s) \cap S # {}}
  <2>1. \A k \in S : \E s \in Q : k \in KeysOf(r, s)
    BY DraftsAre, WaitsAre
  <2>2. Q \in SUBSET DOMAIN plan /\ Q # {}
    BY <1>1, <2>1, AcceptedAreKeyed
  <2>3. PICK s \in Q : plan[s] \cap Q = {}
    <3> HIDE DEF Q, plan
    <3> QED
      BY <2>2, AcceptedAreKeyed, DependenciesAre DEF NoCycle, plan
  <2>4. s \in Sources(r) /\ KeysOf(r, s) \cap S # {} /\ \A d \in r.plan.slices[s].dependsOn : d \in Sources(r) => KeysOf(r, d) \cap S = {}
    BY <2>3, AcceptedAreKeyed
  <2> HIDE DEF Q, plan
  <2>5. Inherited(r, s) \cap S = {}
    BY <2>4, WaitsStayInside
  <2>6. CASE s \notin Split(r)
    BY <2>4, <2>5, <2>6, WaitsAre
  <2>7. CASE s \in Split(r)
    <3> DEFINE B == KeysOf(r, s) \cap S
               own == DependsOn(Children(r, s))
    <3>1. Keyed(own) /\ DependenciesAccepted(own) /\ DOMAIN own = KeysOf(r, s) /\ \A k \in KeysOf(r, s) : own[k] = Children(r, s)[k].dependsOn
      BY <2>7, AcceptedAreKeyed
    <3>2. B \in SUBSET DOMAIN own /\ B # {}
      BY <2>4, <3>1
    <3> HIDE DEF own
    <3>3. PICK k \in B : own[k] \cap B = {}
      <4> HIDE DEF B
      <4> QED
        BY <3>1, <3>2, DependenciesAre DEF NoCycle
    <3>4. k \in KeysOf(r, s) /\ own[k] \subseteq KeysOf(r, s)
      BY <2>7, <3>1, <3>3, WaitsStayInside
    <3>5. own[k] \cap S = {}
      BY <3>3, <3>4
    <3>6. Waits(r)[k] = IF own[k] # {} THEN own[k] ELSE Inherited(r, s)
      BY <2>4, <2>7, <3>1, <3>4, WaitsAre
    <3> QED
      BY <2>5, <3>3, <3>5, <3>6
  <2> QED
    BY <2>6, <2>7
<1>2. NoCycle(Waits(r))
  BY <1>1 DEF NoCycle
<1> QED
  BY <1>2, WaitsAre, WaitsStayInside, DependenciesAre

\* What waits comes behind what it waits for, in the order of all of them.
LEMMA CandidatesAreOrdered ==
  ASSUME NEW dependsOn, Keyed(dependsOn), DependenciesAccepted(dependsOn)
  PROVE  /\ ToSet(topological(dependsOn)) = DOMAIN dependsOn
         /\ \A k \in DOMAIN dependsOn : \A l \in dependsOn[k] :
              Position(topological(dependsOn), l) < Position(topological(dependsOn), k)
<1> DEFINE s == topological(dependsOn)
<1>1. InRounds(dependsOn, s) /\ Range(s) = DOMAIN dependsOn
  BY TopologicalIsOrder, DependenciesAre
<1> HIDE DEF s
<1>2. ToSet(s) = Range(s)
  BY DEF ToSet, Range
<1>3. Len(s) \in Nat /\ DOMAIN s = 1 .. Len(s)
  BY <1>1, LenProperties DEF InRounds
<1>4. ASSUME NEW n \in 1 .. Len(s) PROVE Position(s, s[n]) = n
  <2>1. Position(s, s[n]) \in DOMAIN s /\ s[Position(s, s[n])] = s[n]
    BY <1>3 DEF Position
  <2> QED
    BY <1>1, <1>3, <2>1 DEF InRounds
<1>5. ASSUME NEW k \in DOMAIN dependsOn, NEW l \in dependsOn[k] PROVE Position(s, l) < Position(s, k)
  <2>1. PICK n \in 1 .. Len(s) : s[n] = k
    BY <1>1, <1>3 DEF Range
  <2>2. PICK m \in 1 .. n - 1 : s[m] = l
    BY <1>1, <1>5, <2>1 DEF InRounds
  <2>3. m \in 1 .. Len(s) /\ m < n
    BY <1>3, <2>1
  <2> QED
    BY <1>4, <2>1, <2>2, <2>3
<1> QED
  BY <1>1, <1>2, <1>5 DEF s

\* What is reached in one step more, and in so many.
OneStep(dependsOn, reached) == reached \cup UNION {dependsOn[l] : l \in reached}
Steps(dependsOn, k, n, reach) ==
  reach = [j \in 0 .. n |-> IF j = 0 THEN dependsOn[k] ELSE OneStep(dependsOn, reach[j - 1])]
ClosedUnder(dependsOn, A) == \A l \in A : dependsOn[l] \subseteq A

\* There are as many steps as are asked for.
LEMMA StepsExist == ASSUME NEW dependsOn, NEW k, NEW n \in Nat PROVE \E reach : Steps(dependsOn, k, n, reach)
<1> DEFINE T == {i \in Nat : ~\E reach : Steps(dependsOn, k, i, reach)}
<1> SUFFICES ASSUME T # {} PROVE FALSE
  OBVIOUS
<1>1. PICK i \in T : \A j \in T : i <= j
  BY SmallestOf
<1>2. CASE i = 0
  <2>1. Steps(dependsOn, k, 0, [j \in 0 .. 0 |-> dependsOn[k]])
    BY DEF Steps
  <2> QED
    BY <1>1, <1>2, <2>1
<1>3. CASE i # 0
  <2>1. i - 1 \in Nat /\ i - 1 \notin T
    BY <1>1, <1>3
  <2>2. PICK reach : Steps(dependsOn, k, i - 1, reach)
    BY <2>1
  <2> DEFINE longer == [j \in 0 .. i |-> IF j = i THEN OneStep(dependsOn, reach[i - 1]) ELSE reach[j]]
  <2>3. longer = [j \in 0 .. i |-> IF j = 0 THEN dependsOn[k] ELSE OneStep(dependsOn, longer[j - 1])]
    <3> SUFFICES ASSUME NEW j \in 0 .. i
                 PROVE  longer[j] = IF j = 0 THEN dependsOn[k] ELSE OneStep(dependsOn, longer[j - 1])
      BY Zenon
    <3>1. j \in 0 .. i - 1 => reach[j] = IF j = 0 THEN dependsOn[k] ELSE OneStep(dependsOn, reach[j - 1])
      BY <2>2 DEF Steps
    <3>2. j \in 0 .. i - 1 \/ j = i
      BY <2>1
    <3>3. CASE j = i
      <4>1. i - 1 \in 0 .. i /\ i - 1 # i /\ j # 0 /\ j - 1 = i - 1
        BY <1>3, <2>1, <3>3
      <4> QED
        BY <3>3, <4>1
    <3>4. CASE j \in 0 .. i - 1
      <4>1. j # i /\ (j # 0 => j - 1 \in 0 .. i /\ j - 1 # i)
        BY <2>1, <3>4
      <4> QED
        BY <3>1, <3>4, <4>1
    <3> QED
      BY <3>2, <3>3, <3>4
  <2> QED
    BY <1>1, <2>3 DEF Steps
<1> QED
  BY <1>2, <1>3

\* Awaits, as its last step.
LEMMA AwaitsIs ==
  ASSUME NEW dependsOn, NEW k, Cardinality(DOMAIN dependsOn) \in Nat
  PROVE  \E reach : /\ Awaits(dependsOn, k) = reach[Cardinality(DOMAIN dependsOn)]
                    /\ reach[0] = dependsOn[k]
                    /\ \A n \in 1 .. Cardinality(DOMAIN dependsOn) : reach[n] = OneStep(dependsOn, reach[n - 1])
<1> DEFINE N == Cardinality(DOMAIN dependsOn)
           reach == CHOOSE f : f = [n \in 0 .. N |-> IF n = 0 THEN dependsOn[k]
                                                    ELSE f[n - 1] \cup UNION {dependsOn[l] : l \in f[n - 1]}]
<1>1. Awaits(dependsOn, k) = reach[N]
  BY Zenon DEF Awaits
<1>2. \E f : f = [n \in 0 .. N |-> IF n = 0 THEN dependsOn[k] ELSE f[n - 1] \cup UNION {dependsOn[l] : l \in f[n - 1]}]
  <2>1. \E f : Steps(dependsOn, k, N, f)
    BY StepsExist
  <2> HIDE DEF N
  <2> QED
    BY Zenon, <2>1 DEF Steps, OneStep
<1>3. reach = [n \in 0 .. N |-> IF n = 0 THEN dependsOn[k] ELSE reach[n - 1] \cup UNION {dependsOn[l] : l \in reach[n - 1]}]
  <2> HIDE DEF N
  <2> QED
    BY Zenon, <1>2
<1>4. N \in Nat
  OBVIOUS
<1> HIDE DEF reach, N
<1>5. \A n \in 0 .. N : reach[n] = IF n = 0 THEN dependsOn[k] ELSE OneStep(dependsOn, reach[n - 1])
  BY Zenon, <1>3 DEF OneStep
<1>6. 0 \in 0 .. N /\ \A n \in 1 .. N : n \in 0 .. N /\ n # 0
  BY <1>4
<1>7. reach[0] = dependsOn[k] /\ \A n \in 1 .. N : reach[n] = OneStep(dependsOn, reach[n - 1])
  BY <1>5, <1>6
<1> QED
  BY <1>1, <1>7 DEF N

\* Awaits has what k waits for, with everything that that waits for, and nothing more.
LEMMA AwaitsIsClosure ==
  ASSUME NEW dependsOn, Keyed(dependsOn), NEW k \in DOMAIN dependsOn,
         \A l \in DOMAIN dependsOn : dependsOn[l] \subseteq DOMAIN dependsOn
  PROVE  /\ dependsOn[k] \subseteq Awaits(dependsOn, k) /\ ClosedUnder(dependsOn, Awaits(dependsOn, k))
         /\ \A A : dependsOn[k] \subseteq A /\ ClosedUnder(dependsOn, A) => Awaits(dependsOn, k) \subseteq A
<1> DEFINE N == Cardinality(DOMAIN dependsOn)
<1>1. N \in Nat /\ IsFiniteSet(DOMAIN dependsOn)
  BY FS_CardinalityType DEF Keyed
<1>2. PICK reach : /\ Awaits(dependsOn, k) = reach[N] /\ reach[0] = dependsOn[k]
                   /\ \A n \in 1 .. N : reach[n] = OneStep(dependsOn, reach[n - 1])
  BY <1>1, AwaitsIs
<1> HIDE DEF N
\* After n steps at least n keys are reached, or all that are.
<1> DEFINE Holds(n) == /\ reach[n] \in SUBSET DOMAIN dependsOn /\ dependsOn[k] \subseteq reach[n]
                       /\ n <= Cardinality(reach[n]) \/ ClosedUnder(dependsOn, reach[n])
                       /\ \A A : dependsOn[k] \subseteq A /\ ClosedUnder(dependsOn, A) => reach[n] \subseteq A
           T == {n \in 0 .. N : ~Holds(n)}
<1>3. Holds(0)
  <2>1. IsFiniteSet(dependsOn[k]) /\ Cardinality(dependsOn[k]) \in Nat
    BY <1>1, FS_Subset, FS_CardinalityType
  <2> QED
    BY <1>2, <2>1
<1>4. ASSUME NEW n \in 1 .. N, Holds(n - 1) PROVE Holds(n)
  <2> DEFINE before == reach[n - 1]
             after == reach[n]
  <2>1. after = OneStep(dependsOn, before)
    BY <1>2
  <2>2. before \in SUBSET DOMAIN dependsOn /\ dependsOn[k] \subseteq before
    BY <1>4
  <2>3. n - 1 <= Cardinality(before) \/ ClosedUnder(dependsOn, before)
    BY <1>4
  <2>4. \A A : dependsOn[k] \subseteq A /\ ClosedUnder(dependsOn, A) => before \subseteq A
    BY <1>4
  <2> HIDE DEF before, after
  <2>5. after \in SUBSET DOMAIN dependsOn /\ before \subseteq after
    BY <2>1, <2>2 DEF OneStep
  <2>6. \A A : dependsOn[k] \subseteq A /\ ClosedUnder(dependsOn, A) => after \subseteq A
    BY <2>1, <2>4 DEF OneStep, ClosedUnder
  <2>7. ASSUME ClosedUnder(dependsOn, before) PROVE after = before
    BY <2>1, <2>7 DEF OneStep, ClosedUnder
  <2>8. ASSUME ~ClosedUnder(dependsOn, before) PROVE after # before
    BY <2>1, <2>8 DEF OneStep, ClosedUnder
  <2>9. n <= Cardinality(after) \/ ClosedUnder(dependsOn, after)
    <3>1. CASE ClosedUnder(dependsOn, before)
      BY <2>7, <3>1
    <3>2. CASE ~ClosedUnder(dependsOn, before)
      <4>1. IsFiniteSet(after)
        BY <1>1, <2>5, FS_Subset
      <4>2. /\ IsFiniteSet(before) /\ Cardinality(before) <= Cardinality(after)
            /\ Cardinality(after) = Cardinality(before) => after = before
        BY <2>5, <4>1, FS_Subset
      <4>3. Cardinality(before) \in Nat /\ Cardinality(after) \in Nat
        BY <4>1, <4>2, FS_CardinalityType
      <4>4. n - 1 <= Cardinality(before) /\ Cardinality(after) # Cardinality(before)
        BY <2>3, <2>8, <3>2, <4>2
      <4> QED
        BY <1>1, <4>2, <4>3, <4>4
    <3> QED
      BY <3>1, <3>2
  <2>10. dependsOn[k] \subseteq after
    BY <2>2, <2>5
  <2> QED
    BY <2>5, <2>6, <2>9, <2>10 DEF after
<1>5. T = {}
  <2> SUFFICES ASSUME T # {} PROVE FALSE
    OBVIOUS
  <2>1. T \in SUBSET Nat
    BY <1>1
  <2>2. PICK n \in T : \A m \in T : n <= m
    <3> HIDE DEF T
    <3> QED
      BY <2>1, SmallestOf
  <2> HIDE DEF Holds
  <2>3. n \in 1 .. N
    BY <1>1, <1>3, <2>2
  <2>4. n - 1 \in 0 .. N /\ ~(n <= n - 1)
    BY <1>1, <2>3
  <2>5. Holds(n - 1)
    BY <2>2, <2>4
  <2> QED
    BY <1>4, <2>2, <2>3, <2>5
<1>6. Holds(N)
  <2>1. N \in 0 .. N
    BY <1>1
  <2> HIDE DEF Holds
  <2> QED
    BY <1>5, <2>1
<1>7. ClosedUnder(dependsOn, reach[N])
  <2>1. CASE N <= Cardinality(reach[N])
    <3>1. /\ IsFiniteSet(reach[N]) /\ Cardinality(reach[N]) <= N
          /\ N = Cardinality(reach[N]) => DOMAIN dependsOn = reach[N]
      BY <1>1, <1>6, FS_Subset DEF N
    <3>2. Cardinality(reach[N]) \in Nat
      BY <3>1, FS_CardinalityType
    <3>3. DOMAIN dependsOn = reach[N]
      BY <1>1, <2>1, <3>1, <3>2
    <3> QED
      BY <3>3 DEF ClosedUnder
  <2> QED
    BY <1>6, <2>1
<1> QED
  BY <1>2, <1>6, <1>7

\* Where everything that is waited for is there, with what one child waits for come all
\* the candidates of the sources before its own.
LEMMA SourcesBeforeAreWhole ==
  ASSUME NEW r, SliceInput(r), RequestAccepted(r), NEW A, ClosedUnder(Waits(r), A),
         NEW s \in Sources(r), NEW k \in KeysOf(r, s), Waits(r)[k] \subseteq A,
         NEW d \in r.plan.slices[s].dependsOn
  PROVE  d \in Sources(r) /\ KeysOf(r, d) \subseteq A
<1>1. d \in Sources(r)
  BY WaitsStayInside
<1>2. Inherited(r, s) \subseteq A
  <2>1. CASE s \notin Split(r)
    BY <2>1, WaitsAre
  <2>2. CASE s \in Split(r)
    <3> DEFINE own == DependsOn(Children(r, s))
               S == {j \in KeysOf(r, s) : Waits(r)[j] \subseteq A}
    <3>1. Keyed(own) /\ DependenciesAccepted(own) /\ DOMAIN own = KeysOf(r, s) /\ \A j \in KeysOf(r, s) : own[j] = Children(r, s)[j].dependsOn
      BY <2>2, AcceptedAreKeyed
    <3>2. \A j \in KeysOf(r, s) : Waits(r)[j] = IF own[j] # {} THEN own[j] ELSE Inherited(r, s)
      BY <2>2, <3>1, WaitsAre
    <3>3. \A j \in KeysOf(r, s) : own[j] \subseteq KeysOf(r, s)
      BY <2>2, <3>1, WaitsStayInside
    <3> HIDE DEF own
    <3>4. S \in SUBSET DOMAIN own /\ S # {}
      BY <3>1
    <3>5. PICK j \in S : own[j] \cap S = {}
      <4> HIDE DEF S
      <4> QED
        BY <3>1, <3>4, DependenciesAre DEF NoCycle
    <3>6. own[j] = {}
      <4> SUFFICES ASSUME NEW i \in own[j] PROVE FALSE
        OBVIOUS
      <4>1. i \in A /\ i \in KeysOf(r, s)
        BY <3>2, <3>3, <3>5
      <4>2. i \in S
        BY <4>1 DEF ClosedUnder
      <4> QED
        BY <3>5, <4>2
    <3> QED
      BY <3>2, <3>5, <3>6
  <2> QED
    BY <2>1, <2>2
<1>3. LeavesOf(r, d) \subseteq A
  BY <1>2 DEF Inherited
<1>4. CASE d \notin Split(r)
  <2>1. LeavesOf(r, d) = {d} /\ KeysOf(r, d) = {d}
    BY <1>1, <1>4, WholeSource
  <2> QED
    BY <1>1, <1>3, <2>1
<1>5. CASE d \in Split(r)
  <2> DEFINE own == DependsOn(Children(r, d))
             S == KeysOf(r, d) \ A
  <2> SUFFICES ASSUME S # {} PROVE FALSE
    BY <1>1
  <2>1. Keyed(own) /\ DependenciesAccepted(own) /\ DOMAIN own = KeysOf(r, d) /\ \A j \in KeysOf(r, d) : own[j] = Children(r, d)[j].dependsOn
    BY <1>5, AcceptedAreKeyed
  <2>2. \A j \in KeysOf(r, d) : own[j] # {} => Waits(r)[j] = own[j]
    BY <1>1, <1>5, <2>1, WaitsAre
  <2>3. LeavesOf(r, d) = KeysOf(r, d) \ UNION {own[j] : j \in KeysOf(r, d)}
    <3>1. LeavesOf(r, d) = KeysOf(r, d) \ UNION {Children(r, d)[j].dependsOn : j \in KeysOf(r, d)}
      BY <1>5, SplitSource DEF Leaves, KeysOf
    <3>2. {Children(r, d)[j].dependsOn : j \in KeysOf(r, d)} = {own[j] : j \in KeysOf(r, d)}
      BY <2>1
    <3> QED
      BY <3>1, <3>2
  <2> HIDE DEF own
  <2>4. PICK k1 \in S : \A l \in S : k1 \notin own[l]
    <3>1. S \in SUBSET DOMAIN own /\ S # {}
      BY <2>1
    <3> HIDE DEF S
    <3> QED
      BY <2>1, <3>1, DependenciesAre
  <2>5. PICK l \in KeysOf(r, d) : k1 \in own[l]
    BY <1>3, <2>3, <2>4
  <2>6. l \in A
    BY <2>4, <2>5
  <2>7. k1 \in A
    BY <2>2, <2>5, <2>6 DEF ClosedUnder
  <2> QED
    BY <2>4, <2>7
<1> QED
  BY <1>1, <1>4, <1>5

\* The precedence of the plan survives the decomposition.
LEMMA PrecedenceSurvives ==
  ASSUME NEW r, SliceInput(r), RequestAccepted(r), NEW s \in Sources(r), NEW k \in KeysOf(r, s)
  PROVE  \A t \in Awaits(DependsOn(r.plan.slices), s) :
           t \in Sources(r) /\ KeysOf(r, t) \subseteq Awaits(Waits(r), k)
<1> DEFINE A == Awaits(Waits(r), k)
           B == {t \in Sources(r) : KeysOf(r, t) \subseteq A}
           plan == DependsOn(r.plan.slices)
<1>1. Waits(r)[k] \subseteq A /\ ClosedUnder(Waits(r), A)
  <2>1. k \in DOMAIN Waits(r) /\ Keyed(Waits(r))
    BY DraftsAre, WaitsAre
  <2> QED
    BY <2>1, WaitsStayInside, AwaitsIsClosure
<1>2. /\ Keyed(plan) /\ DOMAIN plan = Sources(r) /\ \A t \in Sources(r) : plan[t] = r.plan.slices[t].dependsOn
      /\ \A t \in Sources(r) : plan[t] \subseteq Sources(r)
  BY AcceptedAreKeyed, WaitsStayInside
<1> HIDE DEF A, plan
<1>3. plan[s] \subseteq B
  BY <1>1, <1>2, SourcesBeforeAreWhole
<1>4. ClosedUnder(plan, B)
  <2> SUFFICES ASSUME NEW t \in B, NEW d \in plan[t] PROVE d \in B
    BY DEF ClosedUnder
  <2>1. t \in Sources(r) /\ d \in r.plan.slices[t].dependsOn
    BY <1>2
  <2>2. PICK j \in KeysOf(r, t) : TRUE
    BY <2>1, ChildrenArePartition
  <2>3. Waits(r)[j] \subseteq A
    BY <1>1, <2>2 DEF ClosedUnder
  <2> QED
    BY <1>1, <2>1, <2>2, <2>3, SourcesBeforeAreWhole
<1> HIDE DEF B
<1>5. Awaits(plan, s) \subseteq B
  BY <1>2, <1>3, <1>4, AwaitsIsClosure
<1> QED
  BY <1>5 DEF B, A, plan

\* The children have what their source has, and no two the same path.
LEMMA ChildrenHaveParts ==
  ASSUME NEW r, SliceInput(r), RequestAccepted(r), NEW s \in Sources(r)
  PROVE  /\ \A part \in {"paths", "tests", "acceptance"} :
              UNION {Children(r, s)[k][part] : k \in KeysOf(r, s)} = r.plan.slices[s][part]
         /\ \A k, l \in KeysOf(r, s) : k # l => Children(r, s)[k].paths \cap Children(r, s)[l].paths = {}
         /\ \A k \in KeysOf(r, s) : boundedReasons(Children(r, s)[k]) = {}
<1>1. CASE s \in Split(r)
  <2>1. DecompositionAccepted(r.plan.slices[s], Children(r, s), r.plan.ownership)
    BY <1>1, SplitSource
  <2>2. \A part \in {"paths", "tests", "acceptance"} : exactPartition(r.plan.slices[s], Children(r, s), part)
    BY <2>1 DEF DecompositionAccepted
  <2>3. \A k \in KeysOf(r, s) : boundedReasons(Children(r, s)[k]) = {}
    BY <2>1 DEF DecompositionAccepted, KeysOf
  <2> QED
    BY <2>2, <2>3 DEF exactPartition, KeysOf
<1>2. CASE s \notin Split(r)
  <2>1. Children(r, s) = [k \in {s} |-> r.plan.slices[s]] /\ KeysOf(r, s) = {s} /\ boundedReasons(r.plan.slices[s]) = {}
    BY <1>2, WholeSource
  <2>2. \A k \in KeysOf(r, s) : Children(r, s)[k] = r.plan.slices[s]
    BY <2>1
  <2>3. ASSUME NEW part PROVE UNION {Children(r, s)[k][part] : k \in KeysOf(r, s)} = r.plan.slices[s][part]
    <3>1. {Children(r, s)[k][part] : k \in KeysOf(r, s)} = {r.plan.slices[s][part]}
      BY <2>1, <2>2
    <3> QED
      BY <3>1
  <2> QED
    BY <2>1, <2>2, <2>3
<1> QED
  BY <1>1, <1>2

\* Two candidates share a path only if two sources do.
LEMMA PathsAreDisjoint ==
  ASSUME NEW r, SliceInput(r), RequestAccepted(r)
  PROVE  assertDisjointPaths(expand(r)) <=>
           \A s, t \in Sources(r) : s # t => r.plan.slices[s].paths \cap r.plan.slices[t].paths = {}
<1>1. \A s \in Sources(r) : \A k \in KeysOf(r, s) : expand(r)[k].slice.paths = Children(r, s)[k].paths
  <2> SUFFICES ASSUME NEW s \in Sources(r), NEW k \in KeysOf(r, s) PROVE expand(r)[k].slice.paths = Children(r, s)[k].paths
    OBVIOUS
  <2>1. expand(r)[k] = Draft(r, s, k)
    BY DraftsAre
  <2> QED
    BY <2>1 DEF Draft
<1>2. \A s \in Sources(r) : \A path : path \in r.plan.slices[s].paths <=> \E k \in KeysOf(r, s) : path \in Children(r, s)[k].paths
  <2> SUFFICES ASSUME NEW s \in Sources(r)
               PROVE  \A path : path \in r.plan.slices[s].paths <=> \E k \in KeysOf(r, s) : path \in Children(r, s)[k].paths
    OBVIOUS
  <2>1. UNION {Children(r, s)[k].paths : k \in KeysOf(r, s)} = r.plan.slices[s].paths
    <3>1. UNION {Children(r, s)[k]["paths"] : k \in KeysOf(r, s)} = r.plan.slices[s]["paths"]
      BY ChildrenHaveParts
    <3> QED
      BY <3>1
  <2> QED
    BY <2>1
<1>3. ASSUME assertDisjointPaths(expand(r)), NEW s \in Sources(r), NEW t \in Sources(r), s # t
      PROVE  r.plan.slices[s].paths \cap r.plan.slices[t].paths = {}
  <2> SUFFICES ASSUME NEW path, path \in r.plan.slices[s].paths, path \in r.plan.slices[t].paths PROVE FALSE
    OBVIOUS
  <2>1. PICK k \in KeysOf(r, s) : path \in Children(r, s)[k].paths
    BY <1>2
  <2>2. PICK l \in KeysOf(r, t) : path \in Children(r, t)[l].paths
    BY <1>2
  <2>3. k # l
    BY <1>3, ChildrenArePartition
  <2>4. k \in DOMAIN expand(r) /\ l \in DOMAIN expand(r)
    BY DraftsAre
  <2> QED
    BY <1>1, <1>3, <2>1, <2>2, <2>3, <2>4 DEF assertDisjointPaths
<1>4. ASSUME \A s, t \in Sources(r) : s # t => r.plan.slices[s].paths \cap r.plan.slices[t].paths = {},
             NEW k \in DOMAIN expand(r), NEW l \in DOMAIN expand(r), k # l
      PROVE  expand(r)[k].slice.paths \cap expand(r)[l].slice.paths = {}
  <2>1. PICK s \in Sources(r) : k \in KeysOf(r, s)
    BY DraftsAre
  <2>2. PICK t \in Sources(r) : l \in KeysOf(r, t)
    BY DraftsAre
  <2>3. CASE s = t
    BY <1>1, <1>4, <2>1, <2>2, <2>3, ChildrenHaveParts
  <2>4. CASE s # t
    BY <1>1, <1>2, <1>4, <2>1, <2>2, <2>4
  <2> QED
    BY <2>3, <2>4
<1> QED
  BY <1>3, <1>4 DEF assertDisjointPaths

\* What the compiler of delivery plans keeps of every plan, whatever its size.
THEOREM SlicesKeepPlans ==
  ASSUME NEW r, SliceInput(r)
  PROVE  SlicesKeepThePlan(r)
<1> SUFFICES ASSUME RequestAccepted(r) PROVE SlicesKeepThePlan(r)
  BY Zenon DEF SlicesKeepThePlan
<1> DEFINE drafts == expand(r)
           dependsOn == Waits(r)
           order == topological(dependsOn)
           plan == r.plan.slices
<1>1. orderDrafts(drafts) = order
  BY Zenon DEF orderDrafts, Waits
<1>2. Keyed(dependsOn) /\ DependenciesAccepted(dependsOn) /\ DOMAIN dependsOn = DOMAIN drafts
  BY WaitsAre, CandidatesHaveNoCycle
<1>3. Compiles(r) <=> /\ Cardinality(DOMAIN drafts) <= MAX_OUTPUT_SLICES
                      /\ \A s, t \in DOMAIN plan : s # t => plan[s].paths \cap plan[t].paths = {}
  <2>1. Compiles(r) <=> Cardinality(DOMAIN drafts) <= MAX_OUTPUT_SLICES /\ assertDisjointPaths(drafts) /\ DependenciesAccepted(dependsOn)
    BY Zenon DEF Compiles, Waits
  <2> HIDE DEF drafts, dependsOn
  <2> QED
    BY <1>2, <2>1, PathsAreDisjoint DEF Sources, drafts
<1>4. ASSUME NEW k \in DOMAIN drafts PROVE boundedReasons(drafts[k].slice) = {}
  <2>1. PICK s \in Sources(r) : k \in KeysOf(r, s)
    BY DraftsAre
  <2>2. drafts[k].slice = Children(r, s)[k]
    <3>1. drafts[k] = Draft(r, s, k)
      BY <2>1, DraftsAre
    <3> QED
      BY <3>1 DEF Draft
  <2> QED
    BY <2>1, <2>2, ChildrenHaveParts
<1>5. ASSUME NEW part \in {"paths", "tests", "acceptance"}
      PROVE  UNION {drafts[k].slice[part] : k \in DOMAIN drafts} = UNION {plan[s][part] : s \in DOMAIN plan}
  <2>1. \A s \in Sources(r) : \A k \in KeysOf(r, s) : k \in DOMAIN drafts /\ drafts[k].slice = Children(r, s)[k]
    <3> SUFFICES ASSUME NEW s \in Sources(r), NEW k \in KeysOf(r, s) PROVE k \in DOMAIN drafts /\ drafts[k].slice = Children(r, s)[k]
      OBVIOUS
    <3>1. k \in DOMAIN drafts /\ drafts[k] = Draft(r, s, k)
      BY DraftsAre
    <3> QED
      BY <3>1 DEF Draft
  <2>2. \A s \in Sources(r) : UNION {Children(r, s)[k][part] : k \in KeysOf(r, s)} = plan[s][part]
    BY ChildrenHaveParts
  <2>3. \A k \in DOMAIN drafts : \E s \in Sources(r) : k \in KeysOf(r, s)
    BY DraftsAre
  <2> HIDE DEF drafts
  <2>4. ASSUME NEW k \in DOMAIN drafts, NEW x \in drafts[k].slice[part] PROVE \E s \in DOMAIN plan : x \in plan[s][part]
    <3>1. PICK s \in Sources(r) : k \in KeysOf(r, s)
      BY <2>3
    <3>2. x \in Children(r, s)[k][part]
      BY <2>1, <2>4, <3>1
    <3>3. x \in plan[s][part]
      BY <2>2, <3>1, <3>2
    <3> QED
      BY <3>3 DEF Sources
  <2>5. ASSUME NEW s \in DOMAIN plan, NEW x \in plan[s][part] PROVE \E k \in DOMAIN drafts : x \in drafts[k].slice[part]
    <3>1. s \in Sources(r)
      BY DEF Sources
    <3>2. PICK k \in KeysOf(r, s) : x \in Children(r, s)[k][part]
      BY <2>2, <2>5, <3>1
    <3> QED
      BY <2>1, <3>1, <3>2
  <2> QED
    BY <2>4, <2>5
<1>6. ToSet(order) = DOMAIN drafts /\ \A k \in DOMAIN drafts : \A l \in dependsOn[k] : Position(order, l) < Position(order, k)
  BY <1>2, CandidatesAreOrdered
<1>7. ASSUME NEW k \in DOMAIN drafts, NEW l \in DOMAIN drafts,
             drafts[l].source \in Awaits(DependsOn(plan), drafts[k].source)
      PROVE  l \in Awaits(dependsOn, k)
  <2>1. PICK s \in Sources(r) : k \in KeysOf(r, s)
    BY DraftsAre
  <2>2. PICK t \in Sources(r) : l \in KeysOf(r, t)
    BY DraftsAre
  <2>3. drafts[k].source = s /\ drafts[l].source = t
    <3>1. drafts[k] = Draft(r, s, k) /\ drafts[l] = Draft(r, t, l)
      BY <2>1, <2>2, DraftsAre
    <3> QED
      BY <3>1 DEF Draft
  <2> QED
    BY <1>7, <2>1, <2>2, <2>3, PrecedenceSurvives
<1> HIDE DEF order, dependsOn, drafts, plan
<1>8. /\ Compiles(r) <=> /\ Cardinality(DOMAIN drafts) <= MAX_OUTPUT_SLICES
                         /\ \A s, t \in DOMAIN plan : s # t => plan[s].paths \cap plan[t].paths = {}
      /\ \A k \in DOMAIN drafts : boundedReasons(drafts[k].slice) = {}
      /\ \A part \in {"paths", "tests", "acceptance"} :
           UNION {drafts[k].slice[part] : k \in DOMAIN drafts} = UNION {plan[s][part] : s \in DOMAIN plan}
      /\ ToSet(order) = DOMAIN drafts
      /\ \A k, l \in DOMAIN drafts :
           /\ l \in dependsOn[k] => Position(order, l) < Position(order, k)
           /\ drafts[l].source \in Awaits(DependsOn(plan), drafts[k].source) => l \in Awaits(dependsOn, k)
  BY <1>3, <1>4, <1>5, <1>6, <1>7
<1>9. dependsOn = [k \in DOMAIN expand(r) |-> expand(r)[k].dependsOn]
  BY DEF dependsOn, Waits
<1> QED
  BY Zenon, <1>1, <1>8, <1>9 DEF SlicesKeepThePlan, plan, drafts
=============================================================================

--------------------------- MODULE BranchPortfolio ---------------------------
(***************************************************************************)
(* Which branches may be merged (core/branch-portfolio.ts), and how the    *)
(* evidence for it is assembled from truth maps and the git snapshot       *)
(* (services/branch-portfolio-assembler.ts).                               *)
(*                                                                         *)
(* Names are numbers, in their order as text.  A candidate changes a set   *)
(* of assertions; citations of records and relations below an assertion    *)
(* are left out, and so are the shapes of hashes and texts.                *)
(***************************************************************************)
EXTENDS Integers, FiniteSets, TruthMap

None == 0
TextualMerge == {"clean", "conflict", "unknown"}
Completeness == {"complete", "unknown"}
Ordering == {"independent", "left_after_right", "right_after_left", "unknown"}

\* BranchCandidateEvidence and BranchPairEvidence.
CandidateEvidence(Tree, Assertion) ==
  [tree : Tree, patchId : {None, 1}, aheadBy : {0, 1}, behindBy : {0, 1},
   baseTextualMerge : TextualMerge, semanticEvidence : Completeness,
   changes : SUBSET Assertion, baseSemanticConflict : SUBSET Assertion]
PairEvidence(Name, Assertion) ==
  [left : Name, right : Name, textualMerge : TextualMerge, semanticEvidence : Completeness,
   ordering : Ordering, orderingEvidence : BOOLEAN, semanticConflict : SUBSET Assertion]

Ends(pair) == {pair.left, pair.right}
Ordered(pair) == pair.ordering \in {"left_after_right", "right_after_left"}
isDuplicateIdentity(l, r) == l.tree = r.tree \/ (l.patchId # None /\ l.patchId = r.patchId)

\* assertBranchPortfolioEvidence: candidates by name, pairs as a set.
Accepted(candidates, pairs) ==
  /\ DOMAIN candidates # {}
  /\ \A n \in DOMAIN candidates : candidates[n].baseSemanticConflict \subseteq candidates[n].changes
  /\ \A p \in pairs : Ends(p) \subseteq DOMAIN candidates /\ p.left # p.right
  /\ \A m, n \in DOMAIN candidates : m # n => \E p \in pairs : Ends(p) = {m, n}
  /\ \A p, q \in pairs : Ends(p) = Ends(q) => p = q
  /\ \A p \in pairs :
       LET l == candidates[p.left]  r == candidates[p.right] IN
       /\ p.semanticConflict \subseteq l.changes \cap r.changes
       /\ Ordered(p) <=> p.orderingEvidence
       /\ isDuplicateIdentity(l, r) => p.textualMerge # "conflict" /\ p.semanticConflict = {}

\* As if the ends were exchanged and the ordering left as it is.
normalizePair_KeepOrdering(p) ==
  IF p.left < p.right THEN p ELSE [p EXCEPT !.left = p.right, !.right = p.left]

\* The same pair with its ends called the other way.
Exchanged(p) ==
  [p EXCEPT !.left = p.right, !.right = p.left,
            !.ordering = IF @ = "left_after_right" THEN "right_after_left"
                         ELSE IF @ = "right_after_left" THEN "left_after_right" ELSE @]

normalizePair(p) == IF p.left < p.right THEN p ELSE Exchanged(p)

classifyInteraction(p, l, r) ==
  IF p.semanticConflict # {} THEN "semantic_conflict"
  ELSE IF p.textualMerge = "conflict" THEN "textual_conflict"
  ELSE IF isDuplicateIdentity(l, r) THEN "duplicate"
  ELSE IF Ordered(p) THEN "ordered_after"
  ELSE IF p.semanticEvidence = "unknown" THEN "unknown"
  ELSE IF l.changes \cap r.changes # {} THEN "overlap"
  ELSE IF p.textualMerge = "clean" /\ p.ordering = "independent" THEN "disjoint"
  ELSE "unknown"

\* buildInteraction.
Interactions(candidates, pairs) ==
  {[pair |-> normalizePair(p),
    classification |-> classifyInteraction(p, candidates[p.left], candidates[p.right])] : p \in pairs}

Classes(relevant) == {i.classification : i \in relevant}

waitsForCandidate(name, i) ==
  \/ i.pair.left = name /\ i.pair.ordering = "left_after_right"
  \/ i.pair.right = name /\ i.pair.ordering = "right_after_left"

Stale(c) == c.aheadBy = 0 \/ (c.semanticEvidence = "complete" /\ c.changes = {})

recommendationFor(name, c, relevant) ==
  IF \/ c.baseTextualMerge = "conflict" \/ c.baseSemanticConflict # {}
     \/ Classes(relevant) \cap {"textual_conflict", "semantic_conflict"} # {} THEN "conflict"
  ELSE IF Stale(c) THEN "stale"
  ELSE IF "duplicate" \in Classes(relevant) THEN "duplicate"
  ELSE IF c.behindBy > 0 THEN "rebase_required"
  ELSE IF \E i \in relevant : waitsForCandidate(name, i) THEN "merge_after"
  ELSE IF c.baseTextualMerge = "unknown" \/ c.semanticEvidence = "unknown"
          \/ "unknown" \in Classes(relevant) THEN "manual_review"
  ELSE "merge_ready"

candidateReasons(name, c, relevant) ==
  LET when(condition, reason) == IF condition THEN {reason} ELSE {}
      class(k, reason) == when(k \in Classes(relevant), reason)
      reasons ==
        when(c.baseTextualMerge = "conflict", "BASE_TEXTUAL_CONFLICT") \cup
        when(c.baseSemanticConflict # {}, "BASE_SEMANTIC_CONFLICT") \cup
        when(c.aheadBy = 0, "NO_UNIQUE_COMMITS") \cup
        when(c.semanticEvidence = "complete" /\ c.changes = {}, "NO_UNIQUE_ASSERTIONS") \cup
        when(c.behindBy > 0, "BASE_AHEAD_OF_BRANCH") \cup
        when(c.baseTextualMerge = "unknown", "TEXTUAL_EVIDENCE_UNKNOWN") \cup
        when(c.semanticEvidence = "unknown", "SEMANTIC_EVIDENCE_UNKNOWN") \cup
        class("duplicate", "EQUIVALENT_CHANGESET") \cup
        class("textual_conflict", "PAIR_TEXTUAL_CONFLICT") \cup
        class("semantic_conflict", "PAIR_SEMANTIC_CONFLICT") \cup
        class("unknown", "PAIR_EVIDENCE_UNKNOWN") \cup
        when(\E i \in relevant : waitsForCandidate(name, i), "ORDERED_AFTER_CANDIDATE")
  IN IF reasons = {} THEN {"COMPLETE_DISJOINT_EVIDENCE"} ELSE reasons

\* buildPortfolio: the recommendation and the reasons of each candidate.
buildPortfolio(candidates, pairs) ==
  LET interactions == Interactions(candidates, pairs)
      relevant(n) == {i \in interactions : n \in Ends(i.pair)}
  IN [candidates |-> [n \in DOMAIN candidates |->
        [recommendation |-> recommendationFor(n, candidates[n], relevant(n)),
         reasons |-> candidateReasons(n, candidates[n], relevant(n))]],
      interactions |-> interactions]

-----------------------------------------------------------------------------
\* mapAssertionChanges: the assertions of the candidate that share a record
\* with one of the base, by way of the records the diff pairs as changed.
Anchored(assertion, baseAssertion, afterToBefore) ==
  \E r \in assertion.records :
    (IF r \in DOMAIN afterToBefore THEN afterToBefore[r] ELSE r) \in baseAssertion.records

Mapped(b, map, afterToBefore) == {a \in map : Anchored(a, b, afterToBefore)}

mapAssertionChanges(base, map, afterToBefore) ==
  {[assertion |-> b, kind |-> "removed"] : b \in {x \in base : Mapped(x, map, afterToBefore) = {}}} \cup
  {[assertion |-> b, kind |-> "modified"] :
     b \in {x \in base : LET m == Mapped(x, map, afterToBefore)
                         IN m # {} /\ {[records |-> a.records, relations |-> a.relations] : a \in m}
                                      # {[records |-> x.records, relations |-> x.relations]}}} \cup
  {[assertion |-> a, kind |-> "added"] :
     a \in {x \in map : \A b \in base : ~Anchored(x, b, afterToBefore)}}

\* A base assertion that changed and is conflicted in the candidate.
changedConflicts(changes, map, afterToBefore) ==
  {c.assertion : c \in {d \in changes : d.kind # "added" /\
     \E a \in Mapped(d.assertion, map, afterToBefore) : a.status = "conflicted"}}

\* buildCandidateState.  A bundle has the truth map of a tree, the pairing of
\* its records with those of the base and whether two pairs share an identity.
CandidateState(git, bundle, base) ==
  LET changes == mapAssertionChanges(base.map, bundle.map, bundle.afterToBefore)
  IN [kinds |-> changes,
      evidence |-> [tree |-> git.tree, patchId |-> git.patchId, aheadBy |-> git.aheadBy,
        behindBy |-> git.behindBy, baseTextualMerge |-> git.baseTextualMerge,
        semanticEvidence |-> IF base.complete /\ bundle.complete /\ ~bundle.ambiguous
                             THEN "complete" ELSE "unknown",
        changes |-> {c.assertion : c \in changes},
        baseSemanticConflict |-> changedConflicts(changes, bundle.map, bundle.afterToBefore)]]

Removes(state, assertion) == [assertion |-> assertion, kind |-> "removed"] \in state.kinds
Adds(state) == \E c \in state.kinds : c.kind = "added"

buildPairEvidence(l, r, textualMerge, left, right) ==
  LET shared == left.evidence.changes \cap right.evidence.changes
      complete == /\ left.evidence.semanticEvidence = "complete" /\ ~Adds(left)
                  /\ right.evidence.semanticEvidence = "complete" /\ ~Adds(right)
  IN [left |-> l, right |-> r, textualMerge |-> textualMerge,
      semanticEvidence |-> IF complete THEN "complete" ELSE "unknown",
      ordering |-> IF complete /\ shared = {} THEN "independent" ELSE "unknown",
      orderingEvidence |-> FALSE,
      semanticConflict |-> {a \in shared :
        \/ Removes(left, a) # Removes(right, a)
        \/ a \in left.evidence.baseSemanticConflict \cup right.evidence.baseSemanticConflict}]

-----------------------------------------------------------------------------
Recommended(portfolio, n) == portfolio.candidates[n].recommendation

(***************************************************************************)
(* A portfolio of accepted evidence is sound (projectBranchPortfolio): it  *)
(* does not depend on which end of a pair is called left; a conflict stops *)
(* both ends; of two branches that are ready neither duplicates the other, *)
(* conflicts with it or waits for it; and the reasons, which are computed  *)
(* apart, say that there is nothing to object exactly where a branch is    *)
(* ready.                                                                  *)
(***************************************************************************)
PortfolioIsSound(candidates, pairs) ==
  Accepted(candidates, pairs) =>
    LET portfolio == buildPortfolio(candidates, pairs) IN
    /\ \A p \in pairs : buildPortfolio(candidates, (pairs \ {p}) \cup {Exchanged(p)}) = portfolio
    /\ \A p \in pairs :
         /\ p.textualMerge = "conflict" \/ p.semanticConflict # {} =>
              \A n \in Ends(p) : Recommended(portfolio, n) = "conflict"
         /\ (\A n \in Ends(p) : Recommended(portfolio, n) = "merge_ready") =>
              ~Ordered(p) /\ ~isDuplicateIdentity(candidates[p.left], candidates[p.right])
    /\ \A n \in DOMAIN candidates :
         Recommended(portfolio, n) = "merge_ready"
           <=> portfolio.candidates[n].reasons = {"COMPLETE_DISJOINT_EVIDENCE"}

(***************************************************************************)
(* The evidence assembled from two trees is accepted                       *)
(* (assembleBranchPortfolio): whatever their truth maps make of the base,  *)
(* changes, conflicts and pairs refer to each other, unless two branches   *)
(* with one tree or patch have a conflict, which the projection refuses.   *)
(* And an assertion one branch removes and the other changes is a          *)
(* conflict for both.                                                      *)
(***************************************************************************)
AssemblyIsAccepted(git, bundles, base, textualMerge) ==
  LET state == [n \in 1 .. 2 |-> CandidateState(git[n], bundles[n], base)]
      candidates == [n \in 1 .. 2 |-> state[n].evidence]
      pair == buildPairEvidence(1, 2, textualMerge, state[1], state[2])
      portfolio == buildPortfolio(candidates, {pair})
  IN /\ Accepted(candidates, {pair}) <=>
          ~(isDuplicateIdentity(candidates[1], candidates[2])
            /\ (textualMerge = "conflict" \/ pair.semanticConflict # {}))
     /\ \A a \in base.map :
          Removes(state[1], a) /\ [assertion |-> a, kind |-> "modified"] \in state[2].kinds =>
            \A n \in 1 .. 2 : Recommended(portfolio, n) = "conflict"
=============================================================================

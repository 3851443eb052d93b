------------------------ MODULE CapabilityComparison ------------------------
(***************************************************************************)
(* Whether a capability of one repository may stand in for that of another *)
(* (diff/capability-comparison.ts): the evidence each side has, the        *)
(* contracts they declare, and the verdict with the gap it opens.          *)
(*                                                                         *)
(* A bundle has records and scan rows, each with the capability it names   *)
(* and the parts of the contract it adds; its graph, truth map and view    *)
(* only supply citations, which are left out.  Capabilities have two parts *)
(* in their name (action and object), so a contract never takes those from *)
(* a record.  Hashes stand for what they are made of.                      *)
(***************************************************************************)
EXTENDS Integers, Sequences, FiniteSets

Declared == {"nl", "todo", "document", "agent_log"}
Observed == {"git", "ast", "system"}

isConfigurationRecord(r) == r.source = "system" \/ r.configuration

\* resolveEvidenceStateAndGrade.
resolveState(e) ==
  IF e.missing THEN "unknown" ELSE IF e.code THEN "observed"
  ELSE IF e.config THEN "configuration-only" ELSE IF e.declared THEN "declared" ELSE "unknown"
resolveGrade(e) ==
  IF e.missing THEN "missing_extraction" ELSE IF e.stale THEN "stale"
  ELSE IF e.code THEN (IF e.verified THEN "runtime_verified_code" ELSE "code")
  ELSE IF e.config THEN "configuration" ELSE IF e.declared THEN "declared_only" ELSE "unknown"

\* collectContractField, over the records and the rows of a capability.
collectContractField(parts, key) == UNION {p[key] : p \in parts}

\* buildCapabilityContract.
buildCapabilityContract(parts, records, platform) ==
  LET inputs == collectContractField(parts, "inputs")
      outputs == collectContractField(parts, "outputs")
      explicit == collectContractField(records, "behavior")
  IN [inputs |-> inputs, outputs |-> outputs, effects |-> collectContractField(parts, "effects"),
      forbidden |-> collectContractField(parts, "forbidden"), platform |-> platform,
      signature |-> IF explicit # {} THEN <<explicit>> ELSE <<inputs, outputs>>]

\* extractSingleCapabilitySide.
extractSide(bundle, capability) ==
  LET records == {r \in bundle.records : r.capability = capability}
      rows == {r \in bundle.rows : r.capability = capability}
      bound(status) == \E r \in rows : r.binding = status
      evidence ==
        [missing |-> ~bundle.extractionComplete \/ bound("missing"),
         stale |-> bundle.expectedSourceHash # bundle.sourceHash \/ bound("stale"),
         code |-> \/ \E r \in records : r.source \in Observed /\ ~isConfigurationRecord(r)
                  \/ \E r \in rows : r.basis # "inferred" /\ r.binding = "verified",
         config |-> \E r \in records : isConfigurationRecord(r),
         declared |-> \/ \E r \in records : r.source \in Declared
                      \/ \E r \in rows : r.basis = "declared",
         verified |-> bundle.runtimeVerified]
  IN [repository |-> bundle.repository, stale |-> evidence.stale, missing |-> evidence.missing,
      contract |-> buildCapabilityContract(records \cup rows, records, bundle.platform),
      state |-> resolveState(evidence), grade |-> resolveGrade(evidence),
      divergent |-> capability \in bundle.intentionalDivergences \/ \E r \in records : r.divergent]

unknownSide(bundle, capability) ==
  LET missing == ~bundle.extractionComplete \/ bundle.records = {}
      stale == bundle.expectedSourceHash # bundle.sourceHash
  IN [repository |-> bundle.repository, stale |-> stale, missing |-> missing,
      contract |-> [inputs |-> {}, outputs |-> {}, effects |-> {}, forbidden |-> {},
                    platform |-> bundle.platform, signature |-> <<>>],
      state |-> "unknown",
      grade |-> IF missing THEN "missing_extraction" ELSE IF stale THEN "stale" ELSE "unknown",
      divergent |-> capability \in bundle.intentionalDivergences]

Capabilities(bundle) == {r.capability : r \in bundle.records} \cup {r.capability : r \in bundle.rows}
side(bundle, capability) ==
  IF capability \in Capabilities(bundle) THEN extractSide(bundle, capability)
  ELSE unknownSide(bundle, capability)

-----------------------------------------------------------------------------
\* As if only the left side could break the other's rules.
effectsAreCompatible_OneWay(l, r) ==
  l.effects \cap r.forbidden = {} /\ (l.effects = {} \/ r.effects = {} \/ l.effects = r.effects)

effectsAreCompatible(l, r) ==
  /\ l.effects \cap r.forbidden = {} /\ r.effects \cap l.forbidden = {}
  /\ l.effects = {} \/ r.effects = {} \/ l.effects = r.effects
platformsAreCompatible(l, r) == "agnostic" \in {l.platform, r.platform} \/ l.platform = r.platform
behaviorMatches(l, r) ==
  l.signature # <<>> /\ l.signature = r.signature /\ l.inputs = r.inputs /\ l.outputs = r.outputs

classifyNonStructuralState(l, r) ==
  LET states == {l.state, r.state} IN
  IF "configuration-only" \in states THEN "configuration_only"
  ELSE IF "declared" \in states THEN "declared_not_implemented"
  ELSE IF "unknown" \in states THEN "unknown"
  ELSE IF {l.grade, r.grade} # {"runtime_verified_code"} THEN "code_without_runtime_verification"
  ELSE "compatible_verified"

classifyCapabilityCompatibility(l, r) ==
  IF l.divergent \/ r.divergent THEN "intentional_divergence"
  ELSE IF l.missing \/ r.missing THEN "missing_extraction"
  ELSE IF l.stale \/ r.stale THEN "stale_evidence"
  ELSE IF ~effectsAreCompatible(l.contract, r.contract)
          \/ ~platformsAreCompatible(l.contract, r.contract) THEN "effect_or_platform_mismatch"
  ELSE IF ~behaviorMatches(l.contract, r.contract) THEN "behavior_mismatch"
  ELSE classifyNonStructuralState(l, r)

COMPATIBILITY_TO_GAP_KIND ==
  [behavior_mismatch |-> "BEHAVIOR_CONTRACT_MISMATCH",
   effect_or_platform_mismatch |-> "EFFECT_OR_PLATFORM_INCOMPATIBLE",
   missing_extraction |-> "EXTRACTION_INCOMPLETE", stale_evidence |-> "STALE_EVIDENCE_HASH",
   code_without_runtime_verification |-> "RUNTIME_VERIFICATION_MISSING",
   declared_not_implemented |-> "IMPLEMENTATION_MISSING",
   configuration_only |-> "CONFIGURATION_ONLY_EVIDENCE"]

\* compareCapabilityPair: the verdict and at most one gap, whose target is the
\* side that is not verified, the right one if neither is.
compareCapabilityPair(capability, l, r) ==
  LET compatibility == classifyCapabilityCompatibility(l, r)
      target == IF r.grade = "runtime_verified_code" THEN l ELSE r
  IN [capability |-> capability, compatibility |-> compatibility,
      interchangeable |-> compatibility = "compatible_verified",
      preserved |-> l.divergent \/ r.divergent,
      gaps |-> IF compatibility \in DOMAIN COMPATIBILITY_TO_GAP_KIND
               THEN {[kind |-> COMPATIBILITY_TO_GAP_KIND[compatibility], capability |-> capability,
                      target |-> target.repository, grade |-> target.grade]}
               ELSE {}]

\* compareCapabilityEvidenceBundles, for one pair of its bundles.
comparePairs(left, right) ==
  {compareCapabilityPair(c, side(left, c), side(right, c)) : c \in Capabilities(left) \cup Capabilities(right)}

-----------------------------------------------------------------------------
RowsOf(bundle, c) == {r \in bundle.rows : r.capability = c}

(***************************************************************************)
(* Equivalence is earned (compareCapabilityEvidenceBundles, whose proposal *)
(* says claimsEquivalenceFromSimilarityAlone: false): two sides are only   *)
(* interchangeable if each runs, is complete and unchanged, has code or a  *)
(* bound contract of its own and does nothing the other forbids.  The      *)
(* verdict does not depend on the order of the bundles; where a side is    *)
(* short of proof there is a gap, and its target is a side that is.        *)
(***************************************************************************)
EquivalenceIsEarned(left, right) ==
  /\ {[p EXCEPT !.gaps = {g.kind : g \in @}] : p \in comparePairs(left, right)}
       = {[p EXCEPT !.gaps = {g.kind : g \in @}] : p \in comparePairs(right, left)}
  /\ \A p \in comparePairs(left, right) :
       /\ p.interchangeable =>
            /\ \A b \in {left, right} :
                 /\ b.runtimeVerified /\ b.extractionComplete /\ b.expectedSourceHash = b.sourceHash
                 /\ \A r \in RowsOf(b, p.capability) : r.binding \notin {"stale", "missing"}
                 /\ \/ \E r \in b.records : r.capability = p.capability /\ r.source \in {"git", "ast"}
                    \/ \E r \in RowsOf(b, p.capability) : r.binding = "verified"
            /\ \A r \in RowsOf(left, p.capability), s \in RowsOf(right, p.capability) :
                 r.effects \cap s.forbidden = {} /\ s.effects \cap r.forbidden = {}
       /\ p.gaps = {} <=> p.interchangeable \/ p.preserved \/ p.compatibility = "unknown"
       /\ \A g \in p.gaps : g.grade = "runtime_verified_code" =>
            p.compatibility \in {"behavior_mismatch", "effect_or_platform_mismatch"}
=============================================================================

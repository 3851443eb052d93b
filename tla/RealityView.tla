----------------------------- MODULE RealityView -----------------------------
(***************************************************************************)
(* Intent against reality (diff/reality.ts): the records of one graph,     *)
(* grouped by what each is about, and the status of each group from the    *)
(* kinds of its records and the diagnostics they carry.                    *)
(*                                                                         *)
(* A topic key is a kind and a value.  Where the code takes the first of   *)
(* a sorted list, CHOOSE takes one: any order does.  Labels and the two    *)
(* renderings are left out, as is the order of the rows.                   *)
(***************************************************************************)
EXTENDS GraphDiagnostics

DECLARED_KINDS == {"nl", "todo", "document", "agent_log"}
OBSERVED_KINDS == {"git", "ast", "system"}

only(S) == CHOOSE x \in S : TRUE

\* indexUnambiguousSymbolPaths: the paths of a symbol, one if it is known.
SymbolPaths(records, alias) ==
  UNION {r.paths : r \in {x \in records : Cardinality(x.paths) = 1 /\ alias \in Symbols(x)}}
Resolved(records, r) ==
  UNION {SymbolPaths(records, a) : a \in {b \in Symbols(r) : Cardinality(SymbolPaths(records, b)) = 1}}

resolvesToFile(records, r) == r.tickets # {} \/ r.paths # {} \/ Cardinality(Resolved(records, r)) = 1

\* indexModuleAnchors: the modules a declaration without a target is linked to.
Anchors(graph, r) ==
  IF r.source \in DECLARED_KINDS /\ ~resolvesToFile(graph.records, r)
  THEN UNION {m.paths : m \in {x \in Related(graph, r) : isFileAggregate(x) /\ Cardinality(x.paths) = 1}}
  ELSE {}

primaryTargetKey(graph, r) ==
  LET resolved == Resolved(graph.records, r)
      shortest == {a \in Symbols(r) : \A b \in Symbols(r) : Len(a) <= Len(b)}
  IN IF r.tickets # {} THEN <<"ticket", only(r.tickets)>>
     ELSE IF r.paths # {} THEN <<"path", only(r.paths)>>
     ELSE IF Cardinality(resolved) = 1 THEN <<"path", only(resolved)>>
     ELSE IF Cardinality(Anchors(graph, r)) = 1 THEN <<"path", only(Anchors(graph, r))>>
     ELSE IF r.symbols # {} THEN <<"symbol", only(shortest)>>
     ELSE IF r.path # <<>> THEN <<"source", r.path>>
     ELSE <<"record", r.id>>

groupIntoTopics(graph) ==
  {{s \in graph.records : primaryTargetKey(graph, s) = primaryTargetKey(graph, r)} : r \in graph.records}

-----------------------------------------------------------------------------
Of(records, kinds) == {r \in records : r.source \in kinds}
Codes(report, records) == {d.code : d \in {x \in report : x.records \cap {r.id : r \in records} # {}}}

resolveEvidence(records) ==
  IF Of(records, {"ast", "git"}) # {} THEN "code"
  ELSE IF Of(records, {"system"}) # {} THEN "configuration" ELSE "none"

\* As if both sides of a topic were enough.
resolveStatus_BySides(codes, records) ==
  LET declared == Of(records, DECLARED_KINDS) # {}
      observed == Of(records, OBSERVED_KINDS) # {}
  IN IF "CONFLICTING_INTENT" \in codes THEN "conflicting"
     ELSE IF declared /\ observed THEN "aligned"
     ELSE IF declared THEN "planned_not_implemented"
     ELSE IF observed THEN "implemented_not_planned" ELSE "unlinked"

resolveStatus(codes, records) ==
  LET declared == Of(records, DECLARED_KINDS) # {}
      observed == Of(records, OBSERVED_KINDS) # {}
      changelog == Of(records, {"changelog"}) # {}
  IN IF "CONFLICTING_INTENT" \in codes THEN "conflicting"
     ELSE IF "PLANNED_NOT_IMPLEMENTED" \in codes THEN "planned_not_implemented"
     ELSE IF ~declared /\ ~observed
     THEN IF changelog THEN "changelog_without_implementation" ELSE "unlinked"
     ELSE IF declared /\ ~observed
     THEN IF changelog /\ "CHANGELOG_WITHOUT_IMPLEMENTATION" \in codes
          THEN "changelog_without_implementation" ELSE "planned_not_implemented"
     ELSE IF observed /\ ~declared THEN "implemented_not_planned"
     ELSE "aligned"

\* buildRealityView: a row for each topic, and the totals.
Rows(graph, report) ==
  {[records |-> t, codes |-> Codes(report, t), evidence |-> resolveEvidence(t),
    status |-> resolveStatus(Codes(report, t), t)] : t \in groupIntoTopics(graph)}

Totals(graph, report) ==
  LET rows == Rows(graph, report)
      count(S) == Cardinality(S)
      with(kinds) == {row \in rows : Of(row.records, kinds) # {}}
      aligned == {row \in rows : row.status = "aligned"}
      grade(evidence) == count({row \in aligned : row.evidence = evidence})
  IN [topics |-> count(rows), aligned |-> count(aligned), gaps |-> count(rows) - count(aligned),
      alignedByEvidence |-> [code |-> grade("code"), configuration |-> grade("configuration"),
                             none |-> grade("none")],
      declaredTopics |-> count(with(DECLARED_KINDS)), observedTopics |-> count(with(OBSERVED_KINDS)),
      implementationAlignedTopics |-> count(aligned \cap with(DECLARED_KINDS) \cap with(OBSERVED_KINDS)),
      documentedObservedTopics |-> count(with({"document"}) \cap with(OBSERVED_KINDS)),
      documentationMeasured |-> Of(graph.records, {"document"}) # {}]

-----------------------------------------------------------------------------
(***************************************************************************)
(* Coverage is backed (buildRealityView): every record is in one topic;    *)
(* what counts as aligned has code or configuration in the topic itself    *)
(* and no plan in it that waits for its proof or contradicts another       *)
(* record, so the coverages are shares of what they divide and no aligned  *)
(* topic is without evidence; and a declaration without a target joins a   *)
(* module only where it is linked to no other.                             *)
(***************************************************************************)
CoverageIsBacked(input) ==
  LET graph == linkIntentRecords(input)
      report == diagnoseGraph(graph)
      rows == Rows(graph, report)
      totals == Totals(graph, report)
  IN /\ \A r \in graph.records : Cardinality({row \in rows : r \in row.records}) = 1
     /\ \A row \in rows : row.status = "aligned" => \A r \in row.records :
          /\ isPlan(r) /\ hasCapabilityClaim(r) => \E e \in graph.records : Proof(graph.records, r, e)
          /\ ~Reports(report, "CONFLICTING_INTENT", r)
     /\ totals.aligned = totals.implementationAlignedTopics /\ totals.alignedByEvidence.none = 0
     /\ totals.aligned <= totals.declaredTopics /\ totals.aligned <= totals.observedTopics
     /\ \A row \in rows, r, m \in graph.records :
          {r, m} \subseteq row.records /\ isFileAggregate(m) /\ r.source \in DECLARED_KINDS
          /\ ~resolvesToFile(graph.records, r) =>
            \A n \in Related(graph, r) : isFileAggregate(n) => n.paths = m.paths
=============================================================================

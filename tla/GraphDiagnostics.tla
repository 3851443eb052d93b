-------------------------- MODULE GraphDiagnostics --------------------------
(***************************************************************************)
(* What a graph leaves open (graph/diagnostics.ts): plans without code,    *)
(* code without a plan, releases without either, requirements that cannot  *)
(* be placed, contradictions.  Records are those of IntentLinker with      *)
(* status, modality, the fields a requirement lacks, and whether they are  *)
(* public (isPublicImplementation, which reads names), documentation only  *)
(* (a commit) and actionable (changelog-signal.ts, which reads texts).     *)
(* A diagnostic is its code, severity and records.                         *)
(***************************************************************************)
EXTENDS IntentLinker

isPlan(r) ==
  /\ r.status \notin {"implemented", "released"}
  /\ IF r.source = "document" THEN r.modality \in {"required", "recommended"}
     ELSE r.source \in {"nl", "todo"}

isImplementationEvidence(r) == r.source \in {"git", "ast", "system"}
isPublicImplementation(r) == r.source = "ast" /\ r.statement = "symbol_fact" /\ r.public
isReleaseCandidate(r) == IF r.source = "git" THEN ~r.docOnly ELSE isPublicImplementation(r)
isImportantRecord(r) ==
  CASE r.source = "ast" -> isPublicImplementation(r)
    [] r.source = "changelog" -> r.actionable
    [] OTHER -> r.source \in {"nl", "todo", "git", "document"}

\* As if the place were proof enough.
relationSupportsImplementation_ByPlace(declaration, evidence, basis) ==
  \/ basis.symbol \/ basis.topics > 0 \/ basis.overlap > 0
  \/ ~isFileAggregate(evidence) /\ basis.similarity >= 12
  \/ basis.path \/ basis.ticket

\* Relations are navigation until their basis proves the requested behaviour.
relationSupportsImplementation(declaration, evidence, basis) ==
  \/ basis.symbol \/ basis.topics > 0 \/ basis.overlap > 0
  \/ ~isFileAggregate(evidence) /\ basis.similarity >= 12
  \/ ~hasCapabilityClaim(declaration) /\ (basis.path \/ basis.ticket)

Joins(relation, r, s) == {relation.from, relation.to} = {r.id, s.id}
Related(graph, r) == {s \in graph.records \ {r} : \E x \in graph.relations : Joins(x, r, s)}

\* indexGroundedImplementationEvidence.
Grounded(graph, r) ==
  \E x \in graph.relations, e \in graph.records \ {r} :
    Joins(x, r, e) /\ isImplementationEvidence(e) /\ relationSupportsImplementation(r, e, x.basis)

SourcePaths(r) == IF r.path = <<>> THEN {} ELSE pathAliases(r.path)
indexImplementedPaths(graph) ==
  UNION {Paths(r) \cup SourcePaths(r) : r \in {x \in graph.records : isImplementationEvidence(x)}}
indexDocumentedPaths(graph) ==
  UNION {SourcePaths(r) : r \in {x \in graph.records : x.source = "document"}}

Evidenced(graph, r) ==
  \/ Grounded(graph, r)
  \/ ~hasCapabilityClaim(r) /\ Paths(r) \cap indexImplementedPaths(graph) # {}
  \/ r.source = "changelog" /\ Paths(r) \cap indexDocumentedPaths(graph) # {}

SymbolIssues(graph, r) ==
  {x \in (IF r.source = "nl" THEN Resolutions(graph.records, r) ELSE {}) :
     x.status \in {"ambiguous", "conflicting"}}

makeDiagnostic(severity, code, records) == [severity |-> severity, code |-> code, records |-> records]

RecordDiagnostics(graph, r) ==
  LET related == Related(graph, r)
      when(condition, severity, code) ==
        IF condition THEN {makeDiagnostic(severity, code, {r.id})} ELSE {}
  IN when(isPlan(r) /\ ~Evidenced(graph, r),
          IF r.status = "completed" THEN "blocking" ELSE "warning", "PLANNED_NOT_IMPLEMENTED") \cup
     when(isPublicImplementation(r) /\ ~\E s \in related : isPlan(s), "warning", "IMPLEMENTED_NOT_PLANNED") \cup
     when(isReleaseCandidate(r) /\ ~\E s \in related : s.source \in {"changelog", "document"},
          "info", "IMPLEMENTED_NOT_DOCUMENTED") \cup
     when(r.source = "changelog" /\ r.actionable /\ ~Evidenced(graph, r),
          "review_required", "CHANGELOG_WITHOUT_IMPLEMENTATION") \cup
     when(r.missing \/ SymbolIssues(graph, r) # {}, "review_required", "AMBIGUOUS_REQUIREMENT") \cup
     when(r.confidence < 50 /\ r.source # "ast", "info", "LOW_CONFIDENCE") \cup
     when(related = {} /\ isImportantRecord(r), "warning", "UNLINKED_RECORD")

diagnoseGraph(graph) ==
  LET found == UNION {RecordDiagnostics(graph, r) : r \in graph.records} \cup
        {makeDiagnostic("blocking", "CONFLICTING_INTENT", {x.from, x.to}) :
           x \in {y \in graph.relations : y.type = "contradicts"}}
  IN IF \E d \in found : d.severity \in {"blocking", "review_required"} THEN found
     ELSE found \cup {makeDiagnostic("info", "ALIGNED", {})}

-----------------------------------------------------------------------------
Reports(report, code, r) == \E d \in report : d.code = code /\ r.id \in d.records

\* What may prove that r is done, read from the records themselves: a symbol
\* that is declared in one file, the subject of a file, or the words of a fact.
Proof(records, r, e) ==
  /\ isImplementationEvidence(e)
  /\ \/ Symbols(r) \cap Symbols(e) # {}
     \/ Cardinality(topics(r) \cap topics(e)) >= 3
     \/ topics(r) \cap e.capabilities # {}
     \/ ~isFileAggregate(e) /\ Similarity(r, e) >= 12

(***************************************************************************)
(* A report is grounded (linkIntentRecords, diagnoseGraph): a plan that    *)
(* asks for behaviour is only taken as done for a fact that shares its     *)
(* symbol, subject or words, never for a file or a ticket they have in     *)
(* common; where a symbol of a requirement is declared in several files    *)
(* the report says so; records that contradict each other are linked and   *)
(* block, whichever comes first; and only then nothing is called aligned.  *)
(***************************************************************************)
ReportIsGrounded(input) ==
  LET graph == linkIntentRecords(input)
      records == graph.records
      report == diagnoseGraph(graph)
      owners(s) == {e.path : e \in {x \in records : isAstDeclaration(x) /\ s \in x.symbols}}
  IN /\ \A r \in records :
          isPlan(r) /\ hasCapabilityClaim(r) /\ ~Reports(report, "PLANNED_NOT_IMPLEMENTED", r) =>
            \E e \in records : Proof(records, r, e)
     /\ \A r \in records :
          /\ r.source = "nl" /\ r.paths = {} /\ (\E s \in r.symbols : Cardinality(owners(s)) > 1) =>
               Reports(report, "AMBIGUOUS_REQUIREMENT", r)
          /\ ~(Reports(report, "UNLINKED_RECORD", r) /\ Reports(report, "CONFLICTING_INTENT", r))
     /\ \A x \in graph.relations : x.type = "contradicts" => ~\E d \in report : d.code = "ALIGNED"
     /\ \A l, r \in records :
          /\ Cardinality({x \in graph.relations : Joins(x, l, r)}) <= 1
          /\ l # r /\ l.source = "system" /\ r.source = "system" /\ (\E x \in graph.relations : Joins(x, l, r)) =>
               l.tickets \cap r.tickets # {}
=============================================================================

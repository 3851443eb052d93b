------------------------------ MODULE Reranker ------------------------------
(***************************************************************************)
(* The cross-language reranker (semantic/): the bounded shortlist of       *)
(* modules for a declaration, what of it is sent to a model, the decisions *)
(* that come back, and the relations a graph gains from them.              *)
(*                                                                         *)
(* A graph has records, by their ids, and relations; its fingerprint is    *)
(* the graph, and the hash of a shortlist or of a result is its content.   *)
(* A record has a kind, a source, the path of its file and the quotes its  *)
(* text has.  Scores and confidences are in millionths, as the code rounds *)
(* them.  The id of a candidate is the candidate.                          *)
(***************************************************************************)
EXTENDS Integers, Sequences, FiniteSets, SequencesExt

Million == 1000000
MostPerDeclaration == 10
MostInPayload == 100

-----------------------------------------------------------------------------
\* assertSemanticCandidateSet.
hash(set) == [graph |-> set.graph, max |-> set.max, candidates |-> set.candidates]
Of(candidates, declaration) == {c \in candidates : c.declaration = declaration}
validateSemanticCandidates(set, records) ==
  \A c \in set.candidates :
    /\ {c.declaration, c.module} \subseteq DOMAIN records
    /\ records[c.declaration].kind # "module_fact"
    /\ records[c.module].kind = "module_fact" /\ records[c.module].source = "ast"
    /\ c.score \in -Million .. Million /\ c.rank \in 1 .. set.max
    /\ \A d \in set.candidates : <<c.declaration, c.module>> = <<d.declaration, d.module>> => c = d
validateSemanticCandidateRanks(set) ==
  \A c \in set.candidates :
    LET ranked == Of(set.candidates, c.declaration) IN
    /\ {d.rank : d \in ranked} = 1 .. Cardinality(ranked)
    /\ \A d \in ranked : d.rank < c.rank => d.score >= c.score
assertSemanticCandidateSet(set, graph) ==
  /\ set.graph = graph /\ set.max \in 1 .. MostPerDeclaration
  /\ validateSemanticCandidates(set, graph.records) /\ validateSemanticCandidateRanks(set)
  /\ set.hash = hash(set)

\* createSemanticCandidateSet: the best of every declaration, or nothing.
ComesBefore(l, r) == l.score > r.score \/ (l.score = r.score /\ l.module < r.module)
\* sort, which keeps the order of inputs that are alike: each behind those before it.
InputsOf(inputs, declaration) == {n \in DOMAIN inputs : inputs[n].declaration = declaration}
Ranked(inputs, declaration) ==
  LET S == InputsOf(inputs, declaration)
      before == {p \in S \X S : \/ ComesBefore(inputs[p[1]], inputs[p[2]])
                                \/ ~ComesBefore(inputs[p[2]], inputs[p[1]]) /\ p[1] < p[2]}
  IN [n \in 1 .. Cardinality(S) |-> inputs[CHOOSE k \in S : Cardinality({y \in S : <<y, k>> \in before}) = n - 1]]
Shortlist(inputs, declaration, max) ==
  LET ranked == Ranked(inputs, declaration) IN
  {[declaration |-> declaration, module |-> ranked[n].module, score |-> ranked[n].score, rank |-> n] :
     n \in {k \in DOMAIN ranked : k <= max}}
createSemanticCandidateSet(graph, inputs, max) ==
  LET set == [graph |-> graph, max |-> max,
              candidates |-> UNION {Shortlist(inputs, i.declaration, max) : i \in Range(inputs)}]
      result == [graph |-> graph, max |-> max, candidates |-> set.candidates, hash |-> hash(set)]
  IN {s \in {result} : assertSemanticCandidateSet(s, graph)}

-----------------------------------------------------------------------------
Supports == "repository_evidence_supports_match"
assertSemanticVerdictReason(d) == d.verdict = "accept" <=> d.reason = Supports

\* validateSemanticDecisions; decisions are a sequence, as one may be there twice.
IsGrounded(d, records) ==
  LET pair == {d.candidate.declaration, d.candidate.module} IN
  /\ d.cited = pair /\ {e.record : e \in d.evidence} = pair
  /\ \A e \in d.evidence : e.quote \in records[e.record].said

\* As if a declaration could have two modules.
validateSemanticDecisions_Many(decisions, set, records) ==
  /\ \A n \in DOMAIN decisions :
       LET d == decisions[n] IN
       /\ d.candidate \in set.candidates /\ d.confidence \in 0 .. Million
       /\ assertSemanticVerdictReason(d) /\ IsGrounded(d, records)
  /\ Len(decisions) = Cardinality(set.candidates)

validateSemanticDecisions(decisions, set, records) ==
  /\ \A n \in DOMAIN decisions :
       LET d == decisions[n] IN
       /\ d.candidate \in set.candidates /\ d.confidence \in 0 .. Million
       /\ assertSemanticVerdictReason(d) /\ IsGrounded(d, records)
       /\ \A k \in 1 .. n - 1 :
            /\ decisions[k].candidate # d.candidate
            /\ ~("accept" = d.verdict /\ "accept" = decisions[k].verdict
                 /\ decisions[k].candidate.declaration = d.candidate.declaration)
  /\ Len(decisions) = Cardinality(set.candidates)
assertSemanticRerankResult(result, set, graph) ==
  /\ assertSemanticCandidateSet(set, graph)
  /\ result.graph = graph /\ result.setHash = set.hash
  /\ validateSemanticDecisions(result.decisions, set, graph.records)
createSemanticRerankResult(graph, set, decisions, identity) ==
  {r \in {[graph |-> graph, setHash |-> set.hash, decisions |-> decisions, identity |-> identity]} :
     assertSemanticRerankResult(r, set, graph)}

-----------------------------------------------------------------------------
\* assertTrackedSnapshot: only what is committed at a clean HEAD may be sent.
CitedBy(set) == UNION {{c.declaration, c.module} : c \in set.candidates}
assertTrackedSnapshot(graph, set, snapshot) ==
  /\ snapshot.revision = snapshot.head /\ snapshot.status = {}
  /\ \A id \in CitedBy(set) : graph.records[id].path \in snapshot.tracked

\* rerankSemanticCandidates: what is sent, and the result if there is one.  The
\* model may be asked only where there is neither a cached result nor an objection.
NothingSent == [sent |-> {}, results |-> {}]
rerankSemanticCandidates(graph, set, client, options) ==
  IF ~(assertSemanticCandidateSet(set, graph) /\ Cardinality(set.candidates) \in 1 .. MostInPayload) THEN NothingSent
  ELSE IF options.cached # {}
       THEN [sent |-> {}, results |-> {r \in options.cached : r.identity = options.identity
                                                             /\ assertSemanticRerankResult(r, set, graph)}]
  ELSE IF ~client.configured \/ ~(\E s \in options.snapshot : assertTrackedSnapshot(graph, set, s)) THEN NothingSent
  ELSE [sent |-> CitedBy(set),
        results |-> IF \A n \in DOMAIN client.reply : assertSemanticVerdictReason(client.reply[n])
                    THEN createSemanticRerankResult(graph, set, client.reply, options.identity) ELSE {}]

\* applyAcceptedSemanticRelations.
Ceiling == 950000
Relation(d) ==
  [from |-> d.candidate.declaration, to |-> d.candidate.module, type |-> "evidenced_by",
   confidence |-> IF d.confidence > Ceiling THEN Ceiling ELSE d.confidence, basis |-> d]
applyAcceptedSemanticRelations(graph, set, result) ==
  IF assertSemanticRerankResult(result, set, graph)
  THEN {[graph EXCEPT !.relations = @ \cup {Relation(d) : d \in {e \in Range(result.decisions) : e.verdict = "accept"}}]}
  ELSE {}

-----------------------------------------------------------------------------
(***************************************************************************)
(* The model may choose from a shortlist and nothing else                  *)
(* (rerankSemanticCandidates and the functions around it).  A shortlist    *)
(* has the best modules of each declaration.  A record is sent only from a *)
(* file that a clean HEAD tracks.  Whatever the model answers, the graph   *)
(* keeps its relations and gains at most one module for a declaration,     *)
(* from the shortlist, with a quote of either side and less than full      *)
(* confidence; a result that changed the graph is not applied to it again; *)
(* and asked for once more under the same identity it is taken from the    *)
(* cache with nothing sent, under another it is refused.                   *)
(***************************************************************************)
RerankIsGrounded(graph, inputs, max, client, options) ==
  \A set \in createSemanticCandidateSet(graph, inputs, max) :
    LET run == rerankSemanticCandidates(graph, set, client, options)
        again(identity, result) ==
          rerankSemanticCandidates(graph, set, client, [options EXCEPT !.cached = {result}, !.identity = identity])
    IN /\ \A i \in Range(inputs) :
            LET kept == Of(set.candidates, i.declaration) IN
            /\ Cardinality(kept) = IF Len(Ranked(inputs, i.declaration)) > max THEN max ELSE Len(Ranked(inputs, i.declaration))
            /\ \A c \in kept : c.module = i.module \/ i.score <= c.score \/ \E d \in kept : d.module = i.module
       /\ run.sent # {} => options.cached = {}
       /\ \A id \in run.sent : \E s \in options.snapshot :
            s.status = {} /\ s.head = s.revision /\ graph.records[id].path \in s.tracked
       /\ \A result \in run.results :
            /\ result.identity = options.identity
            /\ again(options.identity, result) = [sent |-> {}, results |-> {result}]
            /\ again(options.identity + 1, result) = NothingSent
            /\ \E after \in applyAcceptedSemanticRelations(graph, set, result) :
                 LET gained == after.relations \ graph.relations IN
                 /\ graph.relations \subseteq after.relations /\ after.records = graph.records
                 /\ \A r \in gained :
                      /\ \E c \in set.candidates : c.declaration = r.from /\ c.module = r.to
                      /\ \A id \in {r.from, r.to} : \E e \in r.basis.evidence :
                           e.record = id /\ e.quote \in graph.records[id].said
                      /\ r.confidence < Million
                      /\ \A s \in gained : s.from = r.from => s = r
                 /\ gained # {} => applyAcceptedSemanticRelations(after, set, result) = {}
=============================================================================

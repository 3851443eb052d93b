---------------------------- MODULE IntentLinker ----------------------------
(***************************************************************************)
(* From records to an intent graph (graph/linker.ts): buckets of records   *)
(* that might be related (linker-candidates.ts), the evidence of each pair *)
(* (linker-scoring.ts, symbol-resolution.ts), and the relation it makes    *)
(* (linker-relations.ts).                                                  *)
(*                                                                         *)
(* A record has a number as its id, in the order of ids as text.  Paths    *)
(* and symbols are sequences of names, words are names; the words of a     *)
(* path are its segments.  A path has an extension.  Similarities are      *)
(* counted in sixtieths, exact while two texts have at most six words      *)
(* together; scores in 1/60000.  The caps of a bucket and of the words     *)
(* that make buckets (300, 5 and 12) are never reached and left out.       *)
(***************************************************************************)
EXTENDS Integers, Sequences, FiniteSets, SequencesExt, FiniteSetsExt

GENERIC_SYMBOLS == {"call", "get", "main", "new", "run", "set", "test"}
GENERIC_FILES == {"index.js", "index.ts", "lib.rs", "main.go", "main.rs"}

\* From the exact name to its leaf.
symbolAliases(s) ==
  <<s>> \o (IF Len(s) > 1 THEN <<SubSeq(s, Len(s) - 1, Len(s))>> ELSE <<>>)
        \o (IF Last(s) \in GENERIC_SYMBOLS THEN <<>> ELSE <<<<Last(s)>>>>)
pathAliases(p) == {p} \cup (IF Last(p) \in GENERIC_FILES THEN {} ELSE {<<Last(p)>>})

Symbols(r) == UNION {ToSet(symbolAliases(s)) : s \in r.symbols}
Paths(r) == UNION {pathAliases(p) : p \in r.paths}
topics(r) == r.object \cup r.text

isFileAggregate(r) == r.statement \in {"module_fact", "configuration_file_fact"}
isAstDeclaration(r) == r.source = "ast" /\ r.action = "declare" /\ r.symbols # {}
isModuleTopicSource(r) == r.statement = "module_fact" \/ r.source \in {"nl", "todo", "document"}

-----------------------------------------------------------------------------
\* buildSymbolResolutionIndex, resolveSymbol: declarations that have the first
\* alias of the symbol which any of them has, where the request selects them.
Declared(records, alias) ==
  {r \in records : isAstDeclaration(r) /\ r.path # <<>> /\ alias \in Symbols(r)}

pathSelects(requested, candidate) ==
  IF Len(requested) > 1 THEN requested = candidate ELSE Last(candidate) = Last(requested)

resolveSymbol(records, symbol, requested) ==
  LET aliases == symbolAliases(symbol)
      known == {i \in DOMAIN aliases : Declared(records, aliases[i]) # {}}
      found == IF known = {} THEN {} ELSE Declared(records, aliases[Min(known)])
      selected == {r \in found : requested = {} \/ \E p \in requested : pathSelects(p, r.path)}
  IN [candidates |-> IF selected = {} THEN found ELSE selected,
      status |-> IF found = {} THEN "unresolved"
                 ELSE IF selected = {} THEN "conflicting"
                 ELSE IF Cardinality({r.path : r \in selected}) = 1 THEN "resolved" ELSE "ambiguous"]

\* As if the leaf of a symbol were as good as the whole of it.
Resolutions_AnyAlias(records, nl) ==
  {LET found == UNION {Declared(records, a) : a \in ToSet(symbolAliases(s))}
   IN [candidates |-> found, status |-> IF found = {} THEN "unresolved" ELSE "resolved"] : s \in nl.symbols}

Resolutions(records, nl) == {resolveSymbol(records, s, nl.paths) : s \in nl.symbols}

\* A symbol shared by NL and AST counts if it resolves; elsewhere, if it is one.
sharesSymbol(records, l, r) ==
  LET resolves(nl, ast) == isAstDeclaration(ast) /\ \E res \in Resolutions(records, nl) :
                             res.status = "resolved" /\ ast \in res.candidates
  IN IF l.source = "nl" /\ r.source = "ast" THEN resolves(l, r)
     ELSE IF r.source = "nl" /\ l.source = "ast" THEN resolves(r, l)
     ELSE Symbols(l) \cap Symbols(r) # {}

-----------------------------------------------------------------------------
\* collectCandidatePairs: the keys of the buckets two records share.
Buckets(r) ==
  {<<"ticket", t>> : t \in r.tickets} \cup {<<"symbol", s>> : s \in Symbols(r)} \cup
  {<<"path", p>> : p \in Paths(r)} \cup {<<"token", w>> : w \in r.object} \cup
  (IF isModuleTopicSource(r) THEN {<<"topic", w>> : w \in topics(r)} ELSE {})

isSuppressedConfigurationPair(kind, l, r) ==
  kind # "ticket" /\ l.source = "system" /\ r.source = "system"

isSuppressedAstPair(kind, l, r) ==
  LET ast == {x \in {l, r} : x.source = "ast"} IN
  IF Cardinality(ast) = 2 THEN kind # "symbol" \/ \E x \in ast : ~isAstDeclaration(x)
  ELSE kind = "path" /\ \E x \in ast : ~isFileAggregate(x)

BucketKinds(l, r) ==
  {kind \in {"ticket", "symbol", "path", "token", "topic"} :
     \E k \in Buckets(l), m \in Buckets(r) : k[1] = kind /\ m[1] = kind /\ k[2] = m[2]}

collectCandidatePairs(records) ==
  {<<l, r>> \in records \X records :
     /\ l.id < r.id
     /\ \E kind \in BucketKinds(l, r) :
          ~isSuppressedAstPair(kind, l, r) /\ ~isSuppressedConfigurationPair(kind, l, r)}

-----------------------------------------------------------------------------
\* Basenames of modules that only one module has.
indexResolvableBasenames(records) ==
  LET owned == UNION {r.paths : r \in {x \in records : x.source = "ast" /\ x.statement = "module_fact"}}
      deep == {p \in owned : Len(p) > 1}
  IN {Last(p) : p \in {q \in deep : \A o \in deep : Last(o) = Last(q) => o = q}}

pathsIntersect(l, r, resolvable) ==
  LET expand(x) == x.paths \cup {a \in Paths(x) : Len(a) = 1 /\ a[1] \in resolvable}
  IN expand(l) \cap expand(r) # {}

STRUCTURAL_TOPICS == {"add", "create", "file", "remove", "update"}

\* capability-evidence.ts: what is asked for beyond the place and the edit.
declaredCapabilityTopics(r) == (topics(r) \ UNION {ToSet(p) : p \in r.paths}) \ STRUCTURAL_TOPICS
hasCapabilityClaim(r) == declaredCapabilityTopics(r) # {}

aggregateCapabilityOverlap(l, r) ==
  LET overlap(aggregate, declaration) ==
        Cardinality(declaredCapabilityTopics(declaration) \cap aggregate.capabilities)
  IN IF l.source = r.source THEN 0
     ELSE IF isFileAggregate(l) THEN overlap(l, r)
     ELSE IF isFileAggregate(r) THEN overlap(r, l) ELSE 0

jaccard(A, B) == IF A = {} \/ B = {} THEN 0
                 ELSE (60 * Cardinality(A \cap B)) \div Cardinality(A \cup B)
Similarity(l, r) == Max({jaccard(l.object, r.object), jaccard(l.text, r.text)})

\* scorePair with scoreTargetEvidence: the basis of a relation and its score.
Basis(records, l, r) ==
  LET path == pathsIntersect(l, r, indexResolvableBasenames(records))
      coverage == path /\ l.source # r.source /\ (isFileAggregate(l) \/ isFileAggregate(r))
      shared == Cardinality(topics(l) \cap topics(r))
      module == l.source # r.source /\ "module_fact" \in {l.statement, r.statement}
  IN [ticket |-> l.tickets \cap r.tickets # {}, symbol |-> sharesSymbol(records, l, r),
      path |-> path, coverage |-> coverage,
      overlap |-> IF coverage THEN aggregateCapabilityOverlap(l, r) ELSE 0,
      action |-> l.action = r.action /\ l.action # "unknown",
      similarity |-> IF Similarity(l, r) >= 12 THEN Similarity(l, r) ELSE 0,
      topics |-> IF module /\ shared >= 3 THEN shared ELSE 0]

scorePair(basis, sameSource) ==
  LET weigh(flag, points) == IF flag THEN 60 * points ELSE 0
      points == weigh(basis.ticket, 620) + weigh(basis.symbol, 480) + weigh(basis.path, 280)
                + weigh(basis.coverage, 240) + weigh(basis.action, 130) + 480 * basis.similarity
                + (IF basis.topics > 0 THEN 60 * Min({640, 320 + 80 * basis.topics}) ELSE 0)
                - weigh(sameSource, 80)
  IN Max({0, points})

-----------------------------------------------------------------------------
\* SOURCE_RELATION_RULES, in order.
Rules ==
  <<[anchor |-> "git", others |-> {"todo", "nl", "document"}, type |-> "implements", first |-> TRUE],
    [anchor |-> "ast", others |-> {"nl", "git", "todo", "changelog", "document", "agent_log", "test", "system"},
     type |-> "evidenced_by", first |-> FALSE],
    [anchor |-> "changelog", others |-> {"git", "ast"}, type |-> "releases", first |-> TRUE],
    [anchor |-> "todo", others |-> {"nl", "document"}, type |-> "plans", first |-> TRUE],
    [anchor |-> "document", others |-> {"nl"}, type |-> "documents", first |-> TRUE]>>

Matches(rule, l, r) == l.source = rule.anchor /\ r.source \in rule.others
orientRelation(rule, anchor, other) ==
  IF rule.first THEN [from |-> anchor.id, to |-> other.id, type |-> rule.type]
  ELSE [from |-> other.id, to |-> anchor.id, type |-> rule.type]

isOverlappingSameSourceProjection(l, r) ==
  /\ l.path # <<>> /\ l.path = r.path
  /\ l.lines[1] <= r.lines[2] /\ r.lines[1] <= l.lines[2]

determineRelation(l, r, score) ==
  LET plain(type) == [from |-> l.id, to |-> r.id, type |-> type]
      rules == {i \in DOMAIN Rules : Matches(Rules[i], l, r) \/ Matches(Rules[i], r, l)}
      rule == Rules[Min(rules)]
  IN IF l.polarity # r.polarity /\ Similarity(l, r) >= 27 /\ ~isOverlappingSameSourceProjection(l, r)
     THEN plain("contradicts")
     ELSE IF l.source = r.source /\ Similarity(l, r) >= 50 THEN plain("duplicates")
     ELSE IF rules # {}
     THEN IF Matches(rule, l, r) THEN orientRelation(rule, l, r) ELSE orientRelation(rule, r, l)
     ELSE plain(IF score >= 48000 THEN "same_as" ELSE "related_to")

\* Of records with one id the one with most confidence stays.
deduplicateRecords(input) ==
  {r \in input : \A s \in input : s.id = r.id => s.confidence <= r.confidence}

\* linkIntentRecords: relations with the basis they rest on.
linkIntentRecords(input) ==
  LET records == deduplicateRecords(input)
      scored == {[pair |-> p, basis |-> Basis(records, p[1], p[2])] : p \in collectCandidatePairs(records)}
      score(s) == scorePair(s.basis, s.pair[1].source = s.pair[2].source)
  IN [records |-> records,
      relations |-> {determineRelation(s.pair[1], s.pair[2], score(s)) @@ [basis |-> s.basis]
                       : s \in {x \in scored : score(x) >= 25200}}]
=============================================================================

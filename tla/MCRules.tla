------------------------------- MODULE MCRules -------------------------------
(***************************************************************************)
(* The rules of the program that keep no state, each asked about a small   *)
(* set of inputs: a topic is a set of questions, a state is one question,  *)
(* and an invariant is the law of every topic it names.                    *)
(***************************************************************************)
EXTENDS Integers, Sequences, FiniteSets, TLC

Diff == INSTANCE GraphDiff
Truth == INSTANCE TruthMap
Branch == INSTANCE BranchPortfolio
Slices == INSTANCE DeliverySlices
Plan == INSTANCE OperationPlan
View == INSTANCE RealityView
Capability == INSTANCE CapabilityComparison

-----------------------------------------------------------------------------
(***************************************************************************)
(* Questions about what is proposed and planned (answers of a model,       *)
(* budgets, plans for a repository, edits of a file), about what people    *)
(* and agents say (files, registries, lines, conversations) and about the  *)
(* repository (shortlists, refs that move while they are read, working     *)
(* trees, event logs, texts, policies, payloads of GitHub).                *)
(***************************************************************************)
Synthesis == INSTANCE TaskSynthesis
Change == INSTANCE CodeChange

\* Functions from D whose value at x is taken from S[x].
Choices(S) == {f \in [DOMAIN S -> UNION {S[x] : x \in DOMAIN S}] : \A x \in DOMAIN S : f[x] \in S[x]}

-----------------------------------------------------------------------------
\* Three records, of which one is a TODO, and diagnostics with and without them.
Todo == [id |-> 1, source |-> "todo", words |-> {"cache", "limit", "rate"}, targets |-> {<<"path", 1>>}]
SynthesisInput(limits) ==
  [records |-> <<Todo, [Todo EXCEPT !.id = 2, !.source = "ast"], [Todo EXCEPT !.id = 3, !.source = "nl"]>>,
   diagnostics |-> {[id |-> 1, code |-> "PLANNED_NOT_IMPLEMENTED", severity |-> "review_required", recordIds |-> {1}],
                    [id |-> 2, code |-> "CONFLICTING_INTENT", severity |-> "blocking", recordIds |-> {2, 3}],
                    [id |-> 3, code |-> "ALIGNED", severity |-> "info", recordIds |-> {1}],
                    [id |-> 4, code |-> "UNPLANNED_IMPLEMENTATION", severity |-> "warning", recordIds |-> {}]},
   limits |-> limits]
PayloadQuestions == [diagnostics : 1 .. 4, todos : 0 .. 2, records : 1 .. 3]

\* An answer that cites in every way, and one whose proposals wait in every way.
Answer(conclusions, proposals) == [kind |-> "answer", conclusions |-> conclusions, proposals |-> proposals]
RawProposal(key, text, priority, words, targets, conclusions, after) ==
  [key |-> key, text |-> text, priority |-> priority, words |-> words, targets |-> targets,
   conclusionKeys |-> conclusions, dependencyKeys |-> after]
FixedConclusion == [key |-> 1, text |-> 1, diagnosticIds |-> {1}, recordIds |-> {1}]
RawConclusions ==
  [key : {1, 2}, text : {1}, diagnosticIds : {{1}, {2}, {1, 2}, {4}, {9}}, recordIds : {{1}, {3}, {8}, {1, 2, 8}}]
Citing ==
  {Answer(<<FixedConclusion, c>>,
          <<RawProposal(1, 1, "P1", {"cache", "limit"}, targets, cited, {})>>) :
     c \in RawConclusions, cited \in {{1}, {2}, {1, 2}, {3}}, targets \in {{}, {<<"path", 1>>}}}
Waiting ==
  {Answer(<<FixedConclusion>>,
          [n \in 1 .. 3 |-> RawProposal(n, IF n = 3 THEN text ELSE n, <<"P1", "P0", third>>[n], words, {}, {1}, after[n])]) :
     after \in Choices(<<SUBSET {2, 3}, SUBSET {1, 3, 4}, SUBSET {1, 2, 3}>>), third \in {"P0", "P2"}, text \in {2, 3},
     words \in {{"cache"}, {"cache", "limit", "rate"}}}
Refused == {[kind |-> "unreachable"], [kind |-> "malformed"], Answer(<<FixedConclusion, FixedConclusion>>, <<>>)}
SynthesisQuestions ==
  {<<mode, a, b>> : mode \in {"require-llm", "prefer-llm"}, a \in Citing \cup Refused, b \in Refused}
    \cup {<<"prefer-llm", [kind |-> "malformed"], a>> : a \in Waiting}

-----------------------------------------------------------------------------
\* Two records and a proposal that name one path or another, and what is open.
PathA == [form |-> "relative", dirs |-> <<"src">>, name |-> <<"a", "ts">>]
SomePaths ==
  {PathA, [PathA EXCEPT !.dirs = <<>>], [PathA EXCEPT !.dirs = <<"project">>, !.name = <<"map", "toon">>],
   [PathA EXCEPT !.dirs = <<"src", "vendor">>], [PathA EXCEPT !.form = "dots"], [PathA EXCEPT !.name = <<"", "png">>],
   [PathA EXCEPT !.name = <<"a", "png">>], [PathA EXCEPT !.name = <<"makefile">>],
   [PathA EXCEPT !.name = <<"todo", "patch">>]}
Target(paths) == {<<"path", p>> : p \in paths}
PlanRecord(id, paths, action, asks) ==
  [id |-> id, targets |-> Target(paths), action |-> action, asksToCreate |-> asks]
Diagnostic(id, code, severity, records) == [id |-> id, code |-> code, severity |-> severity, recordIds |-> records]
ChangeQuestions ==
  {[records |-> <<PlanRecord(1, {p}, action, FALSE), PlanRecord(2, {PathA}, "validate", asks)>>,
    diagnostics |-> {Diagnostic(1, code, "review_required", {1}),
                     Diagnostic(2, "PLANNED_NOT_IMPLEMENTED", "blocking", related),
                     Diagnostic(3, "CONFLICTING_INTENT", "blocking", {1, 2})},
    conclusions |-> <<>>, proposals |-> proposals, graph |-> "g", probed |-> probed, files |-> files, maxPlans |-> max] :
     p \in SomePaths, action \in {"add", "validate"}, asks \in BOOLEAN,
     code \in {"PLANNED_NOT_IMPLEMENTED", "CHANGELOG_WITHOUT_IMPLEMENTATION", "ALIGNED"},
     related \in {{}, {1, 2}}, probed \in BOOLEAN, files \in {{}, {PathA}}, max \in {1, 2},
     proposals \in {<<>>, <<[id |-> 7, diagnosticIds |-> {2, 3}, targets |-> Target(SomePaths)]>>}}
DiffsGiven == {<<>>, PathA :> [headers |-> {PathA}], PathA :> [headers |-> {[PathA EXCEPT !.dirs = <<>>]}]}
DiagnosedAfter ==
  SUBSET {Diagnostic(1, "PLANNED_NOT_IMPLEMENTED", "review_required", {1}),
          Diagnostic(3, "CONFLICTING_INTENT", "blocking", {1, 2}), Diagnostic(5, "CONFLICTING_INTENT", "blocking", {2}),
          Diagnostic(6, "PLANNED_NOT_IMPLEMENTED", "review_required", {2})}

\* Two edits of a file, the second after the first with its context, and the lines
\* of one letter of a kind that the code does not take as it is, or all of a file
\* from Windows.
Edits == [at : 0 .. 3, remove : 0 .. 2, insert : {<<>>, <<"x">>, <<"x", "a">>}]
Plain == [a |-> "plain", b |-> "plain", x |-> "plain"]
KindsOfLines ==
  {Plain, [Plain EXCEPT !.a = "crlf", !.b = "crlf", !.x = "crlf"]}
  \cup {[Plain EXCEPT ![l] = k] : l \in {"a", "x"}, k \in {"--", "-- ", "++", "++ ", "crlf", "secret"}}
PlacedEdits(letters) ==
  {q \in {letters} \X {e \in Edits : e.at + e.remove <= Len(letters)} \X {e \in Edits : e.at + e.remove <= Len(letters)} \X {0, 1} :
     q[2].at + q[2].remove + q[4] <= q[3].at - q[4]}
EditQuestions ==
  UNION {{q \o k : q \in PlacedEdits(letters), k \in {<<Plain, letters # <<>>>>} \cup {<<kinds, FALSE>> : kinds \in KindsOfLines}} :
           letters \in {<<"a", "b", "a", "b">>, <<"a">>, <<>>, <<"a", "a", "a", "a", "b">>}}
\* A file or an insertion of such lines.
LinesOf(letters, kinds) == [n \in DOMAIN letters |-> Change!FileLine(letters[n], kinds[letters[n]])]
EditOf(edit, kinds) == [edit EXCEPT !.insert = LinesOf(@, kinds)]

-----------------------------------------------------------------------------
Talk == INSTANCE CommunicationRecords
Analysis == INSTANCE CommunicationAnalysis

-----------------------------------------------------------------------------
\* Four lines of any kind; files of a ticket or of none with an envelope or
\* without; and registries of two participants, some of them not accepted.
LineKinds ==
  {[kind |-> "heading", section |-> "plan"], [kind |-> "heading", section |-> "report"],
   [kind |-> "heading", section |-> "none"], [kind |-> "blank"], [kind |-> "item", text |-> "a"],
   [kind |-> "text", text |-> "b"], [kind |-> "item", text |-> "none"]}
StatementQuestions == [1 .. 4 -> LineKinds]
Entry(id, role, git, a2a, alias) ==
  [id |-> id, role |-> role, gitAuthors |-> git, a2aAgentIds |-> a2a, humanAliases |-> alias]
Raw(id, role, principals) ==
  [id |-> id, role |-> role, principals |-> {[provider |-> p[1], subject |-> p[2]] : p \in principals}]
Registries ==
  {<<>>, [v1 |-> <<Entry("ann", "human", {"a"}, {}, {"x"}), Entry("bot", "agent", {"b"}, {"k"}, {})>>],
   [v1 |-> <<Entry("ann", "human", {"a"}, {}, {}), Entry("bot", "agent", {"a"}, {}, {})>>],
   [v1 |-> <<Entry("ann", "human", {"a"}, {}, {}), Entry("ann", "agent", {"b"}, {}, {})>>]}
  \cup {[v2 |-> <<Raw("ann", "human", p), Raw("bot", "agent", q)>>] :
          p \in SUBSET {<<"git", "a">>, <<"github", "x">>}, q \in SUBSET {<<"git", "a">>, <<"git", "b">>, <<"a2a", "k">>}}
TalkFiles ==
  [ticket : {"T", "none"}, evidence : BOOLEAN, looksLikeTicket : BOOLEAN, readable : {TRUE},
   inferred : {[role |-> r[1], participant |-> r[2], type |-> r[3], governance |-> r[4]] :
                 r \in {<<"none", "none", "none", FALSE>>, <<"human", "ann", "request", TRUE>>, <<"agent", "none", "none", FALSE>>}},
   envelope : [malformed : {FALSE}, id : {"none", "ann", "bot", "zed"}, participant : {"none", "ann"}, role : {"none", "agent"},
               type : {"none", "decision"}, ticket : {"none"}, gitAuthors : {{}, {"a"}}, a2a : {"none", "k"}],
   lines : {<<[kind |-> "heading", section |-> "request"], [kind |-> "text", text |-> "b"]>>}]

-----------------------------------------------------------------------------
\* A request, what an agent says on it, a third message and a commit.
Message(id, participant, role, type, polarity, action, words, paths) ==
  [id |-> id, source |-> "agent_log", participant |-> participant, role |-> role,
   resolved |-> role # "unknown", ticket |-> "T", type |-> type,
   polarity |-> polarity, action |-> action, words |-> words, topics |-> words \ {"add"}, paths |-> paths,
   symbols |-> {}, decisionClaim |-> FALSE, implementationVerb |-> action = "add", file |-> participant, aliases |-> {}]
Requests ==
  {[Message(1, "ann", "human", type, "positive", "add", words, paths) EXCEPT !.ticket = ticket] :
     type \in {"request", "decision"}, words \in {{"add", "cache", "limit"}, {"rate", "limit", "size"}}, paths \in {{}, {"p"}}, ticket \in {"T", "S"}}
Works ==
  {[Message(2, "bot", role, type, polarity, action, words, {}) EXCEPT !.decisionClaim = decided] :
     role \in {"agent", "unknown"}, type \in {"plan", "report", "decision"}, polarity \in {"positive", "negative"},
     action \in {"add", "unknown"},
     words \in {{"add", "cache", "limit"}, {"rate", "key", "add", "log", "page"}}, decided \in BOOLEAN}
Thirds ==
  {Message(3, p[1], p[2], type, polarity, "validate", words, paths) :
     p \in {<<"bot", "agent">>, <<"eve", "human">>, <<"doc", "agent">>}, type \in {"plan", "message", "claim"},
     polarity \in {"positive", "negative"},
     words \in {{"cache", "page", "key"}, {"rate", "key", "add", "log", "page"}}, paths \in {{}, {"p"}}}
Commits ==
  {[Message(4, p, "none", "commit", "positive", "add", words, {}) EXCEPT !.source = "git"] :
     p \in {"bot", "zed"}, words \in {{"cache", "limit"}, {"x"}}}
AnalysisQuestions == Requests \X Works

-----------------------------------------------------------------------------
\* Statements of a human and of an agent, and answers about some of them.
Said ==
  {Message(1, "ann", "human", "request", "positive", "add", {"a"}, {"p"}),
   Message(2, "bot", "agent", "plan", "positive", "add", {"a"}, {}),
   Message(3, "bot", "agent", "report", "positive", "add", {"a"}, {})}
Enrichments(ids) ==
  [n \in DOMAIN ids |-> [recordId |-> ids[n], action |-> "fix", polarity |-> "negative", paths |-> {"q"}]]
SumUp(group, ids) == [group |-> group, recordIds |-> ids]
EnrichmentAnswers ==
  {[kind |-> "unreachable"], [kind |-> "malformed"]}
  \cup {[kind |-> "answer", enrichments |-> Enrichments(e), syntheses |-> <<SumUp(<<"ann", "human">>, a)>> \o b] :
     e \in {<<1, 2, 3>>, <<1, 2>>, <<1, 2, 3, 3>>, <<1, 2, 4>>, <<3, 1, 2>>}, a \in {{1}, {2}, {}},
     b \in {<<>>, <<SumUp(<<"bot", "agent">>, {2})>>, <<SumUp(<<"bot", "agent">>, {2, 3})>>,
            <<SumUp(<<"ann", "human">>, {1})>>, <<SumUp(<<"bot", "agent">>, {2, 1})>>, <<SumUp(<<"bot", "human">>, {2})>>}}
EnrichmentQuestions == (SUBSET Said) \X {"require-llm", "prefer-llm", "deterministic"} \X BOOLEAN

-----------------------------------------------------------------------------
Rerank == INSTANCE Reranker
Snapshot == INSTANCE BranchSnapshot
Preflight == INSTANCE WorkspacePreflight
Log == INSTANCE EventLog
Text == INSTANCE TextDiff
Policy == INSTANCE AnalysisPolicy WITH MAX_STAGES <- 3, BUDGET_LIMITS <- [requests |-> 3, tokens |-> 3]
Github == INSTANCE GithubEvents

-----------------------------------------------------------------------------
\* Two declarations and two modules; what the model may answer, among it the
\* same decision twice, two modules for one declaration and a quote nobody wrote.
RerankRecord(kind, source, path, said) == [kind |-> kind, source |-> source, path |-> path, said |-> said]
RerankGraph(third) ==
  [records |-> <<RerankRecord("requirement", "nl", "a", {"one"}), RerankRecord("task", "todo", "b", {"two"}),
                 RerankRecord("module_fact", "ast", "c", {"mod"}), RerankRecord("module_fact", third, "d", {"mod", "other"})>>,
   relations |-> {}]
ShortlistInput == [declaration : {1, 2}, module : {3, 4}, score : {-5, 7}]
ShortlistInputs == {<<i>> : i \in ShortlistInput} \cup {<<i, j>> : i \in ShortlistInput, j \in ShortlistInput}
RerankQuestions == ShortlistInputs \X {1, 2} \X {"ast", "git"}

DecisionsOn(i, ranks) ==
  {[candidate |-> [declaration |-> i.declaration, module |-> i.module, score |-> i.score, rank |-> rank],
    verdict |-> v[1], reason |-> v[2], confidence |-> 990000, cited |-> {i.declaration, i.module},
    evidence |-> {[record |-> i.declaration, quote |-> IF i.declaration = 1 THEN "one" ELSE "two"],
                  [record |-> i.module, quote |-> q]}] :
     v \in {<<"accept", Rerank!Supports>>, <<"abstain", "ambiguous">>, <<"accept", "ambiguous">>},
     q \in {"mod", "other"}, rank \in ranks}
Replies(inputs) ==
  IF Len(inputs) = 1 THEN {<<x>> : x \in DecisionsOn(inputs[1], {1})}
  ELSE {<<x, y>> : x \in DecisionsOn(inputs[1], {1, 2}), y \in DecisionsOn(inputs[2], {1, 2})}
       \cup {<<x>> : x \in DecisionsOn(inputs[1], {1})} \cup {<<x, x>> : x \in DecisionsOn(inputs[1], {1})}
TrackedSnapshots ==
  {{}} \cup {{[head |-> 1, revision |-> r, status |-> s, tracked |-> t]} :
               r \in {1, 2}, s \in {{}, {"x"}}, t \in {{"a", "b", "c", "d"}, {"a", "c"}}}

-----------------------------------------------------------------------------
\* Three refs over six reads: each stays, moves on or away, or comes back.
Ref(name, code, locale) == [name |-> name, code |-> code, locale |-> locale]
Courses == {[n \in 1 .. 6 |-> 1]} \cup {[n \in 1 .. 6 |-> IF n < t THEN 1 ELSE to] : t \in 2 .. 6, to \in {2, 0}}
           \cup {[n \in 1 .. 6 |-> IF n = t THEN 2 ELSE 1] : t \in 2 .. 5}
SnapshotQuestions == Courses \X Courses \X Courses \X {1, 4}
SnapshotOptions(locale) ==
  [baseRef |-> Ref("main", 2, 2), candidateRefs |-> <<Ref("a", 3, 3), Ref("B", 1, locale)>>]
SnapshotMoments(q) ==
  LET o == SnapshotOptions(q[4]) IN
  [n \in 1 .. 6 |-> (o.baseRef :> q[1][n]) @@ (o.candidateRefs[1] :> 10 * q[2][n]) @@ (o.candidateRefs[2] :> 100 * q[3][n])]
GitSays(merge, paths, failing, unsafe) ==
  [changed |-> [s \in {0, 1, 2, 10, 20, 100, 200} |-> IF s > 90 THEN {1} ELSE IF s > 9 THEN paths ELSE {}],
   merge |-> merge, failing |-> failing, unsafe |-> unsafe]
GoodMerge == [exitCode |-> 0, tree |-> TRUE]
SnapshotGit ==
  {GitSays(m, p, {}, {2}) : m \in [exitCode : {0, 1, 2}, tree : BOOLEAN], p \in {{1}, {3}}}
  \cup {GitSays(GoodMerge, {1}, {<<100, 10>>}, {}), GitSays(GoodMerge, {3}, {<<100, 10>>}, {}), GitSays(GoodMerge, {1}, {<<1, 10>>}, {}),
        GitSays(GoodMerge, {2}, {}, {2}), GitSays(GoodMerge, 1 .. 4097, {}, {})}

-----------------------------------------------------------------------------
\* Up to two changed files, whose names look like another line of the listing or
\* not; a HEAD before, at and after the baseline, which may move once it is read.
NamedFile(looks, name, safe) == [looks |-> looks, name |-> name, safe |-> safe]
NamedFiles == {NamedFile("none", "a", TRUE), NamedFile("?", "b", TRUE), NamedFile("2", "c", TRUE), NamedFile("none", "d", FALSE)}
CommittedFile == NamedFile("none", "e", TRUE)
Changed(kind, path, original) == [kind |-> kind, path |-> path, original |-> original]
Changes == {Changed(k, f, {}) : k \in {"tracked", "untracked"}, f \in NamedFiles}
           \cup {Changed("renamed", NamedFile("none", "a", TRUE), {g}) : g \in NamedFiles}
Printed(e) ==
  <<[tag |-> CASE e.kind = "tracked" -> "1" [] e.kind = "untracked" -> "?" [] e.kind = "renamed" -> "2", path |-> e.path]>>
  \o (IF e.original = {} THEN <<>> ELSE LET o == CHOOSE g \in e.original : TRUE IN <<[tag |-> o.looks, path |-> o]>>)
Listings == {<<>>} \cup {<<e>> : e \in Changes} \cup {<<e, f>> : e \in Changes, f \in Changes}
Listing(es) == IF es = <<>> THEN <<>> ELSE IF Len(es) = 1 THEN Printed(es[1]) ELSE Printed(es[1]) \o Printed(es[2])
PreflightQuestions == Listings \X {1, 2} \X {1, 2, 3} \X {"work", "main", "none"} \X {2, 3}
PreflightMoments(q) ==
  [n \in 1 .. 5 |-> [baseline |-> q[2], head |-> IF n >= q[5] /\ q[3] = 3 THEN 1 ELSE q[3], branch |-> q[4],
                     listing |-> Listing(q[1])]]
PreflightGit ==
  [p \in (1 .. 2) \X (1 .. 3) |->
     [ahead |-> IF p[2] > p[1] THEN p[2] - p[1] ELSE 0, behind |-> IF p[1] > p[2] THEN 1 ELSE 0,
      changed |-> IF p[1] = p[2] THEN {} ELSE {CommittedFile}]]
GovernanceChecks ==
  [exitCode : {0, 1, 2}, status : {"passed", "failed"}, findings : {{}, {"GOV-1"}}, count : {0, 1},
   wellFormed : {TRUE}, ticket : {"none", "T"}]
GovernanceOf(check) == [p \in SUBSET (NamedFiles \cup {CommittedFile}) |-> check]

-----------------------------------------------------------------------------
\* Up to three events of two times and two sources, one that may be unsound.
LoggedEvents ==
  {e \in Log!EventInput(1 .. 2, 1 .. 2, 1 .. 2, {"approval.attested", "run"}, {"ADVISORY_INFERENCE", "SYSTEM_FACT"},
                        {"PASSED"}, {1}) : e.sound \/ (e.eventId = 1 /\ e.type = "run")}
LogQuestions ==
  {<<>>} \cup {<<e>> : e \in LoggedEvents} \cup {<<e, f>> : e \in LoggedEvents, f \in LoggedEvents}
  \cup {<<e, f, [e EXCEPT !.eventId = 3]>> : e \in LoggedEvents, f \in LoggedEvents}

-----------------------------------------------------------------------------
\* Two texts of up to four lines, some of which end without a newline.
PartsOf(letters, most) == UNION {[1 .. n -> letters] : n \in 1 .. most}
TextQuestions ==
  (PartsOf({"a", "b"}, 4) \X PartsOf({"a", "b"}, 4)) \cup (PartsOf({"a", "b", ""}, 3) \X PartsOf({"a", "b", ""}, 3))

\* Policies of one or two stages, in order or not, within the budget or not.
Budgets(most) == [requests : 1 .. most, tokens : {1, most}]
PolicyStages(id) ==
  [id : {id}, wellFormed : {TRUE}, activation : {"ALWAYS"}, triggers : {<<>>, <<1>>}, budget : Budgets(2)]
  \cup [id : {id}, wellFormed : BOOLEAN, activation : {"ON_TRIGGER"}, triggers : {<<1, 2>>, <<2>>, <<2, 1>>}, budget : Budgets(2)]
PolicyQuestions ==
  [id : {1}, wellFormed : {TRUE}, budget : Budgets(3),
   stages : {<<s>> : s \in PolicyStages(1)}
            \cup {<<s, t>> : s \in PolicyStages(1), t \in PolicyStages(2) \cup {x \in PolicyStages(1) : x.triggers = <<>>}}]
OtherPolicies(policy) == {policy, [policy EXCEPT !.id = 2], [policy EXCEPT !.stages = <<@[1]>>]}
CacheIdentities == [stage : {1, 3}, evidence : {1, 2}, model : {1}, promptContract : {1}, sound : BOOLEAN]

\* Payloads of the four events, with fields that are missing or wrong.
GithubCommits ==
  [object : {TRUE}, id : {3, 4, Github!None}, at : {Github!None, 6}, author : {Github!None, 8, Github!BadName}, committer : {9}]
  \cup [object : BOOLEAN, id : {4}, at : {6}, author : {Github!None}, committer : {Github!None}]
Pushes ==
  [ref : {1}, before : {Github!Zeros, 1, Github!BadSha}, after : {Github!Zeros, 2}, deleted : BOOLEAN,
   headAt : {Github!None, Github!BadTime, 5},
   pushedAt : {4}, pusher : {Github!None, 7}, sender : {Github!None},
   commits : {<<>>} \cup {<<c>> : c \in GithubCommits}
             \cup {<<c, d>> : c \in {x \in GithubCommits : x.id = 3 /\ x.at = 6 /\ x.author # Github!BadName}, d \in GithubCommits},
   repository : {2}, times : {<<4>>}, ids : {<<5>>}]
PullRequests ==
  [action : {"opened", "synchronize", "closed", "edited"}, number : {Github!None, 1}, base : {1, Github!BadSha}, head : {Github!None, 2},
   mergedBy : {Github!None, 7}, sender : {8}, createdAt : {Github!None, 3},
   updatedAt : {Github!None, Github!BadTime, 4}, mergedAt : {Github!None, 5},
   merged : BOOLEAN, repository : {Github!None, 2}, times : {<<4>>}, ids : {<<5>>}]
Reviews ==
  [action : {"submitted", "edited"}, number : {1}, review : {Github!None, 6}, base : {1}, head : {Github!Zeros, 2},
   reviewer : {Github!None, 7}, sender : {8},
   submittedAt : {Github!None, 3, Github!BadTime}, updatedAt : {Github!None, 4}, state : {"approved", "dismissed", "pending"},
   repository : {2}, times : {<<Github!None>>, <<Github!None, 4>>}, ids : {<<Github!None>>, <<5>>}]
WorkflowRuns ==
  [action : {"completed", "requested"}, run : {Github!None, 1}, conclusion : {"success", "skipped", "none"}, head : {Github!BadSha, 2},
   actor : {Github!None, 7}, sender : {8},
   updatedAt : {Github!None, 4}, createdAt : {3}, repository : {2}, times : {<<4>>}, ids : {<<5>>}]
GithubQuestions ==
  ({"push"} \X Pushes) \cup ({"pull_request"} \X PullRequests)
  \cup ({"pull_request_review"} \X Reviews) \cup ({"workflow_run"} \X WorkflowRuns)
GithubOptions ==
  [repository : {Github!None, 3}, ticket : {Github!None}, recordedAt : {Github!None, Github!BadTime, 6},
   correlation : {Github!None, 9}, outputExists : BOOLEAN]

-----------------------------------------------------------------------------
\* Questions about graphs, truth maps, branches, slices, steps and capabilities.
\* Graphs before and after: two places, three records each, some known to both.
DiffRecords == [id : 1 .. 5, place : {"a", "b"}, text : {"s", "t"}, observedAt : {0}]
DiffGraphs(ids) ==
  [records : {{r \in DiffRecords : r.id \in I /\ r.place = p[r.id] /\ r.text = IF r.id > 3 THEN "t" ELSE "s"} :
                I \in SUBSET ids, p \in [ids -> {"a", "b"}]},
   relations : {{}, {1}, {1, 2}}]
DiffQuestions == DiffGraphs(1 .. 3) \X [records : {g.records : g \in DiffGraphs(3 .. 5)}, relations : {{2}}]

\* Graphs of three records, each relation of two of them in either direction.
TruthQuestions ==
  [class : [1 .. 3 -> {"plan", "fact", "claim"}],
   relations : SUBSET ({<<1, 2>>, <<2, 3>>, <<3, 1>>} \X {"same_as", "contradicts"})]
TruthGraph(q) == [class |-> q.class, relations |-> {<<r[1][1], r[1][2], r[2]>> : r \in q.relations}]

-----------------------------------------------------------------------------
\* Two branches that change one assertion or none, and what is known of both.
BranchCandidates ==
  {c \in Branch!CandidateEvidence({1, 2}, {1}) :
     c.behindBy = 0 /\ (c.patchId = 0 \/ c.aheadBy = 1) /\ c.baseSemanticConflict \subseteq c.changes}
BranchPairs == {{p} : p \in Branch!PairEvidence({1, 2}, {1})}
BranchQuestions ==
  {q \in {<<l, r>> : l \in {c \in BranchCandidates : c.tree = 1 /\ c.baseTextualMerge # "conflict"},
                     r \in {c \in BranchCandidates : c.aheadBy = 1 /\ c.baseTextualMerge = "clean"}} \X BranchPairs :
     Branch!Accepted(q[1], q[2])}

TruthMapOf(ids, relations) ==
  Branch!projectTruthMap([class |-> [r \in ids |-> "fact"],
                          relations |-> {x \in relations : x[1] \in ids /\ x[2] \in ids}])
Bundles ==
  {[map |-> TruthMapOf(ids, relations), complete |-> TRUE, ambiguous |-> FALSE,
    afterToBefore |-> [r \in ids \cap {3} |-> 1]] :
     ids \in {{1, 2}, {3, 2}, {2}, {1, 2, 4}, {3, 4, 2}},
     relations \in {{}, {<<1, 2, "same_as">>}, {<<1, 2, "contradicts">>}, {<<3, 4, "same_as">>},
                    {<<3, 2, "contradicts">>, <<3, 4, "tests">>}}}
GitOf(tree, patch) == [tree |-> tree, patchId |-> patch, aheadBy |-> 1, behindBy |-> 0, baseTextualMerge |-> "clean"]
AssemblyQuestions ==
  {q \in Bundles \X Bundles \X {TruthMapOf({1, 2}, {<<1, 2, "same_as">>}), TruthMapOf({1, 2}, {})}
         \X {1, 2} \X {0, 1} \X {"clean", "conflict"} : q[4] = 1 => q[1] = q[2]}

-----------------------------------------------------------------------------
\* Three slices, of which two are too large and split into three and two; the
\* second may share a path with the first.
SliceOwnership ==
  [workstreams |-> [core |-> {[base |-> <<"src">>, open |-> TRUE]}, web |-> {[base |-> <<"web">>, open |-> TRUE]}],
   integration |-> "core", required |-> {[base |-> <<"src", "api">>, open |-> TRUE]}]
SliceOf(workstream, dependsOn, names, complexity) ==
  LET files == {<<IF workstream = "core" THEN "src" ELSE "web", n>> : n \in names} IN
  [workstream |-> workstream, dependsOn |-> dependsOn, paths |-> files, components |-> names,
   interfaces |-> {}, dependencies |-> {}, complexity |-> complexity,
   delivery |-> IF complexity = "M"
                THEN [minutes |-> 60, files |-> 9, components |-> 3, interfaces |-> 2, dependencies |-> 2]
                ELSE [minutes |-> 15, files |-> 1, components |-> 1, interfaces |-> 0, dependencies |-> 0],
   tests |-> names, acceptance |-> {[id |-> n, tests |-> {n}] : n \in names}]
SliceRequest(plan, first, second, shared) ==
  [plan |-> [ownership |-> SliceOwnership,
             slices |-> <<SliceOf("core", plan[1], {"a", "b", "c"}, "M"),
                          SliceOf("core", plan[2], {shared, "e"}, "M"), SliceOf("web", plan[3], {"x"}, "XS")>>],
   decompositions |->
     (1 :> [k \in 11 .. 13 |-> SliceOf("core", first[k], {<<"a", "b", "c">>[k - 10]}, "XS")]) @@
     (2 :> [k \in 21 .. 22 |-> SliceOf("core", second[k], {<<shared, "e">>[k - 20]}, "XS")])]
SliceQuestions ==
  {SliceRequest(plan, first, second, shared) :
     plan \in Choices(<<{{}, {2}}, {{}, {1}}, {{}, {1}, {2}, {1, 2}}>>),
     first \in Choices([k \in 11 .. 13 |-> IF k = 11 THEN {{}, {12}} ELSE SUBSET ({11, 12, 13} \ {k})]),
     second \in Choices([k \in 21 .. 22 |-> SUBSET ({21, 22} \ {k})]), shared \in {"d", "a"}}

\* A plan of two steps, the first in every form, and the values bound to it.
Bot == "bot:worker"
Variable(classification, kind, fresh, readers) ==
  [classification |-> classification, source |-> [kind |-> kind, ref |-> "ref"], readers |-> readers,
   writers |-> {Plan!Founder}, mutable |-> FALSE, freshnessSeconds |-> fresh, valueType |-> "string"]
Steps ==
  [actor : {Bot}, effect : {"query", "command"}, reversible : {"yes", "no", "unknown"},
   riskClass : {"read_only", "reversible", "boundary"}, humanApproval : BOOLEAN,
   rollback : {Plan!None, "undo"}, parameters : {<<>>, [x |-> "fresh"], [x |-> "key"], [x |-> "own"]},
   dependsOn : {{}, {"q"}, {"s"}, {"z"}}, capability : {"work"}]
OperationQuestions ==
  {<<[variables |-> [fresh |-> Variable("internal", "runtime", 4, {Plan!Founder, Bot}),
                     key |-> Variable("secret", "vault", -1, {Plan!Founder, Bot}),
                     own |-> Variable("public", "aql", -1, {Plan!Founder})],
      steps |-> [s |-> step, q |-> [CHOOSE q \in Steps : q.effect = "query" /\ q.riskClass = "read_only"
           /\ q.reversible = "yes" /\ ~q.humanApproval /\ q.rollback = Plan!None /\ q.dependsOn = {}
           /\ q.parameters # <<>> /\ q.parameters.x = "fresh" EXCEPT !.dependsOn = after]],
      expectations |-> {{"s", "q"}}, decision |-> decision, createdAt |-> 5,
      verification |-> [exerciseRequired |-> TRUE, independentReadback |-> TRUE]],
     [fresh |-> [sourceRef |-> "ref", type |-> "string", value |-> "v", observedAt |-> at]]>> :
     step \in Steps, after \in {{}, {"s"}}, decision \in {Plan!Founder, Plan!None}, at \in {0, 2, 7}}
CycleQuestions == Choices([i \in 1 .. 3 |-> SUBSET {1, 2, 3, 9}])

-----------------------------------------------------------------------------
\* A plan, a fact it may be about, and a third record.
Record(id, source, statement, path, paths, symbols, words) ==
  [id |-> id, source |-> source, statement |-> statement, path |-> path, paths |-> paths,
   action |-> IF source = "ast" THEN "declare" ELSE "validate", symbols |-> symbols,
   object |-> words, text |-> words, lines |-> <<1, 2>>, tickets |-> {}, capabilities |-> {},
   polarity |-> "positive", confidence |-> 80, status |-> "open", modality |-> "required",
   missing |-> FALSE, public |-> TRUE, docOnly |-> FALSE, actionable |-> TRUE]
FileA == <<"a", "u.ts">>
FileB == <<"b", "u.ts">>
PlanRecords ==
  {[Record(1, source, "task", <<"TODO.md">>, paths, symbols, words) EXCEPT !.tickets = tickets] :
     source \in {"nl", "todo"}, paths \in {{}, {FileA}, {<<"u.ts">>}}, symbols \in {{}, {<<"k", "f">>}},
     words \in {{"add", "u.ts"}, {"add", "limit", "rate", "cache"}}, tickets \in {{}, {"T1"}}}
FactRecords ==
  {[Record(2, "ast", statement, FileA, {FileA}, symbols, words) EXCEPT !.capabilities = capabilities] :
     statement \in {"symbol_fact", "module_fact"}, symbols \in {{<<"k", "f">>}, {<<"f">>}, {}},
     words \in {{"limit", "rate", "cache"}, {"u.ts"}}, capabilities \in {{}, {"cache"}}}
OtherRecords ==
  {Record(3, "ast", "symbol_fact", FileB, {FileB}, {<<"f">>}, {"u.ts"}),
   Record(3, "ast", "module_fact", FileB, {FileB}, {<<"k", "f">>}, {"u.ts"}),
   [Record(3, "git", "commit", <<>>, {FileB}, {}, {"limit"}) EXCEPT !.tickets = {"T1"}],
   [Record(3, "system", "configuration_file_fact", FileB, {FileB}, {}, {"limit"}) EXCEPT !.capabilities = {"rate"}],
   [Record(3, "todo", "task", <<"TODO.md">>, {}, {}, {"add", "limit", "rate", "cache"})
      EXCEPT !.polarity = "negative", !.lines = <<5, 5>>],
   [Record(3, "changelog", "entry", <<"CHANGELOG.md">>, {}, {}, {"limit"}) EXCEPT !.status = "released"]}
GraphQuestions == {{p, f, o} : p \in PlanRecords, f \in FactRecords, o \in OtherRecords}

\* Bundles of one capability, with a record, a scan row, or none of it.
CapabilityRecords ==
  {{}} \cup {{[capability |-> "add.user", source |-> r[1], configuration |-> r[2], inputs |-> {}, outputs |-> {},
               effects |-> {}, forbidden |-> {}, behavior |-> r[3], divergent |-> r[4]]} :
               r \in {<<"ast", FALSE, {}, FALSE>>, <<"system", FALSE, {}, FALSE>>, <<"nl", FALSE, {}, FALSE>>,
                      <<"ast", FALSE, {"b"}, FALSE>>, <<"ast", FALSE, {}, TRUE>>}}
CapabilityRows ==
  {{}} \cup {{[capability |-> "add.user", basis |-> r[1], binding |-> r[2], inputs |-> r[3], outputs |-> {},
               effects |-> r[4], forbidden |-> r[5]]} :
               r \in {<<"declared", "verified", {}, {}, {}>>, <<"declared", "stale", {}, {}, {}>>,
                      <<"declared", "missing", {}, {}, {}>>, <<"inferred", "verified", {}, {}, {}>>,
                      <<"declared", "verified", {"x"}, {}, {}>>, <<"declared", "verified", {}, {"net"}, {}>>,
                      <<"declared", "verified", {}, {}, {"net"}>>}}
CapabilityBundles(name) ==
  LET bundles == [repository : {name}, records : CapabilityRecords, rows : CapabilityRows,
                  expectedSourceHash : {1}, sourceHash : {1, 2}, extractionComplete : BOOLEAN,
                  runtimeVerified : BOOLEAN, platform : {"agnostic", "linux", "mac"},
                  intentionalDivergences : {{}, {"add.user"}}]
  IN {b \in bundles : Cardinality({f \in {"hash", "complete", "verified", "platform", "divergent"} :
       CASE f = "hash" -> b.sourceHash = 2 [] f = "complete" -> ~b.extractionComplete
         [] f = "verified" -> ~b.runtimeVerified [] f = "platform" -> b.platform # "agnostic"
         [] f = "divergent" -> b.intentionalDivergences # {}}) <= 1
       /\ (b.platform # "agnostic" \/ ~b.extractionComplete => b.rows = {})}
CapabilityQuestions == CapabilityBundles("l") \X {b \in CapabilityBundles("r") : b.sourceHash = 1}

-----------------------------------------------------------------------------
VARIABLES topic, question, asked
rules == <<topic, question, asked>>

Topics == {"diff", "truth", "branches", "assembly", "slices", "operations", "cycles", "graph", "capabilities",
           "payload", "synthesis", "changes", "closing", "edits",
           "files", "statements", "analysis", "enrichment", "rerank", "snapshot", "preflight", "log",
           "text", "policy", "github"}
RulesInit == topic \in Topics /\ question = <<>> /\ asked = FALSE

Ask(questions) == ~asked /\ question' \in questions /\ asked' = TRUE /\ UNCHANGED topic
AskDiff == topic = "diff" /\ Ask(DiffQuestions)
AskTruth == topic = "truth" /\ Ask(TruthQuestions)
AskBranches == topic = "branches" /\ Ask(BranchQuestions)
AskAssembly == topic = "assembly" /\ Ask(AssemblyQuestions)
AskSlices == topic = "slices" /\ Ask(SliceQuestions)
AskOperations == topic = "operations" /\ Ask(OperationQuestions)
AskCycles == topic = "cycles" /\ Ask(CycleQuestions)
AskGraph == topic = "graph" /\ Ask(GraphQuestions)
AskCapabilities == topic = "capabilities" /\ Ask(CapabilityQuestions)
AskPayload == topic = "payload" /\ Ask(PayloadQuestions)
AskSynthesis == topic = "synthesis" /\ Ask(SynthesisQuestions)
AskChanges == topic = "changes" /\ Ask(ChangeQuestions)
AskClosing == topic = "closing" /\ Ask(ChangeQuestions)
AskEdits == topic = "edits" /\ Ask(EditQuestions)
AskFiles == topic = "files" /\ Ask(TalkFiles)
AskStatements == topic = "statements" /\ Ask(StatementQuestions)
AskAnalysis == topic = "analysis" /\ Ask(AnalysisQuestions)
AskEnrichment == topic = "enrichment" /\ Ask(EnrichmentQuestions)
AskRerank == topic = "rerank" /\ Ask(RerankQuestions)
AskSnapshot == topic = "snapshot" /\ Ask(SnapshotQuestions)
AskPreflight == topic = "preflight" /\ Ask(PreflightQuestions)
AskLog == topic = "log" /\ Ask(LogQuestions)
AskText == topic = "text" /\ Ask(TextQuestions)
AskPolicy == topic = "policy" /\ Ask(PolicyQuestions)
AskGithub == topic = "github" /\ Ask(GithubQuestions)
RulesNext ==
  \/ AskDiff \/ AskTruth \/ AskBranches \/ AskAssembly \/ AskSlices \/ AskOperations \/ AskCycles
  \/ AskGraph \/ AskCapabilities
  \/ AskPayload \/ AskSynthesis \/ AskChanges \/ AskClosing \/ AskEdits
  \/ AskFiles \/ AskStatements \/ AskAnalysis \/ AskEnrichment
  \/ AskRerank \/ AskSnapshot \/ AskPreflight \/ AskLog
  \/ AskText \/ AskPolicy \/ AskGithub
RulesSpec == RulesInit /\ [][RulesNext]_rules

\* The step that asks a question of topic t.
Asked(t) == topic = t /\ asked'

(***************************************************************************)
(* What is said of two graphs or texts is all of it and no more: the       *)
(* diff of graph/diff.ts turns the first graph into the second and names   *)
(* every record once; the truth map of core/truth-map.ts is the only one   *)
(* its own validator accepts, whatever order the relations come in; a      *)
(* relation a model adds to a graph is grounded in the records it was sent *)
(* (semantic/reranker.ts); and a line diff accounts for both of its texts  *)
(* (diff/text.ts).                                                         *)
(***************************************************************************)
GraphsAreExplained ==
  [][ /\ Asked("diff") => Diff!DiffIsPatch(question'[1], question'[2])
      /\ Asked("truth") => Truth!TruthMapIsUnique(TruthGraph(question'))
      /\ Asked("text") =>
           \A context \in 0 .. 2, most \in {2, 64} :
             Text!DiffAccountsForBoth(Text!splitLines(question'[1]), Text!splitLines(question'[2]), context, most)
      /\ Asked("rerank") =>
           \A reply \in Replies(question'[1]), snapshot \in TrackedSnapshots, configured \in BOOLEAN :
             Rerank!RerankIsGrounded(RerankGraph(question'[3]), question'[1], question'[2],
                                     [configured |-> configured, reply |-> reply],
                                     [snapshot |-> snapshot, cached |-> {}, identity |-> 1]) ]_rules

(***************************************************************************)
(* A branch is called ready, a merge clean and two implementations the     *)
(* same only on evidence for it: the portfolio of branch-portfolio.ts      *)
(* never recommends one half of a conflict, the evidence its assembler     *)
(* collects is one it accepts and was true of the repository at one moment *)
(* (services/branch-snapshot.ts), and capability-comparison.ts finds a     *)
(* capability equivalent only where both sides were verified.              *)
(***************************************************************************)
EquivalenceIsEarned ==
  [][ /\ Asked("branches") => Branch!PortfolioIsSound(question'[1], question'[2])
      /\ Asked("assembly") =>
           Branch!AssemblyIsAccepted(<<GitOf(1, 1), GitOf(question'[4], question'[5])>>, <<question'[1], question'[2]>>,
                                     [map |-> question'[3], complete |-> TRUE], question'[6])
      /\ Asked("snapshot") =>
           \A git \in SnapshotGit : Snapshot!SnapshotIsOneState(SnapshotOptions(question'[4]), SnapshotMoments(question'), git)
      /\ Asked("capabilities") => Capability!EquivalenceIsEarned(question'[1], question'[2]) ]_rules

(***************************************************************************)
(* A plan that is made is one that can be carried out: every slice of      *)
(* delivery-plan-slices.ts comes after what it depends on and shares no    *)
(* path with another it is not ordered against; the envelope of            *)
(* subactor.ts runs no step without the approval, the binding and the      *)
(* rollback the plan promised, on steps the search of validation.ts found  *)
(* free of cycles; a proposal of tasks-llm.ts is grounded in what its      *)
(* diagnostics carry, from a payload that hangs together; a code change    *)
(* plan stays in the scope of its diagnostic; a diff makes the edit it was *)
(* written for or is refused; and an analysis stays in the budget of its   *)
(* policy (evaluation/analysis-policy.ts).                                 *)
(***************************************************************************)
PlansAreKept ==
  [][ /\ Asked("slices") => Slices!SlicesKeepThePlan(question')
      /\ Asked("operations") => Plan!EnvelopeKeepsPromises(question'[1], question'[2])
      /\ Asked("cycles") => Plan!SearchFindsCycles([i \in 1 .. 3 |-> [dependsOn |-> question'[i]]])
      /\ Asked("payload") => Synthesis!PayloadHangsTogether(SynthesisInput(question'))
      /\ Asked("synthesis") =>
           Synthesis!SynthesisIsGrounded(SynthesisInput([diagnostics |-> 2]), question'[1], <<question'[2], question'[3]>>)
      /\ Asked("changes") => \A diffs \in DiffsGiven : Change!PlansStayInScope(question', diffs)
      /\ Asked("edits") =>
           Change!DiffMakesTheEdit([lines |-> LinesOf(question'[1], question'[5]), newline |-> question'[6]],
                                   EditOf(question'[2], question'[5]), EditOf(question'[3], question'[5]), question'[4])
      /\ Asked("policy") =>
           \A other \in OtherPolicies(question') : Policy!AnalysisStaysInBudget(question', other, {1, 2}, CacheIdentities) ]_rules

(***************************************************************************)
(* A report says what the records back: a diagnostic of                    *)
(* graph/diagnostics.ts is about a record that has it, a topic that        *)
(* diff/reality.ts calls implemented has the declaration and the fact the  *)
(* linker joined, and a code change is closed only by diagnostics that are *)
(* gone and none that is new.  What somebody said is laid to them by the   *)
(* registry, whole and under its heading (extractors/communication.ts);    *)
(* what is held against them follows from what was said before a commit    *)
(* clears it (communication/analyzer.ts); and a model that enriches it     *)
(* takes nothing away (communication/llm.ts).  A preflight names every     *)
(* change there is and passes none that was not checked                    *)
(* (services/workspace-preflight.ts), no tampering with the events of a    *)
(* log gets past its reader (pipeline/event-log.ts), and what is logged of *)
(* GitHub is what it said (scripts/github-event-log.mjs).                  *)
(***************************************************************************)
ReportsAreBacked ==
  [][ /\ Asked("graph") => View!ReportIsGrounded(question') /\ View!CoverageIsBacked(question')
      /\ Asked("closing") => \A after \in DiagnosedAfter : Change!ClosingIsEarned(question', after)
      /\ Asked("files") =>
           \A requested \in {"none", "T", "S"}, files \in Registries : Talk!TalkIsAttributed(question', requested, files)
      /\ Asked("statements") => Talk!StatementsStayTogether(question')
      /\ Asked("analysis") =>
           \A third \in Thirds, commit \in Commits :
             Analysis!AnalysisIsFair([records |-> {question'[1], question'[2], third}, relations |-> {}], commit)
      /\ Asked("enrichment") =>
           \A first, second \in EnrichmentAnswers :
             Analysis!EnrichmentKeepsTheTalk(question'[1], question'[2], question'[3], <<first, second>>)
      /\ Asked("preflight") =>
           \A check \in GovernanceChecks :
             Preflight!PreflightIsFaithful("work", PreflightMoments(question'), {question'[1][n] : n \in DOMAIN question'[1]}, PreflightGit, GovernanceOf(check))
      /\ Asked("log") => Log!TamperEvident("run", question')
      /\ Asked("github") => \A options \in GithubOptions : Github!FactsComeFromThePayload(question'[1], question'[2], options) ]_rules
=============================================================================

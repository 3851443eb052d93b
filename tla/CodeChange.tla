----------------------------- MODULE CodeChange -----------------------------
(***************************************************************************)
(* Plans to change code, from a diagnostic to its acceptance: the paths a  *)
(* plan may name (synthesis/code-change-path.ts), the plans, their review, *)
(* their source patches and the verdict on them (code-change-plan-*.ts),   *)
(* and the text a unified diff makes of a file.                            *)
(*                                                                         *)
(* A path is its directories, its name split at the dots and its form      *)
(* ("relative", or what makes it no path of a repository); names are in    *)
(* small letters, and one name stands for each family that the code tells  *)
(* by a prefix or a suffix.  The plan of a diagnostic has its id.          *)
(***************************************************************************)
EXTENDS TaskSynthesis

NON_SOURCE_DIR_SEGMENTS ==
  {".git", ".hg", ".svn", ".venv", "venv", ".testvenv", "testvenv", ".tox", ".nox", ".mypy_cache", ".pytest_cache",
   ".ruff_cache", ".code2llm_cache", "__pycache__", "node_modules", "site-packages", "dist-packages", "dist", "build",
   "coverage", "htmlcov", ".eggs", "eggs", "vendor", "third_party", "third-party",
   ".intent", ".intent-run", "t2c.egg-info", "t2c.dist-info"}
BINARY_EXTENSIONS ==
  {"png", "jpg", "jpeg", "gif", "webp", "ico", "bmp", "tiff", "woff", "woff2", "ttf", "eot", "pdf", "mp4", "webm", "zip",
   "tar", "gz", "tgz", "whl", "egg", "so", "dylib", "dll", "pyc", "pyo", "class", "o", "a", "wasm", "sqlite", "db"}
GENERATED_ANALYSIS_BASENAMES ==
  {<<"analysis", "yaml">>, <<"analysis", "json">>, <<"flow", "png">>, <<"calls", "png">>, <<"calls", "yaml">>,
   <<"context", "md">>, <<"dashboard", "html">>, <<"index", "html">>, <<"prompt", "txt">>, <<"readme", "md">>}
T2C_ARTIFACT_BASENAMES ==
  {<<"code_change", "review", "json">>, <<"code_change", "review", "md">>, <<"code-change-plans", "json">>,
   <<"code-change-source-patches", "json">>, <<"communication-analysis", "json">>, <<"communication-analysis", "md">>,
   <<"diagnostics", "json">>, <<"intent", "graph", "json">>, <<"manifest", "json">>, <<"summary-conclusions", "json">>,
   <<"team-summary", "md">>, <<"todo-validation", "json">>, <<"todo", "patch">>, <<"todo", "patch", "json">>}
EXTENSIONLESS_SOURCE_BASENAMES ==
  {"dockerfile", "gemfile", "jenkinsfile", "justfile", "makefile", "procfile", "rakefile", "vagrantfile"}

\* A dump of an analysis, by its name or its ending.
IsAnalysisDump(name) ==
  name \in GENERATED_ANALYSIS_BASENAMES \/ Last(name) \in {"toon", "mmd", "json"} \/ IsSuffix(<<"toon", "yaml">>, name)

isPlannablePath(p) ==
  /\ p.form = "relative"
  /\ Range(p.dirs) \cap NON_SOURCE_DIR_SEGMENTS = {}
  /\ p.name \notin T2C_ARTIFACT_BASENAMES
  /\ ~(p.dirs = <<>> /\ p.name = <<"prompt", "txt">>)
  /\ Len(p.name) > 1 \/ p.name[1] \in EXTENSIONLESS_SOURCE_BASENAMES
  /\ ~(Last(p.name) \in BINARY_EXTENSIONS /\ ~(Len(p.name) = 2 /\ p.name[1] = ""))
  /\ p.dirs # <<>> => p.dirs[1] # ".koru" /\ ~(p.dirs[1] = "project" /\ IsAnalysisDump(p.name))
  /\ \A part \in Range(p.name) : part # "code2llm_incremental"

-----------------------------------------------------------------------------
\* What a plan is made from: records, diagnostics, conclusions and proposals,
\* whether the repository can be asked for a path, and those it has.
IMPLEMENTATION_DIAGNOSTIC_CODES == {"PLANNED_NOT_IMPLEMENTED", "CHANGELOG_WITHOUT_IMPLEMENTATION"}
Least(a, b) == IF a < b THEN a ELSE b
priorityFor(d) == Priorities[Rank(d.severity, Severities)]
PathsOf(targets) == {t[2] : t \in {u \in targets : u[1] = "path"}}
Related(i, d) == {r \in Range(i.records) : r.id \in d.recordIds}
Matching(items, d) == {x \in Range(items) : d.id \in x.diagnosticIds}

collectTarget(i, d) ==
  {p \in UNION {PathsOf(x.targets) : x \in Related(i, d) \cup Matching(i.proposals, d)} : isPlannablePath(p)}
hasExplicitCreateIntent(records) == \E r \in records : r.action = "add" \/ r.asksToCreate
Exists(i, p) == ~i.probed \/ p.form = "dots" \/ p \in i.files

\* As if a missing file were created for any intent that names it.
buildChanges_Creating(i, d) ==
  {[path |-> p, action |-> IF Exists(i, p) THEN "modify" ELSE "create"] : p \in collectTarget(i, d)}

buildChanges(i, d) ==
  {[path |-> p, action |-> IF Exists(i, p) THEN "modify" ELSE "create"] :
     p \in {q \in collectTarget(i, d) :
              Exists(i, q) \/ (q.dirs # <<>> /\ hasExplicitCreateIntent(Related(i, d)))}}

buildPlanFromDiagnostic(i, d) ==
  [id |-> d.id, priority |-> priorityFor(d), target |-> collectTarget(i, d), changes |-> buildChanges(i, d),
   graph |-> i.graph, diagnosticIds |-> {d.id}, recordIds |-> {r.id : r \in Related(i, d)},
   conclusionIds |-> {c.id : c \in Matching(i.conclusions, d)},
   proposalIds |-> {p.id : p \in Matching(i.proposals, d)}]

implementationDiagnosticRank(d) == IF d.code = "PLANNED_NOT_IMPLEMENTED" THEN 0 ELSE 1
Candidates(i) ==
  {d \in i.diagnostics : d.code \in IMPLEMENTATION_DIAGNOSTIC_CODES /\ Related(i, d) # {} /\ buildChanges(i, d) # {}}
\* sort: each of S behind those that come before it.
SortedBy(S, before) == [n \in 1 .. Cardinality(S) |-> CHOOSE x \in S : Cardinality({y \in S : <<y, x>> \in before}) = n - 1]
proposeCodeChangePlans(i) ==
  LET before == {p \in Candidates(i) \X Candidates(i) :
                   \/ implementationDiagnosticRank(p[1]) < implementationDiagnosticRank(p[2])
                   \/ implementationDiagnosticRank(p[1]) = implementationDiagnosticRank(p[2]) /\ p[1].id < p[2].id}
      planned == SortedBy(Candidates(i), before)
  IN [n \in 1 .. Least(Cardinality(Candidates(i)), i.maxPlans) |-> buildPlanFromDiagnostic(i, planned[n])]

\* assertCodeChangePlanValue against what is known, and the graph it is bound to.
PlanAccepted(plan, known, graph) ==
  /\ plan.changes # {} /\ {c.path : c \in plan.changes} \subseteq plan.target
  /\ \A c, e \in plan.changes : c.path = e.path => c = e
  /\ \A p \in plan.target : p.form \notin {"absolute", "dots"}
  /\ plan.recordIds # {} /\ plan.recordIds \subseteq known.recordIds
  /\ plan.diagnosticIds # {} /\ plan.diagnosticIds \subseteq known.diagnosticIds
  /\ plan.conclusionIds \subseteq known.conclusionIds /\ plan.proposalIds \subseteq known.proposalIds
  /\ plan.graph = graph
Known(i) ==
  [recordIds |-> Ids(i.records), diagnosticIds |-> Diagnosed(i), conclusionIds |-> Ids(i.conclusions),
   proposalIds |-> Ids(i.proposals)]
assertCodeChangePlans(i, plans) ==
  /\ Cardinality(Ids(plans)) = Len(plans)
  /\ \A plan \in Range(plans) : PlanAccepted(plan, Known(i), i.graph)

\* Persisted plans, whose evidence is checked against itself where it is not loaded.
assertCodeChangePlansForReview(plans, graph) ==
  /\ Cardinality(Ids(plans)) = Len(plans)
  /\ \A plan \in Range(plans) : PlanAccepted(plan, plan, graph)
assertCodeChangePlanForAcceptance(i, plan) ==
  PlanAccepted(plan, [Known(i) EXCEPT !.conclusionIds = plan.conclusionIds, !.proposalIds = plan.proposalIds], i.graph)

\* createCodeChangeReviewPatch: the order of the brief.
createCodeChangeReviewPatch(plans) ==
  LET before == {p \in Range(plans) \X Range(plans) :
                   \/ Rank(p[1].priority, Priorities) < Rank(p[2].priority, Priorities)
                   \/ p[1].priority = p[2].priority /\ p[1].id < p[2].id}
  IN SortedBy(Range(plans), before)

-----------------------------------------------------------------------------
\* createCodeChangeSourcePatch, with the diffs that were given for some paths.
DiffsAccepted(plan, diffs) ==
  /\ DOMAIN diffs \subseteq plan.target
  /\ \A p \in {c.path : c \in plan.changes} \cap DOMAIN diffs : diffs[p].headers \subseteq {p}
createCodeChangeSourcePatch(plan, diffs) ==
  [plan |-> plan.id, graph |-> plan.graph, diagnosticIds |-> plan.diagnosticIds, recordIds |-> plan.recordIds,
   edits |-> {[path |-> c.path, action |-> c.action,
               unifiedDiff |-> IF c.path \in DOMAIN diffs THEN {diffs[c.path]} ELSE {}] : c \in plan.changes}]
assertCodeChangeSourcePatch(patch, plan) ==
  /\ patch.edits # {}
  /\ \A e \in patch.edits : e.path.form \notin {"absolute", "dots"} /\ \A d \in e.unifiedDiff : d.headers \subseteq {e.path}
  /\ \A e, f \in patch.edits : e.path = f.path /\ e.action = f.action => e = f
  /\ patch.plan = plan.id /\ patch.graph = plan.graph
  /\ {e.path : e \in patch.edits} \subseteq plan.target
  /\ {<<e.path, e.action>> : e \in patch.edits} = {<<c.path, c.action>> : c \in plan.changes}
  /\ patch.diagnosticIds = plan.diagnosticIds /\ patch.recordIds = plan.recordIds
createCodeChangeSourcePatchSet(plans, diffs) ==
  LET sorted == SortedBy(Range(plans), {p \in Range(plans) \X Range(plans) : p[1].id < p[2].id})
  IN [n \in DOMAIN sorted |-> createCodeChangeSourcePatch(sorted[n], diffs)]

-----------------------------------------------------------------------------
\* As if a blocking diagnostic counted only when its code is new.
evaluateCodeChangeAcceptance_ByCode(plan, before, after) ==
  LET open == {d.id : d \in after}
      news == {d.id : d \in {e \in after : e.severity = "blocking" /\ \A b \in before : b.code # e.code}}
  IN [plan |-> plan.id, cleared |-> plan.diagnosticIds \ open, remaining |-> plan.diagnosticIds \cap open,
      newBlocking |-> news, accepted |-> plan.diagnosticIds \cap open = {} /\ news = {}]

\* evaluateCodeChangeAcceptance and closeCodeChanges, from the diagnostics
\* before and after.
evaluateCodeChangeAcceptance(plan, before, after) ==
  LET open == {d.id : d \in after}
      news == {d.id : d \in {e \in after : e.severity = "blocking" /\ \A b \in before : b.id # e.id}}
  IN [plan |-> plan.id, cleared |-> plan.diagnosticIds \ open, remaining |-> plan.diagnosticIds \cap open,
      newBlocking |-> news, accepted |-> plan.diagnosticIds \cap open = {} /\ news = {}]

assertCodeChangeAcceptance(i, verdict, plan, after) ==
  LET known == Diagnosed(i)
      open == {d.id : d \in after}
      blocking == {d.id : d \in {e \in after : e.severity = "blocking"}}
  IN /\ assertCodeChangePlanForAcceptance(i, plan) /\ verdict.plan = plan.id
     /\ verdict.cleared = plan.diagnosticIds \ open
     /\ verdict.remaining = plan.diagnosticIds \cap open
     /\ verdict.newBlocking = blocking \ known
     /\ verdict.accepted <=> verdict.remaining = {} /\ verdict.newBlocking = {}

closeCodeChanges(plans, before, after) ==
  LET verdicts == [n \in DOMAIN plans |-> evaluateCodeChangeAcceptance(plans[n], before, after)]
      accepted == Cardinality({n \in DOMAIN plans : verdicts[n].accepted})
  IN [acceptances |-> verdicts, acceptedCount |-> accepted, rejectedCount |-> Len(plans) - accepted,
      allAccepted |-> plans # <<>> /\ accepted = Len(plans)]

-----------------------------------------------------------------------------
\* applyUnifiedDiffToText.  A file is its lines and whether the last has a newline;
\* a line has a text and a kind: "plain", "--" or "++" where it begins so, "-- " or
\* "++ " where what comes next also reads as the path of another file, "crlf" where
\* it ends with a carriage return, and "secret" where it assigns one (or has a NUL).
\* A line of a hunk is a mark and the line of a file.
FileLine(text, kind) == [text |-> text, kind |-> kind]

\* normalizeUnifiedDiff: no line of a diff ends with a carriage return any more,
\* none may have a secret, and all that reads as a path is the path of the plan.
Normalized(line) == IF line.kind = "crlf" THEN FileLine(line.text, "plain") ELSE line
normalizeUnifiedDiff(hunks) ==
  [n \in DOMAIN hunks |->
     [hunks[n] EXCEPT !.lines = [k \in DOMAIN @ |-> <<@[k][1], Normalized(@[k][2])>>]]]
DiffAccepted(hunks) ==
  /\ hunks # <<>>
  /\ \A h \in Range(hunks) : \A l \in Range(h.lines) :
       l[2].kind # "secret" /\ <<l[1], l[2].kind>> \notin {<<"-", "-- ">>, <<"+", "++ ">>}

\* parseUnifiedDiffHunks, which takes a line for part of a header by how it begins.
isUnifiedDiffMetaLine(l) == <<l[1], l[2].kind>> \in {<<"-", "--">>, <<"-", "-- ">>, <<"+", "++">>, <<"+", "++ ">>}
parseUnifiedDiffHunks(hunks) ==
  [n \in DOMAIN hunks |-> [hunks[n] EXCEPT !.lines = SelectSeq(@, LAMBDA l : ~isUnifiedDiffMetaLine(l))]]

NoLines == [ok |-> TRUE, cursor |-> 0, output |-> <<>>]
Bodies(hunk, marks) ==
  LET HasMark(l) == l[1] \in marks
      lines == SelectSeq(hunk.lines, HasMark)
  IN [n \in DOMAIN lines |-> lines[n][2]]
\* As if nobody counted the lines of a hunk.
applyUnifiedDiffHunk_Uncounted(base, done, hunk) ==
  LET oldIndex == IF hunk.oldStart = 0 THEN 0 ELSE hunk.oldStart - 1
      old == Bodies(hunk, {" ", "-"})
      new == Bodies(hunk, {" ", "+"})
  IN IF /\ done.ok /\ done.cursor <= oldIndex /\ oldIndex + Len(old) <= Len(base)
        /\ SubSeq(base, oldIndex + 1, oldIndex + Len(old)) = old
     THEN [ok |-> TRUE, cursor |-> oldIndex + Len(old),
           output |-> done.output \o SubSeq(base, done.cursor + 1, oldIndex) \o new]
     ELSE [done EXCEPT !.ok = FALSE]

\* As if a hunk were put where its header says, whatever the file has there.
applyUnifiedDiffHunk_Unmatched(base, done, hunk) ==
  LET oldIndex == IF hunk.oldStart = 0 THEN 0 ELSE hunk.oldStart - 1
      new == Bodies(hunk, {" ", "+"})
  IN IF done.ok /\ done.cursor <= oldIndex /\ oldIndex + hunk.oldCount <= Len(base) /\ Len(new) = hunk.newCount
     THEN [ok |-> TRUE, cursor |-> oldIndex + hunk.oldCount,
           output |-> done.output \o SubSeq(base, done.cursor + 1, oldIndex) \o new]
     ELSE [done EXCEPT !.ok = FALSE]

applyUnifiedDiffHunk(base, done, hunk) ==
  LET oldIndex == IF hunk.oldStart = 0 THEN 0 ELSE hunk.oldStart - 1
      old == Bodies(hunk, {" ", "-"})
      new == Bodies(hunk, {" ", "+"})
  IN IF /\ done.ok /\ done.cursor <= oldIndex /\ oldIndex + Len(old) <= Len(base)
        /\ Len(old) = hunk.oldCount /\ Len(new) = hunk.newCount
        /\ SubSeq(base, oldIndex + 1, oldIndex + Len(old)) = old
     THEN [ok |-> TRUE, cursor |-> oldIndex + Len(old),
           output |-> done.output \o SubSeq(base, done.cursor + 1, oldIndex) \o new]
     ELSE [done EXCEPT !.ok = FALSE]

applyUnifiedDiffToText(base, diff) ==
  LET hunks == parseUnifiedDiffHunks(normalizeUnifiedDiff(diff))
      Step(done, hunk) == applyUnifiedDiffHunk(base.lines, done, hunk)
      done == FoldLeft(Step, NoLines, hunks)
      output == done.output \o SubSeq(base.lines, done.cursor + 1, Len(base.lines))
  IN [ok |-> DiffAccepted(diff) /\ done.ok, file |-> [lines |-> output, newline |-> base.newline /\ output # <<>>]]

-----------------------------------------------------------------------------
(***************************************************************************)
(* Plans stay in their scope (proposeCodeChangePlans and what is made of   *)
(* its result): a plan answers one open diagnostic about missing code and  *)
(* names only useful paths of the records and proposals of that            *)
(* diagnostic; it creates a file only on an intent to, and no file it      *)
(* could not find stays in it otherwise; no plan is left out for one of a  *)
(* lower rank; the set passes its own contract; and the review and the     *)
(* source patches hold every plan once, the patches nothing beyond it.     *)
(***************************************************************************)
PlansStayInScope(i, diffs) ==
  LET plans == proposeCodeChangePlans(i)
      of(id) == CHOOSE d \in i.diagnostics : d.id = id
      review == createCodeChangeReviewPatch(plans)
      patches == createCodeChangeSourcePatchSet(plans, diffs)
  IN /\ assertCodeChangePlans(i, plans) /\ assertCodeChangePlansForReview(plans, i.graph) /\ Len(plans) <= i.maxPlans
     /\ \A plan \in Range(plans) : \A c \in plan.changes :
          /\ of(plan.id).code \in IMPLEMENTATION_DIAGNOSTIC_CODES /\ isPlannablePath(c.path)
          /\ \/ \E r \in Range(i.records) : r.id \in plan.recordIds /\ <<"path", c.path>> \in r.targets
             \/ \E p \in Range(i.proposals) : plan.id \in p.diagnosticIds /\ <<"path", c.path>> \in p.targets
          /\ i.probed /\ c.path \notin i.files =>
               c.action = "create" /\ c.path.dirs # <<>> /\ \E r \in Range(i.records) :
                 r.id \in plan.recordIds /\ (r.action = "add" \/ r.asksToCreate)
          /\ i.probed /\ c.path \in i.files => c.action = "modify"
     /\ \A d \in i.diagnostics : \A plan \in Range(plans) :
          d.code = "PLANNED_NOT_IMPLEMENTED" /\ Related(i, d) # {} /\ buildChanges(i, d) # {} /\ d.id \notin Ids(plans) =>
            of(plan.id).code = d.code
     /\ Range(review) = Range(plans) /\ Len(review) = Len(plans) /\ Len(patches) = Len(plans)
     /\ \A k \in 2 .. Len(review) :
          Rank(review[k].priority, Priorities) >= Rank(review[k - 1].priority, Priorities)
     /\ (\A plan \in Range(plans) : DiffsAccepted(plan, diffs)) =>
          \A plan \in Range(plans) : \E p \in Range(patches) : assertCodeChangeSourcePatch(p, plan)

(***************************************************************************)
(* A plan is closed by evidence (closeCodeChanges): what is re-diagnosed   *)
(* as it was closes no plan; all plans are accepted only where there is    *)
(* one, none of their diagnostics is open any more and every blocking one  *)
(* was open before; with a diagnostic more, nothing more is accepted; and  *)
(* every verdict is the one its own contract computes.                     *)
(***************************************************************************)
ClosingIsEarned(i, after) ==
  LET plans == proposeCodeChangePlans(i)
      closed == closeCodeChanges(plans, i.diagnostics, after)
  IN /\ closeCodeChanges(plans, i.diagnostics, i.diagnostics).acceptedCount = 0
     /\ closed.acceptedCount + closed.rejectedCount = Len(plans)
     /\ \A n \in DOMAIN plans : assertCodeChangeAcceptance(i, closed.acceptances[n], plans[n], after)
     /\ closed.allAccepted =>
          /\ plans # <<>> /\ \A plan \in Range(plans) : plan.diagnosticIds \cap {d.id : d \in after} = {}
          /\ \A d \in after : d.severity = "blocking" => \E b \in i.diagnostics : b.id = d.id
     /\ \A d \in i.diagnostics : closeCodeChanges(plans, i.diagnostics, after \cup {d}).acceptedCount <= closed.acceptedCount

Marked(mark, lines) == [n \in DOMAIN lines |-> <<mark, lines[n]>>]

\* The hunk a diff program writes for one edit with some lines of context.
HunkOf(base, edit, context) ==
  LET first == edit.at - Least(context, edit.at)
      end == edit.at + edit.remove
      last == end + Least(context, Len(base) - end)
  IN [oldStart |-> IF last = first THEN first ELSE first + 1, oldCount |-> last - first,
      newCount |-> last - first - edit.remove + Len(edit.insert),
      lines |-> Marked(" ", SubSeq(base, first + 1, edit.at)) \o Marked("-", SubSeq(base, edit.at + 1, end))
                \o Marked("+", edit.insert) \o Marked(" ", SubSeq(base, end + 1, last))]

\* Where an edit ends up: a hunk without a line of the old file, away from its top,
\* has the number of the line before it, and is put before that line.
Landed(edit, hunk) ==
  [edit EXCEPT !.at = IF hunk.oldCount = 0 /\ hunk.oldStart > 0 THEN @ - 1 ELSE @]
Edited(lines, first, second) ==
  LET Body(edit) == [n \in DOMAIN edit.insert |-> Normalized(edit.insert[n])]
  IN SubSeq(lines, 1, first.at) \o Body(first) \o SubSeq(lines, first.at + first.remove + 1, second.at)
       \o Body(second) \o SubSeq(lines, second.at + second.remove + 1, Len(lines))
\* What the code cannot take from a diff: a line with a secret, a removed one that
\* begins with -- or an inserted one with ++, and an old one with a carriage return.
Unreadable(hunks) ==
  \E h \in Range(hunks) : \E l \in Range(h.lines) :
    l[2].kind = "secret" \/ isUnifiedDiffMetaLine(l) \/ (l[1] # "+" /\ l[2].kind = "crlf")

(***************************************************************************)
(* A diff makes the edit it was written for, or is refused                 *)
(* (applyUnifiedDiffToText): two edits of a file, each as the hunk a diff  *)
(* program writes for it, give the lines of the edited file, with the      *)
(* newline at its end that the file had before and without the carriage    *)
(* returns of inserted lines; a pure insertion without context comes out a *)
(* line early.  It is refused if a line of it cannot be read, if such an   *)
(* insertion would come before the end of the other edit, and on a file    *)
(* with another line where one is removed.                                 *)
(***************************************************************************)
DiffMakesTheEdit(base, first, second, context) ==
  LET hunks == <<HunkOf(base.lines, first, context), HunkOf(base.lines, second, context)>>
      one == Landed(first, hunks[1])
      two == Landed(second, hunks[2])
      edited == Edited(base.lines, one, two)
      changed == [base EXCEPT !.lines[first.at + 1] = FileLine("other", "plain")]
      made == applyUnifiedDiffToText(base, hunks)
  IN /\ made.ok <=> ~Unreadable(hunks) /\ one.at + one.remove <= two.at
     /\ made.ok => made.file = [lines |-> edited, newline |-> base.newline /\ edited # <<>>]
     /\ first.remove > 0 => ~applyUnifiedDiffToText(changed, hunks).ok
=============================================================================

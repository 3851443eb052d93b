------------------------- MODULE WorkspacePreflight -------------------------
(***************************************************************************)
(* The inspection of a workspace before work begins                        *)
(* (services/workspace-preflight.ts): what git and the governance checker  *)
(* say of it, read one after the other, and the verdict.                   *)
(*                                                                         *)
(* The workspace changes meanwhile: moments says what it is at each of the *)
(* reads, the baseline, HEAD, the branch, the status and the governance.   *)
(* What git says of two commits does not change.  A path has a name, which *)
(* may begin like an entry of git's listing (looks), and is safe or not.   *)
(***************************************************************************)
EXTENDS Integers, Sequences, FiniteSets, SequencesExt

None == "none"
Failed == {}  \* no report: WorkspacePreflightError

\* parsePorcelainV2: a listing is a sequence of parts, and a renamed entry has two.
entry(kind, path, original) == [kind |-> kind, path |-> path, original |-> original]
Malformed == {[kind |-> "malformed"]}
\* As if the original path were read as an entry.
parsePorcelainV2_OnePart(parts) ==
  LET from[n \in 1 .. Len(parts) + 1] ==
        IF n > Len(parts) THEN {}
        ELSE LET part == parts[n] IN
             CASE part.tag = "?" -> {entry("untracked", part.path, {})} \cup from[n + 1]
               [] part.tag = "!" -> from[n + 1]
               [] part.tag = "1" -> {entry("tracked", part.path, {})} \cup from[n + 1]
               [] part.tag = "u" -> {entry("conflicted", part.path, {})} \cup from[n + 1]
               [] part.tag = "2" /\ n < Len(parts) -> {entry("renamed", part.path, {parts[n + 1].path})} \cup from[n + 1]
               [] OTHER -> Malformed
  IN from[1]

parsePorcelainV2(parts) ==
  LET from[n \in 1 .. Len(parts) + 2] ==
        IF n > Len(parts) THEN {}
        ELSE LET part == parts[n] IN
             CASE part.tag = "?" -> {entry("untracked", part.path, {})} \cup from[n + 1]
               [] part.tag = "!" -> from[n + 1]
               [] part.tag = "1" -> {entry("tracked", part.path, {})} \cup from[n + 1]
               [] part.tag = "u" -> {entry("conflicted", part.path, {})} \cup from[n + 1]
               [] part.tag = "2" /\ n < Len(parts) -> {entry("renamed", part.path, {parts[n + 1].path})} \cup from[n + 2]
               [] OTHER -> Malformed
  IN from[1]
Paths(entries) == UNION {{e.path} \cup e.original : e \in entries}
ListingAccepted(parts) ==
  LET entries == parsePorcelainV2(parts) IN
  Malformed \cap entries = {} /\ \A p \in Paths(entries) : p.safe

\* governanceChangedPaths: what was committed since, and what is not committed.
governanceChangedPaths(committed, entries) == committed \cup Paths(entries)

\* runGovernance: the exit status has to agree with the report, and the report with
\* itself; the answer may depend on which paths it is asked about.
GovernanceAccepted(g) ==
  /\ g.exitCode \in {0, 1} /\ (g.exitCode = 0) = (g.status = "passed")
  /\ g.count = Cardinality(g.findings) /\ g.wellFormed

\* buildDiagnostics: the codes of errors, and the one warning.
Errors(facts) ==
  {c \in {"BRANCH", "SYNC", "DIRTY", "GOVERNANCE", "TICKET"} :
     CASE c = "BRANCH" -> facts.branch # facts.expectedBranch
       [] c = "SYNC" -> facts.behindBy > 0
       [] c = "DIRTY" -> facts.dirty # {}
       [] c = "GOVERNANCE" -> facts.governance.status = "failed" \/ facts.governance.findings # {}
       [] c = "TICKET" -> facts.governance.status = "failed" /\ facts.governance.ticket = None}
Warnings(facts) == IF facts.aheadBy > 0 /\ facts.behindBy = 0 THEN {"SYNC"} ELSE {}

actionsFor(codes) ==
  {a \in {"PRESERVE_CHANGES", "USE_ISOLATED_WORKTREE", "FAST_FORWARD_AFTER_PRESERVE", "RESOLVE_TICKET_SCOPE"} :
     CASE a = "PRESERVE_CHANGES" -> "DIRTY" \in codes
       [] a = "USE_ISOLATED_WORKTREE" -> {"BRANCH", "DIRTY"} \cap codes # {}
       [] a = "FAST_FORWARD_AFTER_PRESERVE" -> "SYNC" \in codes
       [] a = "RESOLVE_TICKET_SCOPE" -> {"GOVERNANCE", "TICKET"} \cap codes # {}}

\* inspectWorkspace: the report, or none.
inspectWorkspace(expectedBranch, moments, git, governance) ==
  LET baseline == moments[1].baseline
      head == moments[2].head
      dirty == parsePorcelainV2(moments[4].listing)
      asked == governanceChangedPaths(git[baseline, head].changed, dirty)
      checked == governance[asked]
      facts == [expectedBranch |-> expectedBranch, branch |-> moments[3].branch, aheadBy |-> git[baseline, head].ahead,
                behindBy |-> git[baseline, head].behind, dirty |-> dirty, governance |-> checked]
      report == [baseline |-> baseline, head |-> head, branch |-> facts.branch, dirty |-> dirty, asked |-> asked,
                 ticket |-> checked.ticket, errors |-> Errors(facts),
                 safeActions |-> actionsFor(Errors(facts) \cup Warnings(facts)),
                 verdict |-> IF Errors(facts) = {} THEN "PASS" ELSE "BLOCKED"]
  IN IF ListingAccepted(moments[4].listing) /\ GovernanceAccepted(checked) THEN {report} ELSE Failed

-----------------------------------------------------------------------------
(***************************************************************************)
(* A workspace that passes was fit for work when it was read               *)
(* (inspectWorkspace): the report tells every entry that git listed, with  *)
(* the old and the new path of one that is renamed and nothing that git    *)
(* did not list, whatever its paths look like; the governance is asked     *)
(* about all of these and about all that the two commits of the report     *)
(* differ in, even if a ref moves on meanwhile; and if the workspace stood *)
(* still, it passes exactly when it is clean, on its branch, not behind    *)
(* its baseline and approved of.  A change that could be lost is never to  *)
(* be fast-forwarded over before it is preserved.                          *)
(***************************************************************************)
PreflightIsFaithful(expectedBranch, moments, listed, git, governance) ==
  \A r \in inspectWorkspace(expectedBranch, moments, git, governance) :
    LET told == {<<e.kind, e.path, e.original>> : e \in r.dirty}
        now == moments[1]
        still == \A n \in DOMAIN moments : moments[n] = now
        known == git[r.baseline, r.head]
    IN /\ told = {<<e.kind, e.path, e.original>> : e \in listed}
       /\ known.changed \subseteq r.asked /\ \A e \in listed : {e.path} \cup e.original \subseteq r.asked
       /\ r.verdict = "PASS" =>
            /\ listed = {} /\ moments[3].branch = expectedBranch /\ known.behind = 0
            /\ governance[known.changed].exitCode = 0 /\ governance[known.changed].findings = {}
       /\ still /\ listed = {} /\ now.branch = expectedBranch /\ git[now.baseline, now.head].behind = 0
            /\ governance[r.asked].exitCode = 0 /\ governance[r.asked].findings = {} => r.verdict = "PASS"
       /\ listed # {} /\ "FAST_FORWARD_AFTER_PRESERVE" \in r.safeActions => "PRESERVE_CHANGES" \in r.safeActions
       /\ (r.safeActions = {} <=> r.verdict = "PASS" /\ known.ahead = 0)
=============================================================================

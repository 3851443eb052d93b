--------------------------- MODULE BranchSnapshot ---------------------------
(***************************************************************************)
(* The snapshot of some branches (services/branch-snapshot.ts): every ref  *)
(* is read, then what git says of the commits, then every ref once more.   *)
(*                                                                         *)
(* Refs move meanwhile: moments says what each ref is at each of the reads *)
(* of refs, Missing where it is gone or symbolic.  All else git says is of *)
(* commits, which do not change: changed has the paths of a commit against *)
(* its merge base, unsafe those of them that are absolute or have a dots   *)
(* segment; merge-tree exits with a code and with a tree or without one;   *)
(* and for the pairs of commits that are failing a command ends in an      *)
(* error: merge-base where they share no history, a diff, a patch identity *)
(* or a merge whose output is too large.  A ref has its place in the order *)
(* of code units (sort) and in that of the locale (localeCompare).         *)
(***************************************************************************)
EXTENDS Integers, Sequences, FiniteSets, SequencesExt

Missing == 0
MAX_CANDIDATES == 32
MAX_CHANGED_PATHS == 4096

\* validateOptions.
OptionsAccepted(options) ==
  /\ Len(options.candidateRefs) \in 1 .. MAX_CANDIDATES
  /\ options.baseRef \notin Range(options.candidateRefs) /\ IsInjective(options.candidateRefs)

ByCode(l, r) == l.code < r.code
\* sort: each of the refs behind those that come before it.
InOrder(refs) == [n \in 1 .. Cardinality(refs) |-> CHOOSE r \in refs : Cardinality({s \in refs : ByCode(s, r)}) = n - 1]
Refs(options) == InOrder({options.baseRef} \cup Range(options.candidateRefs))
CandidateRefs(options) == InOrder(Range(options.candidateRefs))

\* captureRef of every ref, in their order, and assertRefsUnchanged in the same.
Captured(options, moments) == [n \in DOMAIN Refs(options) |-> moments[n][Refs(options)[n]]]
\* As if a move of the base were all that matters.
assertRefsUnchanged_Base(options, moments) ==
  LET refs == Refs(options) IN
  \A n \in DOMAIN refs : refs[n] = options.baseRef => moments[Len(refs) + n][refs[n]] = Captured(options, moments)[n]

assertRefsUnchanged(options, moments) ==
  LET refs == Refs(options) IN
  \A n \in DOMAIN refs : moments[Len(refs) + n][refs[n]] = Captured(options, moments)[n]
requiredSnapshot(options, moments, ref) ==
  Captured(options, moments)[CHOOSE n \in DOMAIN Refs(options) : Refs(options)[n] = ref]

classifyMergeTreeResult(result) ==
  IF result.exitCode = 0 /\ result.tree THEN "clean"
  ELSE IF result.exitCode = 1 /\ result.tree THEN "conflict" ELSE "unknown"
pathsOverlap(l, r) == l.changedPaths \cap r.changedPaths # {}

\* captureCandidate, which fails with git, and with a path or a number of paths that
\* readChangedPaths refuses; and captureInteractions: two that share no path are not
\* merged.
CandidateReadable(base, sha, git) ==
  /\ <<base, sha>> \notin git.failing
  /\ Cardinality(git.changed[sha]) <= MAX_CHANGED_PATHS /\ git.changed[sha] \cap git.unsafe = {}
captureCandidate(base, ref, sha, git) ==
  [ref |-> ref, headSha |-> sha, against |-> base, changedPaths |-> git.changed[sha],
   baseTextualMerge |-> classifyMergeTreeResult(git.merge)]
Pairs(S) == {p \in (1 .. Len(S)) \X (1 .. Len(S)) : p[1] < p[2]}
InteractionsReadable(candidates, git) ==
  \A p \in Pairs(candidates) :
    pathsOverlap(candidates[p[1]], candidates[p[2]]) =>
      <<candidates[p[1]].headSha, candidates[p[2]].headSha>> \notin git.failing
captureInteractions(candidates, git) ==
  [p \in Pairs(candidates) |->
     [left |-> candidates[p[1]].ref, right |-> candidates[p[2]].ref, merged |-> pathsOverlap(candidates[p[1]], candidates[p[2]]),
      textualMerge |-> IF pathsOverlap(candidates[p[1]], candidates[p[2]])
                       THEN classifyMergeTreeResult(git.merge) ELSE "clean"]]

\* assertBranchGitMaterialization, with the locale's order for a pair.
assertBranchGitMaterialization(m) ==
  /\ Len(m.candidates) \in 1 .. MAX_CANDIDATES
  /\ \A k \in DOMAIN m.candidates :
       m.candidates[k].ref # m.base /\ \A l \in 1 .. k - 1 : ByCode(m.candidates[l].ref, m.candidates[k].ref)
  /\ DOMAIN m.interactions = Pairs(m.candidates)
  /\ \A p \in DOMAIN m.interactions :
       /\ m.interactions[p].left = m.candidates[p[1]].ref /\ m.interactions[p].right = m.candidates[p[2]].ref
       /\ m.interactions[p].left.locale < m.interactions[p].right.locale

\* materializeBranchGitSnapshot: the snapshot, or none.
materializeBranchGitSnapshot(options, moments, git) ==
  LET base == requiredSnapshot(options, moments, options.baseRef)
      candidates ==
        [n \in DOMAIN CandidateRefs(options) |->
           captureCandidate(base, CandidateRefs(options)[n], requiredSnapshot(options, moments, CandidateRefs(options)[n]), git)]
      result == [base |-> options.baseRef, sha |-> base, candidates |-> candidates,
                 interactions |-> captureInteractions(candidates, git)]
  IN IF /\ OptionsAccepted(options) /\ Missing \notin Range(Captured(options, moments))
        /\ \A n \in DOMAIN candidates : CandidateReadable(base, candidates[n].headSha, git)
        /\ InteractionsReadable(candidates, git) /\ assertRefsUnchanged(options, moments)
     THEN {m \in {result} : assertBranchGitMaterialization(m)} ELSE {}

-----------------------------------------------------------------------------
\* A ref that leaves a commit and comes back to it.
CameBack(moments, ref) ==
  \E i, j, k \in DOMAIN moments : i < j /\ j < k /\ moments[i][ref] = moments[k][ref] /\ moments[j][ref] # moments[i][ref]
StoodStill(moments) == \A n \in DOMAIN moments : moments[n] = moments[1]

(***************************************************************************)
(* A snapshot is of one state of the repository                            *)
(* (materializeBranchGitSnapshot, with assertRefsUnchanged): whatever      *)
(* moves while it is taken, unless a ref leaves its commit and comes back  *)
(* to it, there was a moment at which every ref was what the snapshot says *)
(* it was; every candidate is compared with the base of the snapshot and   *)
(* changes nothing git could not be read for; every pair of candidates is  *)
(* there once, and is called clean without a merge only where the two      *)
(* share no path; and where nothing moved, the two orders agree on the     *)
(* refs and git answers all that is asked of it with paths that are safe   *)
(* and not too many, there is a snapshot.                                  *)
(***************************************************************************)
SnapshotIsOneState(options, moments, git) ==
  LET snapshots == materializeBranchGitSnapshot(options, moments, git)
      refs == Range(Refs(options))
      Agree == \A r, s \in refs : r.code < s.code <=> r.locale < s.locale
  IN /\ \A m \in snapshots :
          /\ (\A r \in refs : ~CameBack(moments, r)) =>
               \E n \in DOMAIN moments :
                 /\ moments[n][options.baseRef] = m.sha
                 /\ \A c \in Range(m.candidates) : moments[n][c.ref] = c.headSha
          /\ \A c \in Range(m.candidates) :
               c.against = m.sha /\ <<m.sha, c.headSha>> \notin git.failing /\ c.changedPaths \cap git.unsafe = {}
          /\ {c.ref : c \in Range(m.candidates)} = Range(options.candidateRefs)
          /\ \A c, d \in Range(m.candidates) : c # d =>
               \E i \in Range(m.interactions) :
                 /\ {i.left, i.right} = {c.ref, d.ref}
                 /\ i.textualMerge = "clean" =>
                      (git.merge.exitCode = 0 /\ git.merge.tree) \/ c.changedPaths \cap d.changedPaths = {}
     /\ /\ OptionsAccepted(options) /\ StoodStill(moments) /\ Missing \notin Range(moments[1]) /\ Agree
        /\ git.failing = {}
        /\ \A ref \in Range(options.candidateRefs) : LET paths == git.changed[moments[1][ref]] IN
             Cardinality(paths) <= MAX_CHANGED_PATHS /\ paths \cap git.unsafe = {}
        => snapshots # {}
=============================================================================

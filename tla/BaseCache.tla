----------------------------- MODULE BaseCache -----------------------------
(***************************************************************************)
(* Comparing the work tree with a base commit (comparison/workspace.ts)    *)
(* over the cache of base runs (comparison/workspace-base-cache.ts).       *)
(*                                                                         *)
(* The entry is the directory of one cache key, a file for each artifact   *)
(* of a base run; what a file holds is the run it belongs to.  Every       *)
(* comparison that misses computes a run of its own, named after it.       *)
(* Reads and writes of the three files go on side by side, so they come in *)
(* any order; removal takes them one by one, and only a rename puts all of *)
(* them in place at once.                                                  *)
(***************************************************************************)
EXTENDS Integers, FiniteSets

CONSTANTS Comparison, \* comparisons that share a cache key
          Earlier,    \* the base run of an earlier comparison
          Missing

BaseFile == {"graph", "diagnostics", "manifest"}
Linked == {"graph", "diagnostics"}  \* read back, and linked into the result
BaseRun == Comparison \cup {Earlier}
Empty == [f \in BaseFile |-> Missing]

VARIABLES entry,     \* the directory of the cache key
          doing,     \* where each comparison is
          left,      \* the files its current step has yet to do
          base,      \* the base run it has in memory, file by file
          linked,    \* the base files beside its result
          overlap,   \* comparisons that saw another write to the entry, history
          merged     \* whether two ever wrote into one directory, history

cacheVars == <<entry, doing, left, base, linked, overlap, merged>>

Doing == {"idle", "read", "clear", "compute", "replace", "rename", "copy", "reread",
          "current", "link", "compared", "failed", "killed"}

\* Any part of an earlier entry may have been left by a removal that died.
CacheInit ==
  /\ entry \in [BaseFile -> {Missing, Earlier}]
  /\ doing = [c \in Comparison |-> "idle"]
  /\ left = [c \in Comparison |-> {}]
  /\ base = [c \in Comparison |-> Empty]
  /\ linked = [c \in Comparison |-> Empty]
  /\ overlap = {} /\ merged = FALSE

-----------------------------------------------------------------------------
Begin(c, step, files) ==
  /\ doing' = [doing EXCEPT ![c] = step]
  /\ left' = [left EXCEPT ![c] = files]

\* A step over several files goes on until the last of them.
Each(c, f, step) ==
  /\ doing[c] = step /\ f \in left[c]
  /\ left' = [left EXCEPT ![c] = @ \ {f}]

Store(c, files) ==
  /\ entry' = files
  /\ overlap' = IF files = entry THEN overlap
                ELSE overlap \cup {d \in Comparison \ {c} :
                       doing[d] \notin {"idle", "compute", "compared", "failed", "killed"}}

OpenCache(c) ==
  /\ doing[c] = "idle"
  /\ Begin(c, "read", BaseFile)
  /\ UNCHANGED <<entry, base, linked, overlap, merged>>

\* readVerifiedCachedBaseRun, a file at a time; a missing one rejects the rest.
ReadCached(c, f) ==
  /\ Each(c, f, "read")
  /\ base' = [base EXCEPT ![c][f] = entry[f]]
  /\ UNCHANGED <<entry, doing, linked, overlap, merged>>

\* As if only the graph were verified.
Hit_GraphOnly(c) ==
  /\ doing[c] = "read" /\ left[c] = {}
  /\ base[c]["graph"] # Missing
  /\ Begin(c, "current", {})
  /\ UNCHANGED <<entry, base, linked, overlap, merged>>

\* All files parse and the fingerprint of the graph is its own: a hit.  That
\* the diagnostics and the manifest belong to this graph is not checked.
Hit(c) ==
  /\ doing[c] = "read" /\ left[c] = {}
  /\ \A f \in BaseFile : base[c][f] # Missing
  /\ Begin(c, "current", {})
  /\ UNCHANGED <<entry, base, linked, overlap, merged>>

Miss(c) ==
  /\ doing[c] = "read"
  /\ \E f \in BaseFile \ left[c] : base[c][f] = Missing
  /\ Begin(c, "clear", BaseFile)
  /\ UNCHANGED <<entry, base, linked, overlap, merged>>

\* fs.rm of the directory: after a miss, and again before the rename.
Remove(c, f) ==
  /\ Each(c, f, doing[c]) /\ doing[c] \in {"clear", "replace"}
  /\ Store(c, [entry EXCEPT ![f] = Missing])
  /\ UNCHANGED <<doing, base, linked, merged>>

Cleared(c) ==
  /\ doing[c] \in {"clear", "replace"} /\ left[c] = {}
  /\ Begin(c, IF doing[c] = "clear" THEN "compute" ELSE "rename", {})
  /\ UNCHANGED <<entry, base, linked, overlap, merged>>

\* The base pipeline runs in a worktree of its own, and its artifacts are
\* staged beside the entry, where nobody else looks.
Compute(c) ==
  /\ doing[c] = "compute"
  /\ base' = [base EXCEPT ![c] = [f \in BaseFile |-> c]]
  /\ Begin(c, "replace", BaseFile)
  /\ UNCHANGED <<entry, linked, overlap, merged>>

\* The staged directory takes the place of the entry if that is empty.
Rename(c) ==
  /\ doing[c] = "rename" /\ entry = Empty
  /\ Store(c, base[c])
  /\ Begin(c, "reread", Linked)
  /\ UNCHANGED <<base, linked, merged>>

\* Another entry came in between: copy into it, file by file.
FallBack(c) ==
  /\ doing[c] = "rename" /\ entry # Empty
  /\ merged' = TRUE
  /\ Begin(c, "copy", BaseFile)
  /\ UNCHANGED <<entry, base, linked, overlap>>

CopyIn(c, f) ==
  /\ Each(c, f, "copy")
  /\ Store(c, [entry EXCEPT ![f] = c])
  /\ UNCHANGED <<doing, base, linked, merged>>

Copied(c) ==
  /\ doing[c] = "copy" /\ left[c] = {}
  /\ Begin(c, "reread", Linked)
  /\ UNCHANGED <<entry, base, linked, overlap, merged>>

\* writeCachedBaseRun reads back what is in the entry now.
ReadBack(c, f) ==
  /\ Each(c, f, "reread") /\ entry[f] # Missing
  /\ base' = [base EXCEPT ![c][f] = entry[f]]
  /\ UNCHANGED <<entry, doing, linked, overlap, merged>>

Resolved(c) ==
  /\ doing[c] = "reread" /\ left[c] = {}
  /\ Begin(c, "current", {})
  /\ UNCHANGED <<entry, base, linked, overlap, merged>>

\* runPipeline over the work tree.
RunCurrent(c) ==
  /\ doing[c] = "current"
  /\ Begin(c, "link", Linked)
  /\ UNCHANGED <<entry, base, linked, overlap, merged>>

\* buildAndPersistComparison links the base files from the entry, by path.
LinkBase(c, f) ==
  /\ Each(c, f, "link") /\ entry[f] # Missing
  /\ linked' = [linked EXCEPT ![c][f] = entry[f]]
  /\ UNCHANGED <<entry, doing, base, overlap, merged>>

Compared(c) ==
  /\ doing[c] = "link" /\ left[c] = {}
  /\ Begin(c, "compared", {})
  /\ UNCHANGED <<entry, base, linked, overlap, merged>>

\* A pipeline fails or is aborted by the deadline, or a file is gone.
Fail(c) ==
  /\ \/ doing[c] \in {"compute", "current"}
     \/ doing[c] \in {"reread", "link"} /\ \E f \in left[c] : entry[f] = Missing
  /\ Begin(c, "failed", {})
  /\ UNCHANGED <<entry, base, linked, overlap, merged>>

Kill(c) ==
  /\ doing[c] \notin {"idle", "compared", "failed", "killed"}
  /\ Begin(c, "killed", {})
  /\ UNCHANGED <<entry, base, linked, overlap, merged>>

ComparisonStep(c) ==
  \/ OpenCache(c) \/ Hit(c) \/ Miss(c) \/ Cleared(c) \/ Compute(c) \/ Rename(c) \/ FallBack(c)
  \/ Copied(c) \/ Resolved(c) \/ RunCurrent(c) \/ Compared(c) \/ Fail(c) \/ Kill(c)
  \/ \E f \in BaseFile :
       ReadCached(c, f) \/ Remove(c, f) \/ CopyIn(c, f) \/ ReadBack(c, f) \/ LinkBase(c, f)

CacheNext == \E c \in Comparison : ComparisonStep(c)

CacheSpec == CacheInit /\ [][CacheNext]_cacheVars

-----------------------------------------------------------------------------
(***************************************************************************)
(* A comparison is made with one base run (resolveOrComputeBaseRun): the   *)
(* graph, the diagnostics and the manifest it has in memory and the base   *)
(* files beside its result are of the same run, a cached or a fresh one,   *)
(* whatever partial entry it found and whoever died while renewing it.     *)
(* Only what the code does not exclude can mix two runs: another           *)
(* comparison that renews the entry meanwhile, or one that once copied     *)
(* its files into the entry of another.                                    *)
(***************************************************************************)
BaseIsWhole ==
  \A c \in Comparison \ overlap : doing[c] = "compared" /\ ~merged =>
    \E run \in BaseRun :
      /\ base[c] = [f \in BaseFile |-> run]
      /\ \A f \in Linked : linked[c][f] = run
=============================================================================

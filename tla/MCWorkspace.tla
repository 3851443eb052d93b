----------------------------- MODULE MCWorkspace -----------------------------
(***************************************************************************)
(* The parts that work on one repository, each in a scene of its own:      *)
(* source patches, the watch loop, pipeline runs, the base cache and the   *)
(* LLM client.  They share no state but the tree, which each of them lets  *)
(* others change; the parts of the other scenes stand still.               *)
(***************************************************************************)
EXTENDS SourcePatch, Watch, PipelineRun, BaseCache, LlmClient

CONSTANTS p1, p2, p3, h1, s1, s2, f1, f2, r1, r2, g1, g2

\* Three patches: one that creates a file, one of a single file, one that
\* deletes a file; h1 is an edit of a person in the context of the first.
MCEdits == [p \in Patch |->
  CASE p = p1 -> <<[path |-> f1, action |-> "modify", fresh |-> FALSE],
                   [path |-> f2, action |-> "create", fresh |-> TRUE]>>
    [] p = p2 -> <<[path |-> f1, action |-> "modify", fresh |-> FALSE]>>
    [] p = p3 -> <<[path |-> f1, action |-> "delete", fresh |-> FALSE],
                   [path |-> f2, action |-> "modify", fresh |-> TRUE]>>]
MCUnfit == [p \in Patch |-> {p} \cup (IF p = p1 THEN {h1} ELSE {})]
MCOrders ==
  [patch : {p1}, approved : {p1}, diffed : BOOLEAN, slot : {s1, s2}] \cup
  {[patch |-> p, approved |-> p, diffed |-> TRUE, slot |-> s1] : p \in {p2, p3}} \cup
  {[patch |-> p1, approved |-> p2, diffed |-> TRUE, slot |-> s1]}

MCWalk == <<"a", "b", "latest.json", "z">>

MCResults == [a \in Audited |->
  CASE a = "taskSynthesis" -> {"skipped", "succeeded"}
    [] a = "summary" -> {"succeeded", "degraded"}
    [] OTHER -> {"succeeded"}]

-----------------------------------------------------------------------------
VARIABLE scene

vars == <<scene, sourceVars, watchVars, pipelineVars, cacheVars, llmVars>>

\* Where a part has several initial states, all but the scene's own start in
\* one of them.
MCInit ==
  /\ scene \in {"patch", "watch", "pipeline", "registration", "cache", "llm"}
  /\ SourceInit /\ (scene = "patch" \/ tree = [f \in File |-> {}])
  /\ WatchInit /\ (scene = "watch" \/ disk = Nothing)
  /\ disk["latest.json"] = Gone
  /\ PipelineInit
  /\ CacheInit /\ (scene = "cache" \/ entry = Empty)
  /\ LlmInit /\ (scene = "llm" \/ <<kind, label>> = <<"text", "Z.AI">>)

PatchScene == scene = "patch" /\ SourceNext /\ UNCHANGED <<scene, watchVars, pipelineVars, cacheVars, llmVars>>
Still == UNCHANGED <<scene, sourceVars, pipelineVars, cacheVars, llmVars>>
WatchScene == scene = "watch" /\ WatchNext /\ Still
CacheScene == scene = "cache" /\ CacheNext /\ UNCHANGED <<scene, sourceVars, watchVars, pipelineVars, llmVars>>
LlmScene == scene = "llm" /\ LlmNext /\ UNCHANGED <<scene, sourceVars, watchVars, pipelineVars, cacheVars>>

\* Two runs race, or two registrations in the manifest of one.  Stages touch
\* nothing that is shared, so those of one run come before those of the other.
PipelineScene ==
  /\ \/ scene = "pipeline" /\ \E r \in Run : (r = r2 => ~At(r1, "stages")) /\ RunStep(r)
     \/ scene = "registration" /\ (RunStep(r1) \/ \E g \in Registrar : Registration(g))
  /\ UNCHANGED <<scene, sourceVars, watchVars, cacheVars, llmVars>>

MCNext == PatchScene \/ WatchScene \/ PipelineScene \/ CacheScene \/ LlmScene

MCSpec == MCInit /\ [][MCNext]_vars
          /\ WF_vars(scene = "watch" /\ WatchLoop /\ Still)
          /\ WF_vars(scene = "watch" /\ Tick /\ Still)

(***************************************************************************)
(* The watch loop of watch/watcher.ts comes to rest after the last edit,   *)
(* with a report on the files as they are: WatchSettles of Watch, in the   *)
(* scene it is about.                                                      *)
(***************************************************************************)
WatchLoopSettles == scene = "watch" => WatchSettles
=============================================================================

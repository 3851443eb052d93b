---------------------------- MODULE PipelineRun ----------------------------
(***************************************************************************)
(* A pipeline run and what it leaves on disk (pipeline/pipeline-run.ts,    *)
(* run-helpers.ts, event-log-persistence.ts): fourteen stages, each with   *)
(* an audit or a failure; the outputs, the manifest, the event log and     *)
(* latest.json, in this order; and the failed manifest that takes their    *)
(* place when a stage throws.  Later actions register further files in the *)
(* manifest of a run that has ended (services/actions.ts).                 *)
(*                                                                         *)
(* An audit is "skipped", "succeeded" or "degraded".  What a stage yields  *)
(* is not modelled; files written in place are "torn" while a writer is    *)
(* between the truncation and its write, or dies there.                    *)
(***************************************************************************)
EXTENDS Integers, Sequences, FiniteSets, EventLog

CONSTANTS Run,        \* runs, each with its directory
          Registrar,  \* calls of registerRunArtifacts
          Results,    \* the audits each audited stage may end with
          Throws,     \* the stages that may throw
          Faults,     \* "crash" and "unwritten" files, if any
          None, Torn

Stages == <<"naturalLanguageExtraction", "gitExtraction", "astExtraction",
            "markdownExtraction", "documentationExtraction", "configurationExtraction",
            "runtimeExtraction", "communicationAnalysis", "linking", "diagnostics",
            "taskSynthesis", "todoRendering", "codeChangePlanning", "summary">>
Audited == {"naturalLanguageExtraction", "markdownExtraction", "documentationExtraction",
            "communicationAnalysis", "taskSynthesis", "codeChangePlanning", "summary"}
Audit == {"skipped", "succeeded", "degraded"}

\* A cycle file that cannot be read only warns.
PipelineAssumption ==
  /\ Results \in [Audited -> (SUBSET Audit) \ {{}}]
  /\ Throws \subseteq {Stages[i] : i \in 1 .. Len(Stages)} \ {"runtimeExtraction"}
  /\ Faults \subseteq {"crash", "unwritten"}
ASSUME PipelineAssumption

VARIABLES stage,     \* how many stages a run has begun
          audits,    \* the audits of its completed stages
          failedAt,  \* the stage that threw
          persisting,\* where it is after its stages
          outputs,   \* what it has written of its results
          manifest, latest,
          eventLog,  \* the event log of a run, no or one document
          writing,   \* who is between the truncation and the write of latest.json
          registrar  \* what each registration does

pipelineVars == <<stage, audits, failedAt, persisting, outputs, manifest, eventLog,
                  latest, writing, registrar>>

Persisting == {"stages", "intents", "required", "optional", "manifest", "log", "latest",
               "failing", "failed log", "returned", "threw", "broken", "dead"}

PipelineInit ==
  /\ stage = [r \in Run |-> 1]
  /\ audits = [r \in Run |-> [a \in {} |-> None]]
  /\ failedAt = [r \in Run |-> None]
  /\ persisting = [r \in Run |-> "stages"]
  /\ outputs = [r \in Run |-> {}]
  /\ manifest = [r \in Run |-> None]
  /\ eventLog = [r \in Run |-> {}]
  /\ latest = None /\ writing = {}
  /\ registrar = [g \in Registrar |-> [at |-> "idle"]]

-----------------------------------------------------------------------------
To(r, next) == persisting' = [persisting EXCEPT ![r] = next]
At(r, where) == persisting[r] = where
active(r) == Stages[stage[r]]
Complete(r, a, result) == [n \in DOMAIN audits[r] \cup {a} |-> IF n = a THEN result ELSE audits[r][n]]

\* todoRendering happens only behind a task synthesis that was not disabled.
Skipped(r) == active(r) = "todoRendering" /\ audits[r]["taskSynthesis"] = "skipped"

\* One stage of execute: its audit is kept, and degraded results go on.
RunStage(r) ==
  /\ At(r, "stages")
  /\ IF active(r) \in Audited
     THEN \E result \in Results[active(r)] :
            audits' = [audits EXCEPT ![r] = Complete(r, active(r), result)]
     ELSE UNCHANGED audits
  /\ IF stage[r] = Len(Stages)
     THEN To(r, "intents") /\ UNCHANGED stage
     ELSE stage' = [stage EXCEPT ![r] = @ + 1] /\ UNCHANGED persisting
  /\ UNCHANGED <<failedAt, outputs, manifest, eventLog, latest, writing, registrar>>

\* A stage throws: the catch of run.
Throw(r) ==
  /\ At(r, "stages") /\ active(r) \in Throws /\ ~Skipped(r)
  /\ To(r, "failing") /\ failedAt' = [failedAt EXCEPT ![r] = active(r)]
  /\ UNCHANGED <<stage, audits, outputs, manifest, eventLog, latest, writing, registrar>>

\* writeIntentFiles, writeRequiredOutputs, writeOptionalOutputs.
Following == [intents |-> "required", required |-> "optional", optional |-> "manifest"]
WriteOutputs(r) ==
  /\ persisting[r] \in DOMAIN Following
  /\ outputs' = [outputs EXCEPT ![r] = @ \cup {persisting[r]}]
  /\ To(r, Following[persisting[r]])
  /\ UNCHANGED <<stage, audits, failedAt, manifest, eventLog, latest, writing, registrar>>

\* createManifest: degraded when a stage is.
Status(as) == IF \E a \in DOMAIN as : as[a] = "degraded" THEN "degraded" ELSE "succeeded"
createManifest(r) ==
  [status |-> Status(audits[r]), failure |-> None, stages |-> audits[r], files |-> {"eventLog"}]

WriteManifest(r) ==
  /\ At(r, "manifest")
  /\ manifest' = [manifest EXCEPT ![r] = createManifest(r)]
  /\ To(r, "log")
  /\ UNCHANGED <<stage, audits, failedAt, outputs, eventLog, latest, writing, registrar>>

-----------------------------------------------------------------------------
\* As if the digest covered the file list too.
Evidence_WithFiles(m) ==
  [status |-> m.status, failure |-> m.failure, stages |-> m.stages, files |-> m.files]

\* canonicalPipelineManifestEvidence: the files of a manifest change later.
Evidence(m) == [status |-> m.status, failure |-> m.failure, stages |-> m.stages]

Outcome(m) == CASE m.status = "succeeded" -> "PASSED"
                [] m.status = "degraded" -> "DEGRADED"
                [] OTHER -> "FAILED"

PipelineEvent(id, type, trust, outcome, evidence) ==
  [eventId |-> id, recordedAt |-> 0, source |-> 0, type |-> type,
   trustClass |-> trust, outcome |-> outcome, evidence |-> evidence, sound |-> TRUE]

\* What the diagnostics file of a run may say: nothing, or diagnostics, blocking
\* ones or not.  A failed manifest names no such file.
Raised(m) == IF m.status = "failed" THEN {{}} ELSE {{}, {"DEGRADED"}, {"BLOCKED"}}

\* The analysis itself, the diagnostics it raised, and the analysis again as
\* inference when a model took part.
PipelineEvents(m, raised, byModel) ==
  <<PipelineEvent(1, "analysis.completed", "SYSTEM_FACT", Outcome(m), Evidence(m))>> \o
  (IF raised = {} THEN <<>>
   ELSE <<PipelineEvent(2, "diagnostic.raised", "SYSTEM_FACT", CHOOSE o \in raised : TRUE, "diagnostics.json")>>) \o
  (IF byModel THEN <<PipelineEvent(3, "analysis.completed", "ADVISORY_INFERENCE", Outcome(m), Evidence(m))>> ELSE <<>>)

\* persistPipelineEventLog: the manifest is read back, and an event log that
\* exists is only replaced by a run that fails.
PersistLog(r, replaceUnfinished, next) ==
  /\ manifest[r] \notin {None, Torn}
  /\ replaceUnfinished \/ eventLog[r] = {}
  /\ \E raised \in Raised(manifest[r]), byModel \in BOOLEAN :
       \E doc \in createEventLog(r, PipelineEvents(manifest[r], raised, byModel)) :
         eventLog' = [eventLog EXCEPT ![r] = {doc}]
  /\ To(r, next)
  /\ UNCHANGED <<stage, audits, failedAt, outputs, manifest, latest, writing, registrar>>

WriteLog(r) == At(r, "log") /\ PersistLog(r, FALSE, "latest")

\* latest.json is written in place, without a lock between runs.
TruncateLatest(r) ==
  /\ At(r, "latest") /\ r \notin writing
  /\ writing' = writing \cup {r} /\ latest' = Torn
  /\ UNCHANGED <<stage, audits, failedAt, persisting, outputs, manifest, eventLog, registrar>>

WriteLatest(r) ==
  /\ At(r, "latest") /\ r \in writing
  /\ writing' = writing \ {r} /\ latest' = r
  /\ To(r, "returned")
  /\ UNCHANGED <<stage, audits, failedAt, outputs, manifest, eventLog, registrar>>

\* persistFailedRun: completed stages keep their audits, the one that threw is
\* failed, the others are skipped; a failed one is degraded.
FailedManifest(r) ==
  [status |-> "failed", failure |-> failedAt[r], files |-> {"eventLog"},
   stages |-> [a \in Audited |-> IF a \in DOMAIN audits[r] THEN audits[r][a]
                                 ELSE IF a = failedAt[r] THEN "degraded" ELSE "skipped"]]

FailManifest(r) ==
  /\ At(r, "failing")
  /\ manifest' = [manifest EXCEPT ![r] = FailedManifest(r)]
  /\ To(r, "failed log")
  /\ UNCHANGED <<stage, audits, failedAt, outputs, eventLog, latest, writing, registrar>>

FailLog(r) == At(r, "failed log") /\ PersistLog(r, TRUE, "threw")

\* As if a log that cannot be written were only warned about.
Unwritable_LogIgnored(r) ==
  /\ "unwritten" \in Faults
  /\ At(r, "log") /\ To(r, "latest")
  /\ UNCHANGED <<stage, audits, failedAt, outputs, manifest, eventLog, latest, writing, registrar>>

\* A file cannot be written: in persist that is a failed run, in
\* persistFailedRun it is the end.
Unwritable(r) ==
  /\ "unwritten" \in Faults
  /\ IF persisting[r] \in {"failing", "failed log"}
     THEN To(r, "broken") /\ UNCHANGED failedAt
     ELSE /\ persisting[r] \in {"intents", "required", "optional", "manifest", "log", "latest"}
          /\ To(r, "failing") /\ failedAt' = [failedAt EXCEPT ![r] = "persistence"]
  /\ manifest' = IF persisting[r] \in {"manifest", "failing"}
                 THEN [manifest EXCEPT ![r] = Torn] ELSE manifest
  /\ writing' = writing \ {r}
  /\ UNCHANGED <<stage, audits, outputs, eventLog, latest, registrar>>

Crash(r) ==
  /\ "crash" \in Faults /\ persisting[r] \notin {"returned", "threw", "broken", "dead"}
  /\ To(r, "dead")
  /\ writing' = writing \ {r}
  /\ UNCHANGED <<stage, audits, failedAt, outputs, manifest, eventLog, latest, registrar>>

RunStep(r) ==
  \/ RunStage(r) \/ Throw(r) \/ WriteOutputs(r) \/ WriteManifest(r) \/ WriteLog(r)
  \/ TruncateLatest(r) \/ WriteLatest(r) \/ FailManifest(r) \/ FailLog(r)
  \/ Unwritable(r) \/ Crash(r)

-----------------------------------------------------------------------------
Busy(g, r) == registrar[g].at # "idle" /\ registrar[g].run = r
Over(r) == persisting[r] \in {"returned", "threw", "broken", "dead"}

\* registerRunArtifacts reads the manifest of a run it was told of; one that is
\* failed, or that cannot be parsed, ends the call.
ReadManifest(g, r) ==
  /\ registrar[g].at = "idle" /\ Over(r)
  /\ manifest[r] \notin {None, Torn} /\ manifest[r].status # "failed"
  /\ registrar' = [registrar EXCEPT ![g] = [at |-> "read", run |-> r,
       manifest |-> [manifest[r] EXCEPT !.files = @ \cup {g}], mixed |-> FALSE]]
  /\ UNCHANGED <<stage, audits, failedAt, persisting, outputs, manifest, eventLog, latest, writing>>

TruncateManifest(g) ==
  /\ registrar[g].at = "read"
  /\ manifest' = [manifest EXCEPT ![registrar[g].run] = Torn]
  /\ registrar' = [registrar EXCEPT ![g].at = "write"]
  /\ UNCHANGED <<stage, audits, failedAt, persisting, outputs, eventLog, latest, writing>>

\* Of two writers the second may leave the tail of the first behind its own.
RegisterArtifacts(g) ==
  /\ registrar[g].at = "write"
  /\ LET r == registrar[g].run IN
     /\ \E m \in {registrar[g].manifest} \cup (IF registrar[g].mixed THEN {Torn} ELSE {}) :
          manifest' = [manifest EXCEPT ![r] = m]
     /\ registrar' = [h \in Registrar |->
          IF h = g THEN [at |-> "idle"]
          ELSE IF Busy(h, r) /\ registrar[h].at = "write"
          THEN [registrar[h] EXCEPT !.mixed = TRUE] ELSE registrar[h]]
  /\ UNCHANGED <<stage, audits, failedAt, persisting, outputs, eventLog, latest, writing>>

Registration(g) ==
  TruncateManifest(g) \/ RegisterArtifacts(g) \/ \E r \in Run : ReadManifest(g, r)

PipelineNext ==
  (\E r \in Run : RunStep(r)) \/ (\E g \in Registrar : Registration(g))

PipelineSpec == PipelineInit /\ [][PipelineNext]_pipelineVars

-----------------------------------------------------------------------------
Readable(r) == manifest[r] \notin {None, Torn}

\* There is an event log, it can be read, and it tells of the analysis, and each
\* time what the manifest m says.
About(logs, m) ==
  /\ logs # {}
  /\ \A doc \in logs :
       /\ parseEventLog(renderEventLog(doc)) = {doc}
       /\ \E i \in 1 .. Len(doc.events) : doc.events[i].type = "analysis.completed"
       /\ \A i \in 1 .. Len(doc.events) : doc.events[i].type = "analysis.completed" =>
            /\ doc.events[i].evidenceDigest = hash(Evidence(m))
            /\ doc.events[i].outcome = Outcome(m)

Tells(r, m) == About(eventLog[r], m)

(***************************************************************************)
(* latest.json is the last thing a run writes (persist): whatever failed   *)
(* or crashed in this run or another, and whatever was registered since,   *)
(* the run it names has all its outputs, a manifest that is not failed     *)
(* and an event log about it; and no failed run is ever the latest.        *)
(***************************************************************************)
LatestIsComplete ==
  latest \notin {None, Torn} =>
    /\ outputs[latest] = {"intents", "required", "optional"}
    /\ At(latest, "returned")
    /\ Readable(latest) => manifest[latest].status # "failed" /\ Tells(latest, manifest[latest])

(***************************************************************************)
(* The event log of a run that has ended, well or not, stays evidence of   *)
(* its manifest (canonicalPipelineManifestEvidence): registrations that    *)
(* race for the manifest may lose each other's files or leave it           *)
(* unreadable, but they never make a readable manifest disagree with the   *)
(* log.                                                                    *)
(***************************************************************************)
LogMatchesManifest ==
  \A r \in Run : persisting[r] \in {"returned", "threw"} /\ Readable(r) => Tells(r, manifest[r])
=============================================================================

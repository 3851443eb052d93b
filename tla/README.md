# A TLA+ model of todo2code

todo2code reads a repository (sources, documents, git history, conversations),
turns what it finds into *intent records*, links them into a graph, diagnoses
the graph and proposes TODO items and code changes that a person approves. Most
of that is a pure function from files to a report. What can go wrong beyond the
reach of a unit test is where the program **shares state**: between processes
(files, lock files, snapshots), between callbacks of one process (an in-memory
map and an `await`), and between the program and people who edit the same
files. This project models those parts, checks them with TLC on small instances
and proves their main safety properties with TLAPS. The second thing it models is
what the program **decides**: the rules by which records become relations,
diagnostics, plans and verdicts, as operators that TLC compares with what they promise
over every input of bounded sets.

Paths below are relative to the repository; `TS` stands for
`src/interfaces/a2a-task-store.ts`, `SVC` and `STORE` for
`src/communication/intake-service.ts` and `intake-store.ts`, `TD` for
`src/synthesis/todo-patch.ts`, `AP` for
`src/synthesis/code-change-plan-apply.ts`.

## 1. Inventory

| Component | State it keeps | Operations | Hard behaviour | What makes it correct | Here |
|---|---|---|---|---|---|
| **A2A task store** (`TS`, `a2a-message.ts`, `a2a-types.ts`) | the map `tasks` and `messageTaskIndex` of a process; with `T2C_A2A_TASK_STORE` a snapshot file and a lock directory shared by replicas | SendMessage (synchronous or `returnImmediately`), GetTask, ListTasks, CancelTask; background execution by `setImmediate` | handlers interleave at the `await` of an action; replicas, duplicated messages, stale locks, five-minute give-up, crashes, snapshots that cannot be read or written | a message has one task and runs once; terminal tasks are final; what a client was told stays true; one transaction at a time; working tasks settle | all but ListTasks |
| A2A HTTP endpoint (`a2a.ts`, `a2a-card.ts`, `a2a-history.ts`) | none | routing, bearer check, error codes | none beyond the store | calls the store once per request | no |
| **Governed intake** (`SVC`, `STORE`, `intake-contract.ts`) | event files, `append.lock`, the registry, role files | RegisterParticipant, BindExternalIdentity, AssignRole, CaptureMessage, RebuildProjection, VerifyEventStream; queries | decision on a snapshot read without the lock, optimistic version check, idempotency keys, publication after the lock is gone, writes that fail before and after the event is stored, files of people, torn event files, crashes | every event was authorised by those before it; keys and principals unique; registry and role files are views of a prefix; a refusal says what it may | all |
| **TODO patch** (`TD`, `render_todo`/`apply_todo` in `src/services/actions.ts`) | `TODO.md`, `TODO.patch`, its audit, a lock file, receipts | render, approve and apply, recover | parallel writes and reads of two files, people who edit without the lock, failed writes between TODO and receipt, crashes | only approved patches, right behind the content they were rendered for, once; honest receipts | all |
| **Source patch and code changes** (`AP`, `code-change-*.ts`) | source files, a lock per receipt, the receipt | propose, check and prefix diffs, preflight, ordered writes, rollback, repeat, review, accept | several files, time between check and write, rollback over others' edits, a crash in the middle | all or nothing; a receipt only for what is there; plans stay in scope; closing is earned | all but the printed plan |
| **Watch loop** (`src/watch`) | last snapshot, pending flag, time of the last report | poll, coalesce, throttle, report, abort | edits during a scan, a pause or a report that itself writes into the tree | the last edit leads to a report, then to rest | all |
| **Pipeline and event log** (`src/pipeline`) | run directory, manifest, hash-chained log, `latest.json` | stages, audits, failed manifest, log write, registration of later artifacts | a failure or a stop between any two of these files; read-modify-write of the manifest without a lock | the latest run is complete; the log tells what the manifest tells; no tampering passes the reader | all |
| **Workspace comparison** (`src/comparison`) | cache of base runs | read, clear, stage, rename, copy, link | readers that remove, writers that collide, links into a shared entry | a comparison is made with one whole base run | the cache |
| **LLM client** (`src/llm`) | the route; deadline and attempts within a call | a call with requests, retries, a list of models | five clocks against each other | calls are bounded and give up at the deadline | all but parsing |
| **Task synthesis, reranker** (`src/synthesis/tasks-llm*.ts`, `src/semantic`) | a cache of decisions | two attempts with a model, fallback, filter | answers that are wrong in any way | proposals and relations are grounded in what was sent | all |
| **Intent graph and truth map** (`src/graph`, `truth-map.ts`) | none | link, diagnose, diff, group, validate | thresholds, ties, order of relations | a diff turns one graph into the other; one truth map per graph; grounded diagnostics | all but word lists |
| **Reality, text diff, capabilities** (`src/diff`) | none | topics and coverage, verdicts of equivalence, line diff | evidence that is partial or stale, line numbers at the ends of a text | verdicts are backed; a diff accounts for both texts | all but rendering |
| **Branch portfolio, preflight** (`branch-*.ts`, `workspace-preflight.ts`) | none | snapshot of refs, pairs, recommendation, inspection | refs and trees that move between two git commands | evidence was true at one moment; nothing unchecked passes | all but git parsing |
| **Communication** (extractor, registry, `analyzer.ts`, `llm.ts`) | none | attribute, segment, analyse, enrich | people with several names, headings, order of statements and commits | what is held against somebody was said by them | all but the codec |
| **Operations, analysis policy, GitHub events** (`src/operations`, `analysis-policy.ts`, `github-event-log.mjs`) | none | slices, plans, envelopes, budgets, facts of a payload | cycles, splits, approvals, escalation | plans can be carried out as approved | the rules |
| Content cache, other extractors, CLI, MCP, configuration, summary, SDKs, other scripts | one file per key for the cache | functions of their input, or thin calls into the above | parsing | unit tests reach them | no |

How they interact. The command line, MCP, the REST page and A2A all end in
`executeAction` (`src/services/actions.ts`). A2A wraps it in a task, which is
where it becomes concurrent: the store awaits `executeAction` while other
handlers run. `executeAction` calls the pipeline, the patch writers and the
intake; these share only files. The watch loop calls the pipeline in its own
process, and the pipeline writes into the tree the loop watches. The comparison
calls the pipeline for a base commit. Nothing is shared in memory except the map of the
task store and the route of an LLM client.

`PROJECT.json` lists every component with its sources and status, and the
hazards of the code line by line with the properties that cover them.

## 2. Modules

Modules with a state:

| Module | Models | Remarks |
|---|---|---|
| `A2ATasks` | tasks, requests, the functions on the store that both variants share (`prepareTask`, `executeMessage` up to and after its await, `cancelTask`, `taskView`) | no variables |
| `A2AMemoryStore` | the store of one process: handlers interleave at the await | one action per handler, `RunScheduled` is the `setImmediate` callback, `Finish` the code after the await |
| `A2AFileStore` | replicas with a snapshot and a lock directory: `withTaskStore` step by step, jobs, staleness, give-up, failed reads and writes of the snapshot, crashes | an actor is a call's `rpc` or its `job` |
| `A2ATaskPromise` | what either store promises: how its content may change at all | both stores are proved to implement it (`PromiseKept`) |
| `IntakeService` | every command of the intake, from the read of the stream to the publication | `replay` and `messages` are folds, so that theorems may use them |
| `TodoPatch` | `render_todo` and `apply_todo`, people who edit | |
| `SourcePatch` | applying a source patch to several files | a file is the set of the hunks in it |
| `Watch` | the watch loop | clocks count down in ticks |
| `PipelineRun` | runs, their files, later registrations | extends `EventLog` |
| `BaseCache` | one entry of the cache of base runs, shared by comparisons | a file holds the run it belongs to |
| `LlmClient` | the calls of one client with their clocks | |

Modules of rules, without variables:

| Module | Source | Operators |
|---|---|---|
| `EventLog` | `pipeline/event-log.ts` | building, canonical order, digests, the reader's checks |
| `GraphDiff` | `graph/diff.ts` | identity over time, pairing, the four parts of a diff |
| `TruthMap` | `core/truth-map.ts` | grouping by union of relations, status, validator |
| `IntentLinker`, `GraphDiagnostics` | `graph/linker*.ts`, `symbol-resolution.ts`, `diagnostics.ts` | buckets, scores, relations; every diagnostic |
| `RealityView`, `CapabilityComparison`, `TextDiff` | `diff/*.ts` | topics and coverage; verdicts and gaps; Myers' search, hunks, cuts |
| `BranchPortfolio`, `BranchSnapshot` | `core/branch-portfolio.ts`, `services/branch-*.ts` | conflicts, readiness, recommendation, assembly; refs that move while they are read |
| `WorkspacePreflight` | `services/workspace-preflight.ts` | an inspection of a tree that changes between its reads |
| `DeliverySlices`, `OperationPlan` | `operations/*.ts` | splits, order, ownership; validation, search for cycles, envelope |
| `TaskSynthesis`, `CodeChange` | `synthesis/*.ts` | payload, attempts, grounding, filter; plans, diffs, hunks, closing |
| `Reranker` | `semantic/reranker*.ts` | shortlist, attempts, decisions, cache |
| `CommunicationRecords`, `CommunicationAnalysis` | `extractors/communication*.ts`, `communication/*.ts` | registry, headings, attribution; commitments, decisions, enrichment |
| `AnalysisPolicy`, `GithubEvents` | `evaluation/analysis-policy.ts`, `scripts/github-event-log.mjs` | budgets, stages, cache identity; facts of a payload |

The theorems (see 5) are in `A2AMemoryStoreProofs`, `A2ATasksProofs`, `A2AFileStoreProofs`, `IntakeServiceProofs`,
`TodoPatchProofs`, `SourcePatchProofs`, `WorkspaceProofs` (`PipelineRun` with `EventLog`, `BaseCache`, `LlmClient`) and
`RulesProofs` (`TruthMap`, `BranchPortfolio`, `BranchSnapshot`, `CapabilityComparison`, `GraphDiff`, `CodeChange`,
`TaskSynthesis`, `Reranker`, `DeliverySlices`). The modules `MC...` hold the instances: `MCA2ARequests` the requests of both stores,
`MCWorkspace` the five parts that work on one repository, `MCRules` the inputs of the rules.

### A2A task store

A *request* carries the method, the principal and, for a message, its id, an
optional task and whether to return at once. A task is its owner, its state, the
set of messages in its history and the number of artifacts. The task id that
`randomUUID` would give is the call that created it. `A2AMemoryStore` keeps the
map (`tasks`), where each call is (`phase`), its `reply` and how often each
message was executed (`started`, the only history variable). A handler runs
without interruption up to its first `await`; this is why `SendAndWait` and
`SendAndReturn` are single actions and `Finish` is another.

`A2AFileStore` follows `withTaskStore`: `Acquire` (mkdir), `FindStale` and
`BreakLock` (the `stat` and the `rmdir` of `removeStaleLock`, with anything
between them), `GiveUp` after five minutes, the handler on the snapshot just
loaded, `Save` or `StoreFails`, `Release`. `loadTaskStore` refills the map of the
process; an execution whose task object is thereby replaced is `detached`, and its
result goes nowhere. What may go wrong is chosen per instance by `Faults`.
`Age` makes a lock directory thirty minutes old: with `"stale"` only one whose
holder is gone, with `"slow"` any.

The indexes `messageTaskIndex` and the history of a task are one thing in the
model (`Indexed`), as `restoreTask` and `prepareTask` keep them equal. Message
parts, contexts and formats of artifacts are data. ListTasks changes no task; its
effect on the snapshot is that of GetTask. `StoreFails` is `loadTaskStore` or `saveTaskStore` throwing: the snapshot
cannot be read, before the map is cleared, or not written. Another error of `mkdir`, `stat` or `rmdir` ends a call as `GiveUp`
does, without a save, or leaves the lock as a crash does; it has no action of its own.

### Governed intake

A stream is the sequence of accepted submissions; a version is a position in it.
`Submit` reads the stream (`read`) and looks for the idempotency key; `Decide` is
`authorize` and, for a command that writes a role file, the check whether a file of somebody else is in its place;
`OpenLock` is the `wx` open of `append.lock`; `AppendNothing` finds the key or a conflict under the lock, or a file it
cannot read; `BeginWrite`/`EndWrite` are the two halves of writing the event file, between which others, or a crash, find
it torn; `Unlock` removes the lock. After it comes the publication: `PublishRegistry`, or `CheckProjection` (the second
check of the place of the role file) and `ReplaceProjection` (the rename). `Fail` is a read or a write that throws, at any of
these steps: the lock is removed, an event file may stay torn, and the answer is *failed*, whether the event is stored or
not. (The code's answer is `rejected` with an error each time; the model tells three reasons apart: *failed* for a read or write that
threw, *drift* for a file of somebody else, *rejected* for any other.) `WriteByHand` is a person who puts a file where a role file goes (`ByHand`). `Bootstrapping` are the
principals for whom the caller allows the first registration. Payload hashes are equality of commands. A failing `unlink` of
`append.lock` leaves the lock as a crash does and has no action of its own.
`Pipelining` says whether a client may name an
`expectedVersion` that it has not seen yet.

### TODO patch

A file is the sequence of the blocks in it, a hash is the content it was taken of.
`WritePatch` and `WriteAudit`, `FetchPatch` and `FetchAudit` happen in either order
(`Promise.all`). `Refuse`, `OpenLock`, `ReadTodo` and then one of `Repeat` (a receipt is
there), `BeginAppend` and `AppendPatch`, `Recover`, `Stale` follow `applyTodoPatch`
line by line; `Record` writes the receipt, `Unlock` is the `finally`, `WriteFails` is
either `atomicWrite` throwing, `Crash` leaves the lock file. `Edit` is a person who
adds a line, at any moment. People only add: nothing the code promises survives
somebody who deletes a patch from the file. Reads of half-written patch files are left
out, as they fail the parser or the hash before anything has happened. Both actions end with
`registerRunArtifacts`, which enters the file names in the manifest of a run if
there is one beside them; that is in
`PipelineRun`.

### Source patch

A file is absent or the set of the hunks in it. A unified diff fits a content when none of the hunks its
context rules out (`Unfit`) is there; a patch is among its own, so that it never fits twice. A call
follows `applyCodeChangeSourcePatch`: the approval, the `wx` open of the lock beside the receipt, the
receipt if there is one, every file read and patched in memory (`Prepare`), the writes in the order of
paths, the receipt; a failed write leads to the rollback in reverse order, each step of which may fail as
well (`"torn"`). The lock is of one receipt, so calls with other receipts run beside it. `disturbed` is a history variable: the calls
one of whose files was written by somebody else after they read it.

### Watch

A version of a file stands for its time and size. The tree is listed when a scan begins (`listed`)
and read file by file (`ScanFile`), while people edit. `Polled` takes the snapshot and reports, or pauses with
`pending` set if the floor has not passed. `EndReport` is the end of `generate`, well or not: it writes what a report writes
into the tree, and the snapshot stays the one from before it. `Abort` may come at any time.

### Pipeline and event log

`PipelineRun` takes the fourteen stages in order, each with one of the audits it can end with or an error;
then `persist` in the order of the code: outputs, manifest, log, `latest.json`. A stage that throws leads to the
failed manifest and its log. A file written in place is torn between the truncation and the write. `Registration`
is `registerRunArtifacts`, read, then write, with no lock. A log tells of the analysis and of the diagnostics raised; it is built by the operators of
`EventLog`, which the topic `log` asks about tampering.

### Base cache

`BaseCache` is one entry and the comparisons that share its key. The reads of the three files go on side by
side, and so do the copies, so they come in any order; a removal takes files one by one; only the rename of the
staged directory is atomic. A result holds hard links into the entry, so that a file written *in place* afterwards
changes in both.

### LLM client

One call after the other; each resolves the route, sends, waits, retries after 429, 5xx, a timeout or a network
error, falls back from a JSON schema once, and lists models for the message of an error. Five clocks run in ticks. A
timer that is due fires before the next tick. `label`, `kind` and the answers are the data the control depends on.

### Rules

Each module of rules takes inputs as records of model values and returns what the code returns, refusals
included; its last definitions say what is promised of them, stated without reference to the steps of the
computation (a diff *applied* to the first graph is the second; a truth map has the partition generated by the
relations, whatever their order; an accepted log with anything changed is refused). Where the code asks git, a
tree or a model, the operator takes the answers: a function from the moment of each read to what is there at that moment
(`moments` in `BranchSnapshot` and `WorkspacePreflight`), or any reply of a set. `MCRules` has one state
per question: a topic is chosen, then `Ask...` picks a question, and the four laws are properties of that
step.

## 3. What the runs show

| Run | Instance | Question |
|---|---|---|
| `a2a_memory` | 3 calls, 2 principals, one message id for both | handlers interleave at the await: messages run once, a cancellation beats a late result, tasks settle, the map implements `A2ATaskPromise` |
| `a2a_file` | 3 calls, 2 replicas, no faults, a snapshot that may hold an INPUT_REQUIRED task of another producer | duplicates across replicas run once, a working task has a job ahead of it, jobs settle their tasks |
| `a2a_file_faults` | 2 calls, 2 replicas, 2 crashes, stale locks, give-up, a snapshot that cannot be read or written | mutual exclusion, durable answers, no second execution of a settled message, every call ends |
| `a2a_stale_race` (violation) | 3 calls, 1 crash, stale locks | two waiters for one stale lock are both inside |
| `a2a_abandoned` (violation) | 2 calls, 1 crash, give-up | a task of the snapshot WORKING for ever |
| `intake_founding` | 2 clients, 6 commands, an empty stream | two first registrations and one principal wanted by several |
| `intake_talk` | 2 clients, 6 commands, a team of two, one crash, failed writes, a role file a person may write at any moment | messages, repeated keys, loss of a ticket and rebuilds |
| `intake_pipelined` (violation) | as founding, clients may name unseen versions | an event decided on an older stream |
| `intake_two_files` (violation) | a promotion between two messages | two role files of one human and ticket |
| `todo_patch` | 3 calls, 2 patches (one without proposals), 2 receipt paths, a person, failed writes, a crash | placement, single application, receipts, the lock |
| `workspace` | six scenes on one repository | see below |
| `rules` | twenty-five topics | see below |

**`workspace`** composes the five parts that work on one repository. They share no state but the tree, which each
lets others change, so the instance takes them one scene at a time: in *patch*, two callers apply three
patches (one creates, one modifies, one deletes a file) with two receipts, while a person writes a hunk one of the
patches does not tolerate, writes fail and callers die; in *watch*, a scan races two edits of a tree with more
files than it may take; in *pipeline*, two runs share `latest.json`, and in *registration* two calls race for the manifest of
one run, with failed writes and crashes; in *cache*, two comparisons meet an entry that is absent, whole or partial;
in *llm*, two calls run against their clocks. Of these, `WholeWhenUnlocked` and
`AppliedOncePerReceipt` are about patches, `LatestIsComplete` and `LogMatchesManifest` about runs, `BaseIsWhole` about the
cache, `CallIsBounded` about the client, `WatchLoopSettles` about the loop.

**`rules`** states four laws, each for several topics:

- `GraphsAreExplained`: what is said of two graphs or texts is all of it and no more (graph diff, truth map, line
  diff, reranker).
- `EquivalenceIsEarned`: ready, clean and equivalent are said only on evidence (portfolio, its assembly, the snapshot of
  refs, capabilities).
- `PlansAreKept`: a plan that is made can be carried out (slices, operations and their cycles, synthesis and its payload,
  code changes, edits, policy).
- `ReportsAreBacked`: a report says what the records back (diagnostics and reality view, closing of a change, attribution,
  statements, analysis, enrichment, preflight, log, GitHub).

The bounds. Three calls are the least with which a duplicate, its original and a
cancellation (or: a holder and two waiters) overlap, and a call has two actors in the file
store. Faults need only two calls, one to fail and one to find what it left; with two
there is at most one waiter for a stale lock, which is the case in which mutual exclusion
holds. Two crashes let a lock be orphaned, broken and orphaned again. In the
intake two clients suffice for each race, as append admits one at a time and a
command reads once; four or five events are one more than the team and the longest
interesting history (message, loss of the ticket; message, promotion, message). For the TODO
patch, three calls cover render-render-apply (a mixed patch and audit),
render-apply-apply (with one receipt, two receipts, a failed write between) and apply
twice after a crash; one person and one note are enough for each way a source goes
stale. Two source patches at once, of which one has two files, are the least in which a rollback meets
another writer. Two edits (`MaxEdits`) put one into a scan and one into the pause or report that follows; a floor of three
ticks over a scan interval of one lets polls be throttled. A request of nine ticks, with pauses of one and two and a list of three, lets
the deadline, the request timer and a retry come in every order. `MaxEvents`, `MaxCrashes`, `MaxEdits`, `MaxFiles` and
`Calls` are the only counters that are capped. In `rules`, the sets are given in `MCRules` with what they are for: mostly two or
three records, branches, slices or steps, each in every form the rule tells apart.

`intake_talk` treats the two clients as one up to renaming (`SYMMETRY`): no submission names a client, and the run checks invariants
only.

A run that may stop has an `Idle` step for it, so deadlock is checked in the first ten. The scenes of `workspace` end
when the callers, runs and calls have, and `rules` when a question has been asked; both leave deadlock unchecked.

Fairness. In `A2AMemoryStore`, `setImmediate` callbacks run and actions end:
`executeAction` resolves or throws. In `A2AFileStore`, a process that runs takes
its steps (a dead one has none), a waiter may always try again (polling every 25 ms), and time
passes for an orphaned lock (`Age`), which is weak fairness of each. No strong fairness is
assumed: with endless traffic a waiter may lose every race, and only the five-minute error
ends its wait; with the finitely many calls of an instance, the lock is free in the end. In
`IntakeService` a command that runs takes its steps. In the scene *watch*, time passes and the loop takes its steps: timers fire, and a
report ends, well or not; people owe nothing. The other modules state safety only.

Each property of a passing run has mutants in `PROJECT.json`: a definition changed as a
plausible bug would change it (the operators named `..._Something` in the modules), under which
TLC finds that property violated. The laws of `rules` have one for nearly every topic.

## 4. Where code and documents disagree

Four runs end in a counterexample to what a document says; `PROJECT.json` quotes both.

1. **A stale lock can admit two** (`a2a_stale_race`). `removeStaleLock` removes by path a
   directory it judged by an earlier `stat`. Two waiters see the old lock; one removes
   it and makes its own; the other removes that.
2. **A background task can stay WORKING** (`a2a_abandoned`). The job of
   `returnImmediately` exists only as a callback. If the process stops, or the job waits five
   minutes for the lock, nothing settles the task, a repeated message returns it as it is,
   and a continuation is refused.
3. **An event decided on an older stream** (`intake_pipelined`). `append` compares
   the version the client named, not the one the command was decided on. A client that sends
   commands for two consecutive versions at once gets the second decided without the first.
4. **Two role files** (`intake_two_files`). A message that is published after its author
   changed role and wrote again leaves the file of the old role beside the new one; after
   that both roles are rejected.

Observations without a run. A transaction that takes more than thirty minutes loses its lock
to a waiter (TS:198). `append.lock` and `TODO.md.t2c-apply.lock` outlive a crash, and nothing
removes them: every later append or apply is refused until somebody does, although
CHANGELOG.md:611-613 speaks of crash recovery for the apply (the recovery of the *content* is there
and is checked). A role file published late may replace a newer one; the next message
repairs it. An edit of the TODO file between the read at TD:179 and the rename at TD:194 is
lost. `registerRunArtifacts` rewrites a manifest without a lock. 

A command whose publication fails is answered `rejected` although its event is stored: any command when
the registry or the role file cannot be written (`intake-service.ts:51,59,155`), a message when a person puts a file in the
place of its role file between the check before the decision and the one after the append (`:150`), and a RebuildProjection whose
ticket the participant has not got, as `decide` does not look at it. The retry of such a command is a duplicate and publishes
nothing; a later rebuild does. `RefusedStoredNothing` says that these are all: any other refusal has stored nothing.

A task store that another producer filled may hold a task that waits for input. If a continuation of it with
`returnImmediately` is not saved, its job is scheduled all the same; when the message is then sent again as a new
task and settles, and another call continues the old task, that job finds it WORKING and executes the settled message once
more. `SettledNotRerun` is therefore checked and proved for stores that this code wrote.

Two source patches with different receipts, hence different locks, may edit one file at once, and a rollback restores what
its call read over what others wrote since; `WholeWhenUnlocked` speaks of the calls to whose files this has not happened. Two
comparisons that renew one cache entry at once can mix their files, as the loser of the rename copies file by file; `BaseIsWhole`
leaves out the comparisons this concerns. The route of an LLM client that could not be resolved stays rejected for the life of
the client, and neither the route nor the list of models listens to the deadline, which is why `CallIsBounded` grants their time after
it. Two registrations may lose each
other's files, and a crash in one may leave a manifest nobody can read. A page of ListTasks may repeat or skip a task that
changes between two pages.

What `applyUnifiedDiffToText` does to a well-formed diff is more than its edit, and `DiffMakesTheEdit` says what. It reads every line that
begins with `---`, `+++`, `diff ` or `index ` as a header, in a hunk too (`unified-diff.ts:19-20,27`): a diff that removes a line
beginning with `--`, or inserts one beginning with `++`, is refused, for its counts or for a foreign path
(`code-change/helpers.ts:107`). Normalising drops the carriage returns of a diff (`helpers.ts:101`) but those of the file stay, so
that a diff which shows a line of a CRLF file does not match, and inserted lines lose theirs. A hunk without old lines, away from the top of a
file, is inserted a line early, and a file that was empty gets no newline at its end. Each of these ends in a refusal or in
the text the law describes. In a line diff without context a pure insertion has its place only among the new lines;
`DiffAccountsForBoth` takes it from there, whatever the context.

## 5. What is proved

All theorems hold for every value of the constants that satisfies the named assumptions of the
modules (`NoneAssumption`, `RequestsAssumption`, `StoreAssumption`, `IntakeAssumption`, `StreamsAssumption`,
`TodoAssumption`, `SourceAssumption`, `LlmAssumption`): any number of calls, replicas, clients, patches, files and crashes. A theorem
that needs more says so in its statement.

**The store of one process** (`A2AMemoryStoreProofs`): `TypeCorrect`, `MessagesRunOnce`, `AnswersStand`,
`ImplementsPromise`, without any condition. `IInv` adds to the types that one task answers for a message of a
principal (`IndexInv`), that an execution, ahead or under way, is the only one of its task, which holds its message and
has not ended except by a cancellation (`ActiveInv`), that a message starts with its task and not before its callback
(`StartInv`), and that a waiting client has no reply (`IdleInv`). `ActiveInv` is the point: it is what makes the one check for
CANCELED after the await enough.

**The store of several replicas** (`A2AFileStoreProofs`).
- `TypeCorrect`: no handler and no late result touches a task that is not there. `TypeInv` adds to the types that
  an execution whose task object is still in the map finds its task: loads refill the map from the snapshot and are what makes
  this more than bookkeeping.
- `MutualExclusionHolds`, assuming `NoLockAges` (neither `"stale"` nor `"slow"` among the faults). `LockInv` says that whoever
  is inside is the maker of the directory that exists, and that nobody is between the `stat` and the `rmdir`. The condition is
  needed, as `a2a_stale_race` shows; with two calls TLC checks the property with stale locks as well.
- `AnswersDurable` and `ImplementsPromise`, under `NoLockAges`, with crashes, give-ups and snapshots that cannot be read or written. `SnapshotInv` joins
  `TypeInv` and `LockInv` with `MapInv` (the map of the transaction inside is one change of a task ahead of the snapshot) and `ReplyInv` (a
  reply is true of the map before the save and of the snapshot after it). The refinement follows: every step leaves the
  snapshot, or saves one change that `A2ATaskPromise` allows.
- `SettledStaysSettled`, under `NoLockAges` and `OnlyOwnTasks` (no task of another producer). `OwnInv` says that no call
  continues a task then, so that a job belongs to the call that made its task.
- `MessagesRunOnce`, under `OnlyTimeouts` (waiters may give up; nobody crashes or fails to save). `OnceInv` says that only a
  message of the snapshot, or of the transaction inside, has been started, and that no message has two jobs.
- `WorkingTasksAttended`, under `NoFaults`. `AttendInv` carries the job of a working task through the map that is about to be
  saved; `a2a_abandoned` shows what a single fault does to that.

**The intake** (`IntakeServiceProofs`).
- Without any assumption on clients: `LockHolds`, `KeysStayUnique`, `AnswersHold`, from `AppendInv`. Its heart is that a command
  between `BeginWrite` and `EndWrite` named the present version and that its key is not in the stream; this lasts because the
  lock keeps the stream as it is.
- `EventsAuthorized`, `RegistryIsPrefix` and `RoleFilesArePrefixes`, assuming `Seen` (clients name no version they have not
  seen). `DecisionInv` adds that the command was allowed by the snapshot it was decided on. The named version is at most the
  one read, the version check makes it the present one, so the snapshot *is* the stream, and what is published is a view of
  a prefix (`FileInv`). `intake_pipelined` shows that `Seen` is needed for the first.

**The TODO patch** (`TodoPatchProofs`): `TypeCorrect` and `LockHolds` (a call inside has verified its patch, the lock is
its own), and from `ContentInv` the three promises `PatchesInPlace`, `ReceiptsHold`,
`RenderingAppliedOnce`. `ContentInv` carries two predicates on contents, `Placed` (every patch is
approved and behind its source) and `Kept` (the content begins with what every receipt tells and every
applied patch left), and claims them not only for the TODO file but for what a call *inside* has
read. This is the point of the proof: the append replaces the file by what was read with the patch at its end, so an
edit in between may be lost, but nothing that a receipt or an applied call vouches for. That
a rendering is applied once follows, as a content cannot both be the source and begin with the
source and its patch.

**The source patch** (`SourcePatchProofs`): `TypeCorrect`, `AppliedOnce`, `WholePatches`, without conditions. `CallInv` keeps what a call
has read in step with the edits of its patch, `LatchInv` the lock with the call inside or dead there, `ReceiptInv` the absence
of the receipt until the call that found none writes it, and `FileInv` says which files of an undisturbed call are patched at each
point of the writes and of the rollback: those up to the last one written and not put back.

**The intake, continued** (`IntakeServiceProofs`). What the fold `replay` computes of a stream is proved by induction over its
length, so that three more invariants hold for streams of any length.
- `TypeCorrect` and `StreamReplays`, without any assumption on clients: `CommandInv` says that every event that changes a
  participant stands behind the one that registered it (`Grounded`), which is what makes replay go through the whole stream and know
  exactly whom it registers (`Replayed`). An event decided on an older stream keeps this, as registrations are never undone.
- `ActorsUnambiguous` (`PrincipalsUnambiguous`), assuming `Seen`: a stream whose events were all allowed by those before them
  replays to a registry in which no principal names two participants.
- `RefusalsStoreNothing` (`RefusedStoredNothing`), without any assumption on clients, with failing reads and writes at every step: from its
  decision to the rename of its role file, a command is allowed by the snapshot it was decided on, and the place of that file is
  its own unless it is one that people may write (`Allowed`). What the snapshot allows the longer stream still knows (`AllowedIsKnown`),
  so the publication finds the participant and, unless it is a rebuild, the ticket.

**The LLM client** (`WorkspaceProofs`): `CallsAreBounded`, for any durations. `ClockInv` adds up what a call has spent and what its
running clock has left (`TimeInv`), counts the attempts of two requests (`SendInv`), and lets time after the deadline pass only for the
route or one list of models (`LateInv`).

**The base cache** (`WorkspaceProofs`): `BaseRunsAreWhole`, for any number of comparisons. `CacheInv` says that, as long as nobody fell
back on copying, the files there are in the entry are of one run (`OneRun`), and that the place of a comparison that met no other in
the entry tells what it holds in memory and what of it is linked (`Whole`). Removals take files away one by one, so "of one run" and not
"complete" is what lasts.

**Pipeline and event log** (`WorkspaceProofs`).
- `LogHolds` and `LogIsTamperEvident`, for any number of events: the canonical order and the chain are recursive functions, and
  that the log is a permutation in order, numbered and chained is an induction on its length (`InOrderIs`). A reader refuses
  a log in which any event was dropped, doubled, swapped or altered, as the first changed place breaks the chain there or at the end.
- `LatestRunIsComplete`, `LogStaysEvidence`, from `PipelineInv`: one conjunct for each file `persist` writes says from which
  place of a run on that file is there and what it says; a registration that read a manifest keeps the audits and adds files, so
  whichever registration writes last, the manifest still tells what the log tells of
  the analysis, beside the diagnostics it raised. `LogHolds` is what the step that writes the log needs.

**The rules** (`RulesProofs`). These theorems say of *every* input the validators let through what TLC asks of small ones; the laws are
the operators the run `rules` evaluates.
- `TruthMapIsOne`: the validator accepts at most one map of a graph. The walk of `assertConnected` stays in a block that is closed under
  relations, by induction on its steps, so the blocks of one accepted map lie within those of any other.
- `PortfoliosAreSound`, `AssembliesAreAccepted`: no recommendation of one half of a conflict, whichever end of a pair is called left.
- `SnapshotsAreOfOneState`: unless a ref left its commit and came back, the comparison of all refs at the end of the capture
  proves one moment of which the snapshot is true; and a repository that stands still, of which git answers all it is asked within the
  limits of the code, has a snapshot.
- `EquivalenceIsAlwaysEarned`, `DifferencesArePatches`, `PlansAreInScope`, `PlansAreClosedByEvidence`: the verdicts, the pairing of records
  of one place, the scope of a plan and its closing, for any number of each.
- `ProposalsAreGroundedAndOrdered`: the loop of `dependencyFirstPriorityOrder` puts every proposal once behind all it depends on. That
  it never stops short is the argument that a nonempty set without a ready element has a cycle, and a cycle was refused before.
- `RerankingIsGrounded`: the shortlist is the best of each declaration, only what a clean HEAD tracks is sent, and a graph gains at most one
  quoted module for a declaration, once.
- `SlicesKeepPlans`: no request that passes validation is refused for a cycle among its candidates. The rounds of `topological` are an
  induction (`TopologicalIsOrder`): they place every key exactly if there is no cycle (`DependenciesAre`). A cycle among
  candidates would be one among sources or among the children of one. That the precedence of the plan survives is that a set closed under
  waiting holds the leaves of a source only with all its children (`SourcesBeforeAreWhole`), and that `Awaits` is the least
  such set.

Sorts are defined by the rank of an element, the number of those before it, so that a theorem may speak of them: under a strict total
order of a finite set, ranks are a bijection onto the places (`RankedIsSorted`, by the pigeonhole principle). Hypotheses such as
`RerankInput` or `PlanInput` say only what form an input has, numbers where the code compares numbers and sequences where it has
arrays.

The arguments have the usual three parts, a lemma that the initial states satisfy the invariant, a lemma for the steps with
one case per action, and the theorem, which needs only temporal logic. Inductions over data do not use the induction theorems of the
library, which take an operator as a parameter: they take the least number for which the statement fails (`SmallestOf`, from the
well-foundedness of the naturals) and lead it to a contradiction.

Only model-checked:
- liveness (`TasksSettle`, `CallsEnd`, `LockIsFreed`, `WatchLoopSettles`), for which the prover has no rules;
- the laws of `rules` about the other modules: linker, diagnostics and reality view, line diff, hunks (`DiffMakesTheEdit`),
  operation plans (whose search for cycles is a recursive operator), the payload of a synthesis, policies, conversations, preflight
  and GitHub. The four action properties of that run each join several topics and are therefore not theorems as they stand.

## 6. Not modelled

- Parsers, extractors of source code and documents, renderers, scores of the gold evaluation: functions of their input,
  which the unit tests reach, and whose data is strings. The linker's scores *are* modelled, with similarities as fractions.
- The HTTP endpoint, CLI, MCP server, configuration and SDKs: dispatch without state.
- ListTasks: it changes no task, and its cursor promises nothing about tasks that change between two pages.
- The content cache: a memo under the hash of its inputs, whose writers rename equal values into place; what does not
  validate is computed again.
- Wire formats, schemas, redaction, prompts, and hashes, which are the content they are taken of.
- Contents of messages, of artifacts and of rendered patches; times, except as order, as ticks in `Watch` and `LlmClient`, and as
  "older than thirty minutes" or "five minutes have passed".
- The file system beyond what Node's calls promise: a rename is atomic, an exclusive create or `mkdir`
  succeeds once, a write of `fs.writeFile` is not atomic.

- A failing `unlink` of `append.lock` and failing `mkdir`, `stat` or `rmdir` of the store's lock directory, which leave what a crash leaves.
- Times of GitHub payloads with different offsets: the code orders them as text (`github-event-log.mjs:554-557`), and *latest*
  in `GithubEvents` means last in that order.
- The temporary directory and work tree of a branch snapshot: they fail like a git command, which is modelled.

## 7. Plan

1. Theorems for the remaining rules that are written without recursive operators: `WorkspacePreflight`, `AnalysisPolicy`,
   `GithubEvents`.
2. An abstract specification of `SourcePatch` (the files of a patch go from all-before to all-after at one point, the receipt), with the
   refinement for undisturbed calls.
3. Larger instances of `workspace`: a third caller between a rollback and its retry, and a comparison that links while another
   renews.

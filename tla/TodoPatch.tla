----------------------------- MODULE TodoPatch -----------------------------
(***************************************************************************)
(* Rendering TODO.patch and applying it to TODO.md once a person has       *)
(* approved its hash (synthesis/todo-patch.ts, and render_todo and         *)
(* apply_todo of services/actions.ts).  Calls share the TODO file, the     *)
(* patch, its audit, a lock file and the receipts; people edit the TODO    *)
(* file at any time, without the lock.                                     *)
(*                                                                         *)
(* A file is the sequence of the blocks in it: patches and notes of        *)
(* people.  A hash is the content it was taken of.  A file that is read    *)
(* while fs.writeFile fills it fails its parser or its hash, which is one  *)
(* more way to be rejected before anything has happened; it is left out.   *)
(* So is registerRunArtifacts, the last thing either action does: it notes *)
(* the files in the manifest of a run, if there is one in their directory. *)
(***************************************************************************)
EXTENDS Integers, Sequences, SequencesExt

CONSTANTS Call,        \* calls of render_todo and apply_todo
          Text,        \* patches: what the graph and the proposals render to
          Vacant,      \* the patches that select no proposal
          Note,        \* what people add to the TODO file
          ReceiptPath, \* where callers want their receipts
          Requests,    \* the requests of this instance
          Faults,      \* "crash" and "unsaved" writes, if any
          MaxCrashes,  \* bound on the number of crashes
          None

Content == Seq(Text \cup Note)

\* TodoPatchArtifact: the hashes of the patch and of the TODO it was made for.
Artifact == [text : Text, source : Content]

\* TodoApplyReceipt, without its actor and times.
Receipt == [text : Text, source : Content, result : Content]

\* The approval is the hash of the patch alone.
Request == [op : {"render"}, text : Text]
             \cup [op : {"apply"}, approved : Text, receipt : ReceiptPath]

Answers == {"rendered", "applied", "idempotent", "rejected"}

TodoAssumption ==
  /\ Vacant \subseteq Text
  /\ Text \cap Note = {}
  /\ Requests \subseteq Request
  /\ Faults \subseteq {"crash", "unsaved"}
  /\ MaxCrashes \in Nat
  /\ None \notin Call \cup Text \cup Artifact \cup Receipt \cup Request \cup Answers
ASSUME TodoAssumption

VARIABLES todo,      \* TODO.md
          patch,     \* TODO.patch
          audit,     \* TODO.patch.json
          lock,      \* who created TODO.md.t2c-apply.lock
          receipts,  \* the receipt at each path
          request,   \* the request of each call, None before it arrives
          phase,     \* where each call is
          seen,      \* the TODO file as the call read it, then as it leaves it
          patchMarkdown, \* the patch as the call read it
          artifact,  \* the audit as the call read it
          answer,    \* the result of each call, delivered when it is done
          rendered,  \* the audits written so far
          crashes    \* crashes so far

vars == <<todo, patch, audit, lock, receipts, request, phase, seen, patchMarkdown,
          artifact, answer, rendered, crashes>>

Phase == {"idle", "done", "dead",
          "source", "writeBoth", "writePatch", "writeAudit",
          "fetchBoth", "fetchPatch", "fetchAudit", "open",
          "read", "receipt", "append", "record", "unlock"}

\* Between the open and the unlink of the lock file.
Inside == {"read", "receipt", "append", "record", "unlock"}

TypeOK ==
  /\ todo \in Content
  /\ patch \in Text \cup {None}
  /\ audit \in Artifact \cup {None}
  /\ lock \in Call \cup {None}
  /\ receipts \in [ReceiptPath -> Receipt \cup {None}]
  /\ request \in [Call -> Requests \cup {None}]
  /\ phase \in [Call -> Phase]
  /\ seen \in [Call -> Content]
  /\ patchMarkdown \in [Call -> Text \cup {None}]
  /\ artifact \in [Call -> Artifact \cup {None}]
  /\ answer \in [Call -> Answers \cup {None}]
  /\ rendered \subseteq Artifact
  /\ crashes \in 0 .. MaxCrashes

\* Nothing was rendered yet, or one patch was, by an earlier run.
Init ==
  /\ todo = <<>>
  /\ patch \in Text \cup {None}
  /\ audit = IF patch = None THEN None ELSE [text |-> patch, source |-> <<>>]
  /\ lock = None
  /\ receipts = [r \in ReceiptPath |-> None]
  /\ request = [c \in Call |-> None]
  /\ phase = [c \in Call |-> "idle"]
  /\ seen = [c \in Call |-> <<>>]
  /\ patchMarkdown = [c \in Call |-> None]
  /\ artifact = [c \in Call |-> None]
  /\ answer = [c \in Call |-> None]
  /\ rendered = {audit} \ {None}
  /\ crashes = 0

-----------------------------------------------------------------------------
given == <<request, patchMarkdown, artifact>>

Goto(c, from, to) == phase[c] = from /\ phase' = [phase EXCEPT ![c] = to]

Answer(c, what) == answer' = [answer EXCEPT ![c] = what]

Arrive(c, r) ==
  /\ Goto(c, "idle", IF r.op = "render" THEN "source" ELSE "fetchBoth")
  /\ request' = [request EXCEPT ![c] = r]
  /\ UNCHANGED <<todo, patch, audit, lock, receipts, seen, patchMarkdown, artifact, answer, rendered, crashes>>

\* A person adds a line; the tool's lock means nothing to an editor.
Edit(n) ==
  /\ \A i \in DOMAIN todo : todo[i] # n
  /\ todo' = Append(todo, n)
  /\ UNCHANGED <<patch, audit, lock, receipts, given, phase, seen, answer, rendered, crashes>>

-----------------------------------------------------------------------------
(* render_todo *)

ReadSource(c) ==
  /\ Goto(c, "source", "writeBoth")
  /\ seen' = [seen EXCEPT ![c] = todo]
  /\ UNCHANGED <<todo, patch, audit, lock, receipts, given, answer, rendered, crashes>>

\* The artifacts are written in parallel: Promise.all.
WritePatch(c) ==
  /\ \/ Goto(c, "writeBoth", "writeAudit")
     \/ Goto(c, "writePatch", "done")
  /\ patch' = request[c].text
  /\ Answer(c, "rendered")
  /\ UNCHANGED <<todo, audit, lock, receipts, given, seen, rendered, crashes>>

WriteAudit(c) ==
  /\ \/ Goto(c, "writeBoth", "writePatch")
     \/ Goto(c, "writeAudit", "done")
  /\ audit' = [text |-> request[c].text, source |-> seen[c]]
  /\ rendered' = rendered \cup {audit'}
  /\ Answer(c, "rendered")
  /\ UNCHANGED <<todo, patch, lock, receipts, given, seen, crashes>>

-----------------------------------------------------------------------------
(* apply_todo *)

\* So are the reads; a file that is not there ends the call.
FetchPatch(c) ==
  /\ \/ Goto(c, "fetchBoth", "fetchAudit")
     \/ Goto(c, "fetchPatch", "open")
  /\ patchMarkdown' = [patchMarkdown EXCEPT ![c] = patch]
  /\ UNCHANGED <<todo, patch, audit, lock, receipts, request, artifact, seen, answer, rendered, crashes>>

FetchAudit(c) ==
  /\ \/ Goto(c, "fetchBoth", "fetchPatch")
     \/ Goto(c, "fetchAudit", "open")
  /\ artifact' = [artifact EXCEPT ![c] = audit]
  /\ UNCHANGED <<todo, patch, audit, lock, receipts, request, patchMarkdown, seen, answer, rendered, crashes>>

\* The patch is the one of the audit and the one that was approved.
Verified(c) ==
  /\ patchMarkdown[c] # None
  /\ artifact[c] # None
  /\ patchMarkdown[c] = artifact[c].text
  /\ request[c].approved = patchMarkdown[c]

Refuse(c) ==
  /\ Goto(c, "open", "done")
  /\ ~Verified(c) \/ lock # None
  /\ Answer(c, "rejected")
  /\ UNCHANGED <<todo, patch, audit, lock, receipts, given, seen, rendered, crashes>>

\* Mutant: open without the flag x.
OpenLock_Shared(c) ==
  /\ Goto(c, "open", "read")
  /\ Verified(c)
  /\ lock' = c
  /\ UNCHANGED <<todo, patch, audit, receipts, given, seen, answer, rendered, crashes>>

\* open(lockPath, 'wx') succeeds.
OpenLock(c) ==
  /\ Goto(c, "open", "read")
  /\ Verified(c)
  /\ lock = None
  /\ lock' = c
  /\ UNCHANGED <<todo, patch, audit, receipts, given, seen, answer, rendered, crashes>>

ReadTodo(c) ==
  /\ Goto(c, "read", "receipt")
  /\ seen' = [seen EXCEPT ![c] = todo]
  /\ UNCHANGED <<todo, patch, audit, lock, receipts, given, answer, rendered, crashes>>

Stored(c) == receipts[request[c].receipt]

\* assertReceipt: the receipt is of this patch and the TODO file is as it left it.
MatchesReceipt(c) ==
  /\ Stored(c).text = artifact[c].text
  /\ Stored(c).source = artifact[c].source
  /\ Stored(c).result = seen[c]

\* Mutant: an early return that keeps the lock.
Repeat_KeepLock(c) ==
  /\ Goto(c, "receipt", "done")
  /\ Stored(c) # None
  /\ Answer(c, IF MatchesReceipt(c) THEN "idempotent" ELSE "rejected")
  /\ UNCHANGED <<todo, patch, audit, lock, receipts, given, seen, rendered, crashes>>

\* There is a receipt already.
Repeat(c) ==
  /\ Goto(c, "receipt", "unlock")
  /\ Stored(c) # None
  /\ Answer(c, IF MatchesReceipt(c) THEN "idempotent" ELSE "rejected")
  /\ UNCHANGED <<todo, patch, audit, lock, receipts, given, seen, rendered, crashes>>

\* Mutant: the TODO file may have grown since the patch was rendered.
Fresh_Grown(c) == SubSeq(seen[c], 1, Len(artifact[c].source)) = artifact[c].source

\* The TODO file is the one the patch was rendered for.
Fresh(c) == seen[c] = artifact[c].source

\* It is that file with the patch at its end.
wasAlreadyAppended(c) == seen[c] = Append(artifact[c].source, patchMarkdown[c])

BeginAppend(c) ==
  /\ Goto(c, "receipt", "append")
  /\ Stored(c) = None
  /\ Fresh(c) /\ patchMarkdown[c] \notin Vacant
  /\ UNCHANGED <<todo, patch, audit, lock, receipts, given, seen, answer, rendered, crashes>>

\* Nothing to append, or an earlier call has appended and left no receipt.
Recover(c) ==
  /\ Goto(c, "receipt", "record")
  /\ Stored(c) = None
  /\ IF patchMarkdown[c] \in Vacant THEN Fresh(c) ELSE ~Fresh(c) /\ wasAlreadyAppended(c)
  /\ Answer(c, "idempotent")
  /\ UNCHANGED <<todo, patch, audit, lock, receipts, given, seen, rendered, crashes>>

Stale(c) ==
  /\ Goto(c, "receipt", "unlock")
  /\ Stored(c) = None
  /\ ~Fresh(c)
  /\ patchMarkdown[c] \in Vacant \/ ~wasAlreadyAppended(c)
  /\ Answer(c, "rejected")
  /\ UNCHANGED <<todo, patch, audit, lock, receipts, given, seen, rendered, crashes>>

\* Mutant: the audit is appended.
AppendPatch_Audit(c) ==
  /\ Goto(c, "append", "record")
  /\ todo' = Append(seen[c], artifact[c])
  /\ seen' = [seen EXCEPT ![c] = todo']
  /\ Answer(c, "applied")
  /\ UNCHANGED <<patch, audit, lock, receipts, given, rendered, crashes>>

\* atomicWrite: the file becomes what was read with the patch at its end,
\* whatever it has become meanwhile.
AppendPatch(c) ==
  /\ Goto(c, "append", "record")
  /\ todo' = Append(seen[c], patchMarkdown[c])
  /\ seen' = [seen EXCEPT ![c] = todo']
  /\ Answer(c, "applied")
  /\ UNCHANGED <<patch, audit, lock, receipts, given, rendered, crashes>>

Record(c) ==
  /\ Goto(c, "record", "unlock")
  /\ receipts' = [receipts EXCEPT ![request[c].receipt] =
       [text |-> patchMarkdown[c], source |-> artifact[c].source, result |-> seen[c]]]
  /\ UNCHANGED <<todo, patch, audit, lock, given, seen, answer, rendered, crashes>>

\* Mutant: a write that fails is not noticed.
WriteFails_Unnoticed(c) ==
  /\ "unsaved" \in Faults
  /\ \/ Goto(c, "append", "record")
     \/ Goto(c, "record", "unlock")
  /\ Answer(c, "applied")
  /\ UNCHANGED <<todo, patch, audit, lock, receipts, given, seen, rendered, crashes>>

\* Either atomicWrite throws.
WriteFails(c) ==
  /\ "unsaved" \in Faults
  /\ \/ Goto(c, "append", "unlock")
     \/ Goto(c, "record", "unlock")
  /\ Answer(c, "rejected")
  /\ UNCHANGED <<todo, patch, audit, lock, receipts, given, seen, rendered, crashes>>

Unlock(c) ==
  /\ Goto(c, "unlock", "done")
  /\ lock' = None
  /\ UNCHANGED <<todo, patch, audit, receipts, given, seen, answer, rendered, crashes>>

\* The process of the call stops; nothing removes its lock.
Crash(c) ==
  /\ "crash" \in Faults
  /\ crashes < MaxCrashes
  /\ phase[c] \notin {"idle", "done", "dead"}
  /\ phase' = [phase EXCEPT ![c] = "dead"]
  /\ crashes' = crashes + 1
  /\ UNCHANGED <<todo, patch, audit, lock, receipts, given, seen, answer, rendered>>

\* No call is under way.
Idle == (\A c \in Call : phase[c] \in {"idle", "done", "dead"}) /\ UNCHANGED vars

Step(c) ==
  \/ ReadSource(c) \/ WritePatch(c) \/ WriteAudit(c)
  \/ FetchPatch(c) \/ FetchAudit(c) \/ Refuse(c) \/ OpenLock(c) \/ ReadTodo(c)
  \/ Repeat(c) \/ BeginAppend(c) \/ Recover(c) \/ Stale(c)
  \/ AppendPatch(c) \/ Record(c) \/ WriteFails(c) \/ Unlock(c)

Next ==
  \/ \E c \in Call : (\E r \in Requests : Arrive(c, r)) \/ Step(c) \/ Crash(c)
  \/ \E n \in Note : Edit(n)
  \/ Idle

Spec == Init /\ [][Next]_vars

-----------------------------------------------------------------------------
(* Properties *)

\* Every patch in the TODO file was approved by a call and stands right behind
\* a content it was rendered for: a stale source, a patch that does not belong
\* to its audit or an unapproved one never gets in, and a patch is there at
\* most once per rendering (applyTodoPatch).
PatchesFollowTheirSource ==
  \A i \in DOMAIN todo : todo[i] \in Text =>
    /\ [text |-> todo[i], source |-> SubSeq(todo, 1, i - 1)] \in rendered
    /\ \E c \in Call : /\ request[c] # None /\ request[c].op = "apply"
                      /\ request[c].approved = todo[i]

\* A receipt tells of a TODO file that was there: its result is the beginning
\* of the file for good, and holds the patch right after its source, unless
\* the patch was vacant (the recovered and the idempotent path included).
ReceiptIsHonest ==
  \A r \in ReceiptPath : LET receipt == receipts[r] IN
    receipt # None =>
      /\ IsPrefix(receipt.result, todo)
      /\ receipt.result = IF receipt.text \in Vacant THEN receipt.source
                          ELSE Append(receipt.source, receipt.text)

\* Of all the calls that apply one rendering, with whichever receipts, after
\* whichever crashes and failed writes, one says that it did.
AppliedOnce ==
  \A c, d \in Call :
    (c # d /\ answer[c] = "applied" /\ answer[d] = "applied")
      => artifact[c] # artifact[d]

\* The lock file belongs to the one call that is inside, and an exit that is
\* not a crash removes it: nobody is refused for a call that has ended.
LockIsTheirs ==
  /\ \A c \in Call : phase[c] \in Inside => lock = c
  /\ lock # None => phase[lock] \in Inside \cup {"dead"}
=============================================================================

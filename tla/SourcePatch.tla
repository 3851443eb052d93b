---------------------------- MODULE SourcePatch ----------------------------
(***************************************************************************)
(* Applying an approved source patch to the tree                           *)
(* (synthesis/code-change-plan-apply.ts).  A call checks the approval,     *)
(* creates a lock file beside its receipt, reads and patches every file in *)
(* memory, writes them one after the other and records a receipt; when a   *)
(* write fails it puts back what it had read, in reverse order.            *)
(*                                                                         *)
(* A file is absent or the set of the hunks that are in it: those of       *)
(* patches and of people.  A unified diff fits when none of the hunks its  *)
(* context rules out is there, its own among them; a hash is the content   *)
(* it was taken of.  The lock is per receipt, so calls with different      *)
(* receipts run side by side, and people never take it.                    *)
(***************************************************************************)
EXTENDS Integers, Sequences

CONSTANTS Caller,      \* calls of apply_source_patch
          Patch,       \* code-change source patches
          Author,      \* hunks people write
          File,        \* repository paths
          Slot,        \* receipt paths
          EditsOf,     \* the edits of each patch, sorted by path
          Unfit,       \* the hunks that spoil the context of each patch
          Orders,      \* the requests of this instance
          Trouble,     \* "crash" and "unwritten" files, if any
          Absent

Hunk == Patch \cup Author
Body == {Absent} \cup SUBSET Hunk

\* CodeChangeFileAction.
Action == {"create", "modify", "delete"}
\* fresh: the diff starts from /dev/null or from line 0.
SourceEdit == [path : File, action : Action, fresh : BOOLEAN]

\* What a caller asks for, and the patch whose hash was approved.  diffed:
\* every edit carries a unified diff.
Order == [patch : Patch, approved : Patch, diffed : BOOLEAN, slot : Slot]

PathsOf(p) == {EditsOf[p][i].path : i \in 1 .. Len(EditsOf[p])}

\* CodeChangeSourceApplyReceipt: the patch and the hashes of its files.
ApplyReceipt == UNION {[patch : {p}, after : [PathsOf(p) -> SUBSET Hunk]] : p \in Patch}

\* PreparedSourceEdit.
Prepared == [path : File, before : Body, after : SUBSET Hunk, deletes : BOOLEAN]

Verdict == {"applied", "idempotent", "refused", "failed", "torn"}

SourceAssumption ==
  /\ Patch \cap Author = {}
  /\ EditsOf \in [Patch -> Seq(SourceEdit)]
  /\ \A p \in Patch :
       /\ EditsOf[p] # <<>>
       /\ \A i, j \in 1 .. Len(EditsOf[p]) : EditsOf[p][i].path = EditsOf[p][j].path => i = j
  /\ Unfit \in [Patch -> SUBSET Hunk]
  /\ \A p \in Patch : p \in Unfit[p]
  /\ Orders \subseteq Order
  /\ Trouble \subseteq {"crash", "unwritten"}
  /\ Absent \notin Caller /\ Absent \notin Orders /\ Absent \notin ApplyReceipt
  /\ Absent \notin Verdict /\ \A body \in SUBSET Hunk : body # Absent
ASSUME SourceAssumption

VARIABLES tree,     \* the files
          latch,    \* who created the lock file of each receipt
          receipts, \* the receipt at each path
          order,    \* the request of each call
          at,       \* where each call is
          prepared, \* the edits each call has prepared
          changed,  \* how many of them it has written
          verdict,  \* what the call throws or returns when it ends
          disturbed \* calls whose files somebody else wrote, history

sourceVars == <<tree, latch, receipts, order, at, prepared, changed, verdict, disturbed>>

Place == {"idle", "lock", "receipt", "prepare", "write", "record", "rollback",
       "release", "ended", "dead"}

\* Inside acquireSourcePatchLock and the finally that removes the file.
Holding == {"receipt", "prepare", "write", "record", "rollback", "release"}

SourceTypeOK ==
  /\ tree \in [File -> Body]
  /\ latch \in [Slot -> {Absent} \cup Caller]
  /\ receipts \in [Slot -> {Absent} \cup ApplyReceipt]
  /\ order \in [Caller -> {Absent} \cup Orders]
  /\ at \in [Caller -> Place]
  /\ prepared \in [Caller -> Seq(Prepared)]
  /\ changed \in [Caller -> Nat]
  /\ verdict \in [Caller -> {Absent} \cup Verdict]
  /\ disturbed \subseteq Caller

SourceInit ==
  /\ tree \in [File -> {Absent, {}}]
  /\ latch = [s \in Slot |-> Absent]
  /\ receipts = [s \in Slot |-> Absent]
  /\ order = [c \in Caller |-> Absent]
  /\ at = [c \in Caller |-> "idle"]
  /\ prepared = [c \in Caller |-> <<>>]
  /\ changed = [c \in Caller |-> 0]
  /\ verdict = [c \in Caller |-> Absent]
  /\ disturbed = {}

-----------------------------------------------------------------------------
Move(c, from, to) == at[c] = from /\ at' = [at EXCEPT ![c] = to]
Conclude(c, what) == verdict' = [verdict EXCEPT ![c] = what]
Edits(c) == EditsOf[order[c].patch]
Slots(c) == order[c].slot

\* Somebody writes f: the calls that have read it are no longer alone with it.
Touch(who, f) ==
  disturbed' = disturbed \cup
    {c \in Caller \ who : prepared[c] # <<>> /\ f \in PathsOf(order[c].patch)}

\* The last of a call's edits moves it on.
Finish(c, all, next) == at' = IF all THEN [at EXCEPT ![c] = next] ELSE at

Submit(c, o) ==
  /\ Move(c, "idle", "lock")
  /\ order' = [order EXCEPT ![c] = o]
  /\ UNCHANGED <<tree, latch, receipts, prepared, changed, verdict, disturbed>>

\* A person commits or edits a file that exists.
EditFile(f, h) ==
  /\ tree[f] # Absent /\ h \notin tree[f]
  /\ tree' = [tree EXCEPT ![f] = @ \cup {h}]
  /\ Touch({}, f)
  /\ UNCHANGED <<latch, receipts, order, at, prepared, changed, verdict>>

\* assertSourcePatchApproval.
Approved(c) == order[c].approved = order[c].patch /\ order[c].diffed

\* As if the lock file were opened without O_EXCL.
AcquireLatch_NotExclusive(c) ==
  /\ Move(c, "lock", "receipt")
  /\ Approved(c)
  /\ latch' = [latch EXCEPT ![Slots(c)] = c]
  /\ UNCHANGED <<tree, receipts, order, prepared, changed, verdict, disturbed>>

AcquireLatch(c) ==
  /\ Move(c, "lock", "receipt")
  /\ Approved(c) /\ latch[Slots(c)] = Absent
  /\ latch' = [latch EXCEPT ![Slots(c)] = c]
  /\ UNCHANGED <<tree, receipts, order, prepared, changed, verdict, disturbed>>

\* Without approval or complete diffs, or with the lock file in place.
Refuse(c) ==
  /\ Move(c, "lock", "ended")
  /\ ~Approved(c) \/ latch[Slots(c)] # Absent
  /\ Conclude(c, "refused")
  /\ UNCHANGED <<tree, latch, receipts, order, prepared, changed, disturbed>>

NoReceipt(c) ==
  /\ Move(c, "receipt", "prepare")
  /\ receipts[Slots(c)] = Absent
  /\ UNCHANGED <<tree, latch, receipts, order, prepared, changed, verdict, disturbed>>

\* A receipt of another patch, or files that moved on, end the call; the files
\* are compared in one step, since all that depends on them is this answer.
assertExistingSourceReceipt(c) ==
  LET r == receipts[Slots(c)] IN
  /\ r.patch = order[c].patch
  /\ \A i \in 1 .. Len(Edits(c)) :
       LET e == Edits(c)[i] IN
       IF e.action = "delete" THEN tree[e.path] = Absent ELSE tree[e.path] = r.after[e.path]

ReadReceipt(c) ==
  /\ Move(c, "receipt", "release")
  /\ receipts[Slots(c)] # Absent
  /\ Conclude(c, IF assertExistingSourceReceipt(c) THEN "idempotent" ELSE "refused")
  /\ UNCHANGED <<tree, latch, receipts, order, prepared, changed, disturbed>>

-----------------------------------------------------------------------------
\* prepareSingleSourcePatchEdit: the target must be as the edit expects, its
\* content must take the diff, and a deletion must leave nothing.
Fits(p, e, body) ==
  CASE e.action = "create" -> body = Absent
    [] e.action = "modify" -> IF body = Absent THEN e.fresh ELSE body \cap Unfit[p] = {}
    [] e.action = "delete" -> body = {}

applyUnifiedDiffToText(p, e, body) ==
  IF e.action = "delete" THEN {} ELSE (IF body = Absent THEN {} ELSE body) \cup {p}

NextEdit(c) == Edits(c)[Len(prepared[c]) + 1]

Prepare(c) ==
  /\ at[c] = "prepare"
  /\ LET e == NextEdit(c)  body == tree[e.path] IN
     /\ Fits(order[c].patch, e, body)
     /\ prepared' = [prepared EXCEPT ![c] = Append(@,
          [path |-> e.path, before |-> body, deletes |-> e.action = "delete",
           after |-> applyUnifiedDiffToText(order[c].patch, e, body)])]
  /\ Finish(c, Len(prepared'[c]) = Len(Edits(c)), "write")
  /\ UNCHANGED <<tree, latch, receipts, order, changed, verdict, disturbed>>

\* Throws before the try of applySourcePatchWithLock: nothing was written.
PrepareFails(c) ==
  /\ Move(c, "prepare", "release")
  /\ ~Fits(order[c].patch, NextEdit(c), tree[NextEdit(c).path])
  /\ Conclude(c, "refused")
  /\ UNCHANGED <<tree, latch, receipts, order, prepared, changed, disturbed>>

\* fs.unlink of a file that is gone throws.
WriteEdit(c) ==
  /\ at[c] = "write"
  /\ LET e == prepared[c][changed[c] + 1] IN
     /\ e.deletes => tree[e.path] # Absent
     /\ tree' = [tree EXCEPT ![e.path] = IF e.deletes THEN Absent ELSE e.after]
     /\ Touch({c}, e.path)
  /\ changed' = [changed EXCEPT ![c] = @ + 1]
  /\ Finish(c, changed'[c] = Len(prepared[c]), "record")
  /\ UNCHANGED <<latch, receipts, order, prepared, verdict>>

Record(c) ==
  /\ Move(c, "record", "release")
  /\ receipts' = [receipts EXCEPT ![Slots(c)] =
       [patch |-> order[c].patch,
        after |-> [f \in PathsOf(order[c].patch) |->
                     (CHOOSE e \in {prepared[c][i] : i \in 1 .. Len(prepared[c])} : e.path = f).after]]]
  /\ Conclude(c, "applied")
  /\ UNCHANGED <<tree, latch, order, prepared, changed, disturbed>>

\* As if a failed write only freed the lock.
Unwritten_NoRollback(c) ==
  /\ Move(c, "write", "release") /\ "unwritten" \in Trouble
  /\ Conclude(c, "failed")
  /\ UNCHANGED <<tree, latch, receipts, order, prepared, changed, disturbed>>

\* A file or the receipt cannot be written, or the file to delete is gone.
Unwritten(c) ==
  /\ at[c] \in {"write", "record"}
  /\ \/ "unwritten" \in Trouble
     \/ /\ at[c] = "write"
        /\ LET e == prepared[c][changed[c] + 1] IN e.deletes /\ tree[e.path] = Absent
  /\ at' = [at EXCEPT ![c] = IF changed[c] = 0 THEN "release" ELSE "rollback"]
  /\ Conclude(c, "failed")
  /\ UNCHANGED <<tree, latch, receipts, order, prepared, changed, disturbed>>

\* rollbackPreparedSourceEdits, last written first.
Restore(c) ==
  /\ at[c] = "rollback"
  /\ LET e == prepared[c][changed[c]] IN
     /\ tree' = [tree EXCEPT ![e.path] = e.before]
     /\ Touch({c}, e.path)
  /\ changed' = [changed EXCEPT ![c] = @ - 1]
  /\ Finish(c, changed'[c] = 0, "release")
  /\ UNCHANGED <<latch, receipts, order, prepared, verdict>>

\* One file cannot be restored: the loop goes on and the call says so.
RestoreFails(c) ==
  /\ "unwritten" \in Trouble
  /\ at[c] = "rollback"
  /\ changed' = [changed EXCEPT ![c] = @ - 1]
  /\ Finish(c, changed'[c] = 0, "release")
  /\ Conclude(c, "torn")
  /\ UNCHANGED <<tree, latch, receipts, order, prepared, disturbed>>

\* The finally: the lock file goes whatever happened.
Release(c) ==
  /\ Move(c, "release", "ended")
  /\ latch' = [latch EXCEPT ![Slots(c)] = Absent]
  /\ UNCHANGED <<tree, receipts, order, prepared, changed, verdict, disturbed>>

Die(c) ==
  /\ "crash" \in Trouble /\ at[c] \in Holding
  /\ at' = [at EXCEPT ![c] = "dead"]
  /\ UNCHANGED <<tree, latch, receipts, order, prepared, changed, verdict, disturbed>>

SourceStep(c) ==
  \/ \E o \in Orders : Submit(c, o)
  \/ AcquireLatch(c) \/ Refuse(c) \/ NoReceipt(c) \/ ReadReceipt(c)
  \/ Prepare(c) \/ PrepareFails(c) \/ WriteEdit(c) \/ Record(c)
  \/ Unwritten(c) \/ Restore(c) \/ RestoreFails(c)
  \/ Release(c) \/ Die(c)

SourceNext ==
  \/ \E c \in Caller : SourceStep(c)
  \/ \E f \in File, h \in Author : EditFile(f, h)

SourceSpec == SourceInit /\ [][SourceNext]_sourceVars

-----------------------------------------------------------------------------
(***************************************************************************)
(* Half a patch is never left behind unseen (applySourcePatchWithLock and  *)
(* rollbackPreparedSourceEdits): where there is no lock file, a patch is   *)
(* in all of its files if its call has reported it applied, and in none of *)
(* them otherwise, through failed writes and crashes, unless somebody else *)
(* wrote these files or the call has reported that its rollback failed.    *)
(***************************************************************************)
Written(e) == tree[e.path] = IF e.deletes THEN Absent ELSE e.after
Untouched(e) == tree[e.path] = e.before

WholeWhenUnlocked ==
  \A c \in Caller \ disturbed :
    order[c] # Absent /\ latch[order[c].slot] = Absent /\ verdict[c] # "torn" =>
      \A i \in 1 .. Len(prepared[c]) :
        IF verdict[c] = "applied" THEN Written(prepared[c][i]) ELSE Untouched(prepared[c][i])

(***************************************************************************)
(* Re-applying is idempotent (the receipt check under the lock): however   *)
(* many calls race for one receipt path, after whichever failures and      *)
(* crashes, at most one of them says that it applied its patch, and then   *)
(* the receipt is that of this patch.                                      *)
(***************************************************************************)
AppliedOncePerReceipt ==
  \A c \in Caller : verdict[c] = "applied" =>
    /\ receipts[order[c].slot] # Absent /\ receipts[order[c].slot].patch = order[c].patch
    /\ \A d \in Caller \ {c} : verdict[d] = "applied" => order[d].slot # order[c].slot
=============================================================================

------------------------- MODULE SourcePatchProofs -------------------------
(***************************************************************************)
(* Theorems about SourcePatch, for any calls, patches, receipts and files, *)
(* any edits by people, and any crashes and failed writes.                 *)
(***************************************************************************)
EXTENDS SourcePatch, TLAPS

-----------------------------------------------------------------------------
(* Where a call is, and what it has by then *)

\* Until a call has a verdict it has read its files in the order of its patch
\* and written a part of them, and one that ends has written all or none.
CallInv ==
  \A c \in Caller :
    /\ order[c] = Absent <=> at[c] = "idle"
    /\ at[c] \in {"idle", "lock", "receipt"} => prepared[c] = <<>>
    /\ at[c] \in {"idle", "lock", "receipt", "prepare", "write", "record"} => verdict[c] = Absent
    /\ at[c] \in {"idle", "lock", "receipt", "prepare"} => changed[c] = 0
    /\ at[c] = "prepare" => Len(prepared[c]) < Len(Edits(c))
    /\ at[c] \in {"write", "record", "rollback"} => Len(prepared[c]) = Len(Edits(c))
    /\ at[c] = "write" => changed[c] < Len(prepared[c])
    /\ at[c] = "record" => changed[c] = Len(prepared[c])
    /\ at[c] = "rollback" => changed[c] \in 1 .. Len(prepared[c]) /\ verdict[c] \in {"failed", "torn"}
    /\ at[c] \in {"release", "ended"} =>
         /\ verdict[c] = "applied" => changed[c] = Len(prepared[c])
         /\ verdict[c] \notin {"applied", "torn"} => changed[c] = 0
    /\ at[c] # "idle" =>
         /\ Len(prepared[c]) <= Len(Edits(c))
         /\ \A i \in 1 .. Len(prepared[c]) : prepared[c][i].path = Edits(c)[i].path

TypeInv == SourceTypeOK /\ CallInv

\* What an order and the edits of its patch are.
LEMMA OrderFields ==
  ASSUME NEW o \in Orders
  PROVE  /\ o # Absent
         /\ o.patch \in Patch /\ o.approved \in Patch /\ o.diffed \in BOOLEAN /\ o.slot \in Slot
         /\ EditsOf[o.patch] \in Seq(SourceEdit) /\ Len(EditsOf[o.patch]) \in Nat \ {0}
BY SourceAssumption DEF SourceAssumption, Order

\* No call was made yet.
LEMMA TypeInit == SourceInit => TypeInv
BY SourceAssumption DEF SourceInit, TypeInv, SourceTypeOK, CallInv, SourceAssumption, Body, Place, Hunk

\* The next file of a patch, read and patched in memory.
LEMMA PreparedNext ==
  ASSUME TypeInv, NEW c \in Caller, at[c] = "prepare"
  PROVE  /\ order[c] \in Orders
         /\ NextEdit(c) \in SourceEdit
         /\ Fits(order[c].patch, NextEdit(c), tree[NextEdit(c).path]) =>
              [path |-> NextEdit(c).path, before |-> tree[NextEdit(c).path],
               deletes |-> NextEdit(c).action = "delete",
               after |-> applyUnifiedDiffToText(order[c].patch, NextEdit(c), tree[NextEdit(c).path])] \in Prepared
<1>1. order[c] \in Orders
  BY DEF TypeInv, SourceTypeOK, CallInv
<1>2. Len(prepared[c]) + 1 \in 1 .. Len(Edits(c))
  BY <1>1, OrderFields DEF TypeInv, SourceTypeOK, CallInv, Edits
<1>3. NextEdit(c) \in SourceEdit
  BY <1>1, <1>2, OrderFields DEF NextEdit, Edits
<1>4. tree[NextEdit(c).path] \in Body
  BY <1>3 DEF TypeInv, SourceTypeOK, SourceEdit
<1>5. order[c].patch \in Hunk
  BY <1>1, OrderFields DEF Hunk
<1>6. applyUnifiedDiffToText(order[c].patch, NextEdit(c), tree[NextEdit(c).path]) \in SUBSET Hunk
  BY <1>4, <1>5 DEF applyUnifiedDiffToText, Body
<1> QED
  BY <1>1, <1>3, <1>4, <1>6 DEF Prepared, SourceEdit

\* The receipt names a hash for every path of the patch.
LEMMA ReceiptOf ==
  ASSUME TypeInv, NEW c \in Caller, at[c] = "record"
  PROVE  /\ order[c] \in Orders
         /\ [patch |-> order[c].patch,
             after |-> [f \in PathsOf(order[c].patch) |->
                          (CHOOSE e \in {prepared[c][i] : i \in 1 .. Len(prepared[c])} : e.path = f).after]]
              \in ApplyReceipt
<1>1. order[c] \in Orders
  BY DEF TypeInv, SourceTypeOK, CallInv
<1>2. ASSUME NEW f \in PathsOf(order[c].patch)
      PROVE  (CHOOSE e \in {prepared[c][i] : i \in 1 .. Len(prepared[c])} : e.path = f).after \in SUBSET Hunk
  <2>1. PICK i \in 1 .. Len(Edits(c)) : Edits(c)[i].path = f
    BY <1>2 DEF PathsOf, Edits
  <2>2. i \in 1 .. Len(prepared[c]) /\ prepared[c][i].path = f
    BY <2>1 DEF TypeInv, CallInv
  <2>3. \E e \in {prepared[c][j] : j \in 1 .. Len(prepared[c])} : e.path = f
    BY <2>2
  <2>4. prepared[c] \in Seq(Prepared)
    BY DEF TypeInv, SourceTypeOK
  <2>5. \A e \in {prepared[c][j] : j \in 1 .. Len(prepared[c])} : e \in Prepared
    BY <2>4
  <2>6. \A e \in Prepared : e.after \in SUBSET Hunk
    BY DEF Prepared
  <2> QED
    BY <2>3, <2>5, <2>6
<1> QED
  BY <1>1, <1>2, OrderFields DEF ApplyReceipt

\* No action moves a call on before it has done what its place stands for.
LEMMA TypeStep == TypeInv /\ [SourceNext]_sourceVars => TypeInv'
<1> SUFFICES ASSUME TypeInv, [SourceNext]_sourceVars PROVE TypeInv'
  OBVIOUS
<1> USE DEF TypeInv, SourceTypeOK, CallInv, Move, Conclude, Finish, Place, Verdict, Edits, Slots, Touch
<1>1. ASSUME NEW c \in Caller, NEW o \in Orders, Submit(c, o) PROVE TypeInv'
  BY <1>1, OrderFields DEF Submit
<1>2. ASSUME NEW f \in File, NEW h \in Author, EditFile(f, h) PROVE TypeInv'
  <2>1. tree' \in [File -> Body]
    BY <1>2 DEF EditFile, Body, Hunk
  <2> QED
    BY <1>2, <2>1 DEF EditFile
<1>3. ASSUME NEW c \in Caller, AcquireLatch(c) PROVE TypeInv'
  BY <1>3, OrderFields DEF AcquireLatch
<1>4. ASSUME NEW c \in Caller, Refuse(c) PROVE TypeInv'
  BY <1>4 DEF Refuse
<1>5. ASSUME NEW c \in Caller, NoReceipt(c) PROVE TypeInv'
  BY <1>5, OrderFields DEF NoReceipt
<1>6. ASSUME NEW c \in Caller, ReadReceipt(c) PROVE TypeInv'
  BY <1>6 DEF ReadReceipt
<1>7. ASSUME NEW c \in Caller, Prepare(c) PROVE TypeInv'
  <2>1. order[c] \in Orders /\ Edits(c) \in Seq(SourceEdit)
    BY <1>7, PreparedNext, OrderFields DEF Prepare
  <2>2. PICK e \in Prepared : e.path = NextEdit(c).path /\ prepared' = [prepared EXCEPT ![c] = Append(@, e)]
    BY <1>7, PreparedNext DEF Prepare
  <2>3. /\ prepared' \in [Caller -> Seq(Prepared)]
        /\ Len(prepared'[c]) = Len(prepared[c]) + 1
        /\ \A i \in 1 .. Len(prepared[c]) : prepared'[c][i] = prepared[c][i]
        /\ prepared'[c][Len(prepared[c]) + 1] = e
        /\ \A d \in Caller \ {c} : prepared'[d] = prepared[d]
    BY <2>2
  <2>4. \A i \in 1 .. Len(prepared'[c]) : prepared'[c][i].path = Edits(c)[i].path
    <3>1. \A i \in 1 .. Len(prepared[c]) : prepared[c][i].path = Edits(c)[i].path
      BY <1>7 DEF Prepare
    <3>2. Len(prepared[c]) \in Nat
      OBVIOUS
    <3>3. e.path = Edits(c)[Len(prepared[c]) + 1].path
      BY <2>2 DEF NextEdit
    <3> SUFFICES ASSUME NEW i \in 1 .. Len(prepared'[c]) PROVE prepared'[c][i].path = Edits(c)[i].path
      OBVIOUS
    <3>4. i \in 1 .. Len(prepared[c]) \/ i = Len(prepared[c]) + 1
      BY <2>3, <3>2
    <3>5. CASE i \in 1 .. Len(prepared[c])
      <4>1. prepared'[c][i] = prepared[c][i]
        BY <2>3, <3>5
      <4> QED
        BY <3>1, <3>5, <4>1
    <3>6. CASE i = Len(prepared[c]) + 1
      <4>1. prepared'[c][i] = e
        BY <2>3, <3>6
      <4> QED
        BY <3>3, <3>6, <4>1
    <3> QED
      BY <3>4, <3>5, <3>6
  <2>5. CallInv'
    BY <1>7, <2>1, <2>3, <2>4 DEF Prepare
  <2> QED
    BY <1>7, <2>3, <2>5 DEF Prepare
<1>8. ASSUME NEW c \in Caller, PrepareFails(c) PROVE TypeInv'
  BY <1>8 DEF PrepareFails
<1>9. ASSUME NEW c \in Caller, WriteEdit(c) PROVE TypeInv'
  <2>1. prepared[c][changed[c] + 1] \in Prepared
    BY <1>9 DEF WriteEdit
  <2>2. tree' \in [File -> Body]
    BY <1>9, <2>1 DEF WriteEdit, Prepared, Body
  <2> QED
    BY <1>9, <2>2 DEF WriteEdit
<1>10. ASSUME NEW c \in Caller, Record(c) PROVE TypeInv'
  <2>1. PICK r \in ApplyReceipt : receipts' = [receipts EXCEPT ![Slots(c)] = r]
    BY <1>10, ReceiptOf DEF Record
  <2>2. SourceTypeOK'
    BY <1>10, <2>1 DEF Record
  <2>3. CallInv'
    BY <1>10 DEF Record
  <2> QED
    BY <2>2, <2>3
<1>11. ASSUME NEW c \in Caller, Unwritten(c) PROVE TypeInv'
  <2>1. SourceTypeOK'
    BY <1>11 DEF Unwritten
  <2>2. changed[c] \in Nat /\ changed[c] <= Len(prepared[c])
    BY <1>11 DEF Unwritten
  <2>3. CallInv'
    BY <1>11, <2>2 DEF Unwritten
  <2> QED
    BY <2>1, <2>3
<1>12. ASSUME NEW c \in Caller, Restore(c) PROVE TypeInv'
  <2>1. prepared[c][changed[c]] \in Prepared
    BY <1>12 DEF Restore
  <2>2. tree' \in [File -> Body]
    BY <1>12, <2>1 DEF Restore, Prepared
  <2> QED
    BY <1>12, <2>2 DEF Restore
<1>13. ASSUME NEW c \in Caller, RestoreFails(c) PROVE TypeInv'
  <2>1. SourceTypeOK'
    BY <1>13 DEF RestoreFails
  <2>2. CallInv'
    BY <1>13 DEF RestoreFails
  <2> QED
    BY <2>1, <2>2
<1>14. ASSUME NEW c \in Caller, Release(c) PROVE TypeInv'
  BY <1>14 DEF Release
<1>15. ASSUME NEW c \in Caller, Die(c) PROVE TypeInv'
  BY <1>15 DEF Die, Holding
<1>16. CASE UNCHANGED sourceVars
  BY <1>16 DEF sourceVars
<1> QED
  BY <1>1, <1>2, <1>3, <1>4, <1>5, <1>6, <1>7, <1>8, <1>9, <1>10, <1>11, <1>12,
     <1>13, <1>14, <1>15, <1>16 DEF SourceNext, SourceStep

\* Every variable keeps its type: a call that writes has a prepared body for
\* every file of its patch, and its receipt a hash for every one of them.
THEOREM TypeCorrect == SourceSpec => []SourceTypeOK
<1>1. TypeInv => SourceTypeOK
  BY DEF TypeInv
<1> QED
  BY <1>1, TypeInit, TypeStep, PTL DEF SourceSpec

-----------------------------------------------------------------------------
(* The lock file, and the receipt beside it *)

\* The lock file of a receipt is that of the call inside, or of one that died
\* there.
LatchInv == \A c \in Caller : at[c] \in Holding \cup {"dead"} => latch[Slots(c)] = c

\* The lock file is created where there is none, and only the call inside
\* removes it.
LEMMA LatchStep == TypeInv /\ LatchInv /\ [SourceNext]_sourceVars => LatchInv'
<1> SUFFICES ASSUME TypeInv, LatchInv, [SourceNext]_sourceVars PROVE LatchInv'
  OBVIOUS
<1>0. \A c \in Caller : at[c] # "idle" => order[c] \in Orders /\ Slots(c) \in Slot /\ c # Absent
  BY OrderFields, SourceAssumption DEF TypeInv, SourceTypeOK, CallInv, Slots, SourceAssumption
<1> USE DEF LatchInv, TypeInv, SourceTypeOK, Move, Finish, Holding, Slots, Place
<1>1. ASSUME NEW c \in Caller, NEW o \in Orders, Submit(c, o) PROVE LatchInv'
  BY <1>1 DEF Submit
<1>2. ASSUME NEW f \in File, NEW h \in Author, EditFile(f, h) PROVE LatchInv'
  BY <1>2 DEF EditFile
<1>3. ASSUME NEW c \in Caller, AcquireLatch(c) PROVE LatchInv'
  BY <1>0, <1>3 DEF AcquireLatch
<1>4. ASSUME NEW c \in Caller, Refuse(c) \/ NoReceipt(c) \/ ReadReceipt(c) \/ PrepareFails(c) PROVE LatchInv'
  BY <1>4 DEF Refuse, NoReceipt, ReadReceipt, PrepareFails
<1>5. ASSUME NEW c \in Caller, Prepare(c) \/ WriteEdit(c) \/ Record(c) PROVE LatchInv'
  <2>1. \A d \in Caller : at'[d] \in Holding \cup {"dead"} => at[d] \in Holding \cup {"dead"}
    BY <1>5 DEF Prepare, WriteEdit, Record
  <2> QED
    BY <1>5, <2>1 DEF Prepare, WriteEdit, Record
<1>6. ASSUME NEW c \in Caller, Unwritten(c) \/ Restore(c) \/ RestoreFails(c) PROVE LatchInv'
  BY <1>6 DEF Unwritten, Restore, RestoreFails
<1>7. ASSUME NEW c \in Caller, Release(c) PROVE LatchInv'
  BY <1>0, <1>7 DEF Release
<1>8. ASSUME NEW c \in Caller, Die(c) PROVE LatchInv'
  BY <1>8 DEF Die
<1>9. CASE UNCHANGED sourceVars
  BY <1>9 DEF sourceVars
<1> QED
  BY <1>1, <1>2, <1>3, <1>4, <1>5, <1>6, <1>7, <1>8, <1>9 DEF SourceNext, SourceStep

\* Until a call that found no receipt records its own, there is none; and a
\* call that says it applied its patch has recorded it.
ReceiptInv ==
  \A c \in Caller :
    /\ at[c] \in {"prepare", "write", "record"} => receipts[Slots(c)] = Absent
    /\ verdict[c] = "applied" => at[c] \in {"release", "ended", "dead"}

\* A step that writes no receipt, finds none before it prepares, and concludes
\* nothing "applied" keeps both.
LEMMA ReceiptsKept ==
  ASSUME ReceiptInv, AppliedOncePerReceipt, UNCHANGED <<receipts, order>>,
         \A c \in Caller :
           /\ verdict'[c] = "applied" => verdict[c] = "applied"
           /\ verdict[c] = "applied" /\ at[c] \in {"release", "ended", "dead"} => at'[c] \in {"release", "ended", "dead"}
           /\ at'[c] \in {"prepare", "write", "record"} =>
                at[c] \in {"prepare", "write", "record"} \/ receipts[Slots(c)] = Absent
  PROVE  ReceiptInv' /\ AppliedOncePerReceipt'
BY DEF ReceiptInv, AppliedOncePerReceipt, Slots

\* Two calls inside have different receipts.
LEMMA ReceiptStep ==
  TypeInv /\ LatchInv /\ ReceiptInv /\ AppliedOncePerReceipt /\ [SourceNext]_sourceVars
    => ReceiptInv' /\ AppliedOncePerReceipt'
<1> SUFFICES ASSUME TypeInv, LatchInv, ReceiptInv, AppliedOncePerReceipt, [SourceNext]_sourceVars
             PROVE  ReceiptInv' /\ AppliedOncePerReceipt'
  OBVIOUS
<1>0. \A c \in Caller : at[c] # "idle" => order[c] \in Orders /\ Slots(c) \in Slot
  BY OrderFields DEF TypeInv, SourceTypeOK, CallInv, Slots
<1>10. \A c \in Caller : at[c] \in {"idle", "lock", "receipt", "prepare", "write", "record"} => verdict[c] # "applied"
  BY SourceAssumption DEF TypeInv, CallInv, SourceAssumption, Verdict
<1> USE DEF TypeInv, SourceTypeOK, Move, Finish, Conclude, Place, Verdict
<1>1. ASSUME NEW c \in Caller, NEW o \in Orders, Submit(c, o) PROVE ReceiptInv' /\ AppliedOncePerReceipt'
  BY <1>1, <1>10 DEF Submit, ReceiptInv, AppliedOncePerReceipt, Slots
<1>2. ASSUME NEW f \in File, NEW h \in Author, EditFile(f, h) PROVE ReceiptInv' /\ AppliedOncePerReceipt'
  BY <1>2, <1>10 DEF EditFile, ReceiptInv, AppliedOncePerReceipt, Slots
<1>3. ASSUME NEW c \in Caller, AcquireLatch(c) \/ NoReceipt(c) PROVE ReceiptInv' /\ AppliedOncePerReceipt'
  BY <1>3, <1>10, ReceiptsKept DEF AcquireLatch, NoReceipt, Holding
<1>4. ASSUME NEW c \in Caller, Refuse(c) \/ ReadReceipt(c) \/ PrepareFails(c) PROVE ReceiptInv' /\ AppliedOncePerReceipt'
  BY <1>4, <1>10, ReceiptsKept DEF Refuse, ReadReceipt, PrepareFails, Holding
<1>5. ASSUME NEW c \in Caller, Prepare(c) \/ WriteEdit(c) PROVE ReceiptInv' /\ AppliedOncePerReceipt'
  BY <1>5, <1>10, ReceiptsKept DEF Prepare, WriteEdit, Holding
<1>6. ASSUME NEW c \in Caller, Record(c) PROVE ReceiptInv' /\ AppliedOncePerReceipt'
  <2>1. PICK r \in ApplyReceipt : r.patch = order[c].patch /\ receipts' = [receipts EXCEPT ![Slots(c)] = r]
    BY <1>6, ReceiptOf DEF Record
  <2>2. r # Absent
    BY SourceAssumption DEF SourceAssumption
  <2>3. Slots(c) \in Slot /\ receipts[Slots(c)] = Absent
    BY <1>0, <1>6 DEF Record, ReceiptInv
  <2>4. \A d \in Caller \ {c} : at[d] \in {"prepare", "write", "record"} => Slots(d) # Slots(c)
    BY <1>6 DEF Record, LatchInv, Holding, Slots
  <2>5. \A d \in Caller \ {c} : verdict[d] = "applied" => Slots(d) # Slots(c) /\ Slots(d) \in Slot
    BY <1>0, <2>3 DEF ReceiptInv, AppliedOncePerReceipt, Slots
  <2>6. ReceiptInv'
    BY <1>0, <1>6, <2>1, <2>3, <2>4 DEF Record, ReceiptInv, Slots
  <2>7. AppliedOncePerReceipt'
    BY <1>6, <2>1, <2>2, <2>3, <2>5 DEF Record, AppliedOncePerReceipt, Slots
  <2> QED
    BY <2>6, <2>7
<1>7. ASSUME NEW c \in Caller, Unwritten(c) \/ Restore(c) \/ RestoreFails(c) PROVE ReceiptInv' /\ AppliedOncePerReceipt'
  BY <1>7, <1>10, ReceiptsKept DEF Unwritten, Restore, RestoreFails, Holding
<1>8. ASSUME NEW c \in Caller, Release(c) \/ Die(c) PROVE ReceiptInv' /\ AppliedOncePerReceipt'
  BY <1>8, <1>10, ReceiptsKept DEF Release, Die, Holding
<1>9. CASE UNCHANGED sourceVars
  BY <1>9 DEF sourceVars, ReceiptInv, AppliedOncePerReceipt, Slots
<1> QED
  BY <1>1, <1>2, <1>3, <1>4, <1>5, <1>6, <1>7, <1>8, <1>9 DEF SourceNext, SourceStep

\* However many calls race for one receipt, after whichever crashes and failed
\* writes, at most one of them says that it applied its patch, and the receipt
\* is that of this patch.
THEOREM AppliedOnce == SourceSpec => []AppliedOncePerReceipt
<1>1. SourceInit => LatchInv /\ ReceiptInv /\ AppliedOncePerReceipt
  BY SourceAssumption DEF SourceInit, LatchInv, ReceiptInv, AppliedOncePerReceipt, Holding, SourceAssumption, Verdict
<1> QED
  BY <1>1, TypeInit, TypeStep, LatchStep, ReceiptStep, PTL DEF SourceSpec

-----------------------------------------------------------------------------
(* The files *)

\* The files of a call that nobody else wrote are patched up to the last one it
\* has written and not put back; only a restore that failed breaks this.
FileInv ==
  \A c \in Caller \ disturbed : verdict[c] # "torn" =>
    \A i \in 1 .. Len(prepared[c]) :
      IF i <= changed[c] THEN Written(prepared[c][i]) ELSE Untouched(prepared[c][i])

\* A call has prepared different files, all of them of its patch.
LEMMA PreparedPaths ==
  ASSUME TypeInv, NEW c \in Caller
  PROVE  /\ \A i \in 1 .. Len(prepared[c]) : prepared[c][i] \in Prepared
         /\ \A i \in 1 .. Len(prepared[c]) : prepared[c][i].path \in PathsOf(order[c].patch)
         /\ \A i, j \in 1 .. Len(prepared[c]) : prepared[c][i].path = prepared[c][j].path => i = j
<1>1. prepared[c] \in Seq(Prepared)
  BY DEF TypeInv, SourceTypeOK
<1>2. CASE at[c] = "idle"
  BY <1>2 DEF TypeInv, CallInv
<1>3. CASE at[c] # "idle"
  <2>1. order[c] \in Orders /\ Edits(c) \in Seq(SourceEdit)
    BY <1>3, OrderFields DEF TypeInv, SourceTypeOK, CallInv, Edits
  <2>2. /\ Len(prepared[c]) \in Nat /\ Len(prepared[c]) <= Len(Edits(c))
        /\ \A i \in 1 .. Len(prepared[c]) : prepared[c][i].path = Edits(c)[i].path
    BY <1>1, <1>3 DEF TypeInv, CallInv
  <2>3. \A i \in 1 .. Len(prepared[c]) : i \in 1 .. Len(Edits(c))
    BY <2>1, <2>2
  <2>4. \A i, j \in 1 .. Len(Edits(c)) : Edits(c)[i].path = Edits(c)[j].path => i = j
    BY <2>1, OrderFields, SourceAssumption DEF SourceAssumption, Edits
  <2>5. \A i \in 1 .. Len(Edits(c)) : Edits(c)[i].path \in PathsOf(order[c].patch)
    BY DEF PathsOf, Edits
  <2> QED
    BY <1>1, <2>2, <2>3, <2>4, <2>5
<1> QED
  BY <1>2, <1>3

\* Whoever writes a file disturbs the calls that have prepared it.
LEMMA OthersUndisturbed ==
  ASSUME TypeInv, NEW f \in File, NEW who \in SUBSET Caller, Touch(who, f),
         \A g \in File \ {f} : tree'[g] = tree[g],
         NEW c \in Caller \ who, c \notin disturbed'
  PROVE  \A i \in 1 .. Len(prepared[c]) : tree'[prepared[c][i].path] = tree[prepared[c][i].path]
<1>1. prepared[c] = <<>> \/ f \notin PathsOf(order[c].patch)
  BY DEF Touch
<1>2. CASE prepared[c] = <<>>
  BY <1>2
<1>3. CASE f \notin PathsOf(order[c].patch)
  <2>1. \A i \in 1 .. Len(prepared[c]) : prepared[c][i].path \in File /\ prepared[c][i].path # f
    BY <1>3, PreparedPaths DEF Prepared
  <2> QED
    BY <2>1 DEF TypeInv, SourceTypeOK
<1> QED
  BY <1>1, <1>2, <1>3

\* What a call prepares, writes and restores is its own; a step of another that
\* touches it is counted.
LEMMA FileStep == TypeInv /\ FileInv /\ [SourceNext]_sourceVars => FileInv'
<1> SUFFICES ASSUME TypeInv, FileInv, [SourceNext]_sourceVars PROVE FileInv'
  OBVIOUS
<1> SUFFICES ASSUME NEW c \in Caller, c \notin disturbed', verdict'[c] # "torn",
                    NEW i \in 1 .. Len(prepared'[c])
             PROVE  IF i <= changed'[c] THEN Written(prepared[c][i])' ELSE Untouched(prepared[c][i])'
  BY DEF FileInv
<1>0. /\ changed[c] \in Nat /\ Len(prepared[c]) \in Nat /\ verdict \in [Caller -> {Absent} \cup Verdict]
      /\ tree \in [File -> Body] /\ prepared \in [Caller -> Seq(Prepared)] /\ changed \in [Caller -> Nat]
  BY DEF TypeInv, SourceTypeOK
<1>a. ASSUME c \notin disturbed, verdict[c] # "torn", prepared'[c] = prepared[c], changed'[c] = changed[c],
             tree'[prepared[c][i].path] = tree[prepared[c][i].path]
      PROVE  IF i <= changed'[c] THEN Written(prepared[c][i])' ELSE Untouched(prepared[c][i])'
  BY <1>a DEF FileInv, Written, Untouched
<1>1. ASSUME NEW d \in Caller, NEW o \in Orders, Submit(d, o)
      PROVE  UNCHANGED <<tree, prepared, changed, verdict, disturbed>>
  BY <1>1 DEF Submit
<1>b. CASE UNCHANGED <<tree, prepared, changed, disturbed>> /\ (verdict[c] = "torn" => verdict'[c] = "torn")
  BY <1>a, <1>b
<1>2. ASSUME NEW f \in File, NEW h \in Author, EditFile(f, h)
      PROVE  IF i <= changed'[c] THEN Written(prepared[c][i])' ELSE Untouched(prepared[c][i])'
  <2>1. c \notin disturbed /\ verdict'[c] = verdict[c] /\ prepared' = prepared /\ changed' = changed
    BY <1>2 DEF EditFile, Touch
  <2>2. tree'[prepared[c][i].path] = tree[prepared[c][i].path]
    <3>1. Touch({}, f) /\ \A g \in File \ {f} : tree'[g] = tree[g]
      BY <1>0, <1>2 DEF EditFile
    <3> QED
      BY <2>1, <3>1, OthersUndisturbed
  <2> QED
    BY <1>a, <2>1, <2>2
<1>3. ASSUME NEW d \in Caller, AcquireLatch(d) \/ NoReceipt(d) \/ Release(d) \/ Die(d)
      PROVE  UNCHANGED <<tree, prepared, changed, disturbed, verdict>>
  BY <1>3 DEF AcquireLatch, NoReceipt, Release, Die
<1>4. ASSUME NEW d \in Caller, Refuse(d) \/ ReadReceipt(d) \/ PrepareFails(d) \/ Record(d) \/ Unwritten(d)
      PROVE  UNCHANGED <<tree, prepared, changed, disturbed>> /\ (verdict[c] = "torn" => verdict'[c] = "torn")
  <2>1. verdict[d] = Absent
    BY <1>4 DEF Refuse, ReadReceipt, PrepareFails, Record, Unwritten, TypeInv, CallInv, Move
  <2>2. verdict[d] # "torn"
    BY <2>1, SourceAssumption DEF SourceAssumption, Verdict
  <2> QED
    BY <1>0, <1>4, <2>2 DEF Refuse, ReadReceipt, PrepareFails, Record, Unwritten, Conclude
<1>5. ASSUME NEW d \in Caller, Prepare(d)
      PROVE  IF i <= changed'[c] THEN Written(prepared[c][i])' ELSE Untouched(prepared[c][i])'
  <2>1. UNCHANGED <<tree, changed, verdict, disturbed>>
    BY <1>5 DEF Prepare
  <2>2. PICK e \in Prepared : /\ e.before = tree[e.path]
                              /\ prepared' = [prepared EXCEPT ![d] = Append(@, e)]
    BY <1>5, PreparedNext DEF Prepare
  <2>3. CASE c # d
    BY <1>0, <1>a, <2>1, <2>2, <2>3
  <2>4. CASE c = d
    <3>1. changed[c] = 0 /\ ~(i <= changed'[c])
      BY <1>5, <2>1, <2>4 DEF Prepare, TypeInv, CallInv
    <3>2. i \in 1 .. Len(prepared[c]) \/ i = Len(prepared[c]) + 1
      BY <1>0, <2>2, <2>4
    <3>3. CASE i \in 1 .. Len(prepared[c])
      <4>1. prepared'[c][i] = prepared[c][i]
        BY <1>0, <2>2, <2>4, <3>3
      <4>2. Untouched(prepared[c][i])
        BY <2>1, <3>1, <3>3 DEF FileInv
      <4> QED
        BY <2>1, <3>1, <4>1, <4>2 DEF Untouched
    <3>4. CASE i = Len(prepared[c]) + 1
      <4>1. prepared'[c][i] = e
        BY <1>0, <2>2, <2>4, <3>4
      <4> QED
        BY <2>1, <2>2, <3>1, <4>1 DEF Untouched
    <3> QED
      BY <3>2, <3>3, <3>4
  <2> QED
    BY <2>3, <2>4
<1>6. ASSUME NEW d \in Caller, WriteEdit(d)
      PROVE  IF i <= changed'[c] THEN Written(prepared[c][i])' ELSE Untouched(prepared[c][i])'
  <2> DEFINE n == changed[d] + 1
             e == prepared[d][n]
             body == IF e.deletes THEN Absent ELSE e.after
  <2>1. /\ n \in 1 .. Len(prepared[d]) /\ e \in Prepared /\ e.path \in File
        /\ tree' = [tree EXCEPT ![e.path] = body] /\ Touch({d}, e.path)
        /\ changed' = [changed EXCEPT ![d] = n] /\ UNCHANGED <<prepared, verdict>>
    <3>1. n \in 1 .. Len(prepared[d])
      BY <1>0, <1>6 DEF WriteEdit, TypeInv, SourceTypeOK, CallInv
    <3>2. e \in Prepared /\ e.path \in File
      BY <3>1, PreparedPaths DEF Prepared
    <3>3. changed' = [changed EXCEPT ![d] = n]
      BY <1>6 DEF WriteEdit
    <3> QED
      BY <1>6, <3>1, <3>2, <3>3 DEF WriteEdit
  <2>2. c \notin disturbed
    BY <2>1 DEF Touch
  <2>3. CASE c # d
    <3>1. tree'[prepared[c][i].path] = tree[prepared[c][i].path]
      <4>1. \A g \in File \ {e.path} : tree'[g] = tree[g]
        BY <1>0, <2>1
      <4>2. c \in Caller \ {d} /\ i \in 1 .. Len(prepared[c])
        BY <2>1, <2>3
      <4> HIDE DEF e
      <4> QED
        BY <2>1, <4>1, <4>2, OthersUndisturbed
    <3> QED
      BY <1>0, <1>a, <2>1, <2>2, <2>3, <3>1
  <2>4. CASE c = d
    <3>1. changed'[c] = n /\ n = changed[c] + 1
      BY <1>0, <2>1, <2>4
    <3>2. CASE i = n
      BY <1>0, <2>1, <2>4, <3>1, <3>2 DEF Written
    <3>3. CASE i # n
      <4>1. prepared[c][i].path # e.path /\ prepared[c][i].path \in File
        BY <2>1, <2>4, <3>3, PreparedPaths DEF Prepared
      <4>2. tree'[prepared[c][i].path] = tree[prepared[c][i].path]
        BY <1>0, <2>1, <4>1
      <4>3. i <= changed'[c] <=> i <= changed[c]
        BY <1>0, <3>1, <3>3
      <4> QED
        BY <2>1, <2>2, <4>2, <4>3 DEF FileInv, Written, Untouched
    <3> QED
      BY <3>2, <3>3
  <2> QED
    BY <2>3, <2>4
<1>7. ASSUME NEW d \in Caller, Restore(d)
      PROVE  IF i <= changed'[c] THEN Written(prepared[c][i])' ELSE Untouched(prepared[c][i])'
  <2> DEFINE n == changed[d]
             e == prepared[d][n]
  <2>1. /\ n \in 1 .. Len(prepared[d]) /\ e \in Prepared /\ e.path \in File
        /\ tree' = [tree EXCEPT ![e.path] = e.before] /\ Touch({d}, e.path)
        /\ changed' = [changed EXCEPT ![d] = n - 1] /\ UNCHANGED <<prepared, verdict>>
    BY <1>0, <1>7, PreparedPaths DEF Restore, TypeInv, SourceTypeOK, CallInv, Prepared
  <2>2. c \notin disturbed
    BY <2>1 DEF Touch
  <2>3. CASE c # d
    <3>1. tree'[prepared[c][i].path] = tree[prepared[c][i].path]
      <4>1. \A g \in File \ {e.path} : tree'[g] = tree[g]
        BY <1>0, <2>1
      <4>2. c \in Caller \ {d} /\ i \in 1 .. Len(prepared[c])
        BY <2>1, <2>3
      <4> HIDE DEF e
      <4> QED
        BY <2>1, <4>1, <4>2, OthersUndisturbed
    <3> QED
      BY <1>0, <1>a, <2>1, <2>2, <2>3, <3>1
  <2>4. CASE c = d
    <3>1. changed'[c] = n - 1 /\ n = changed[c]
      BY <1>0, <2>1, <2>4
    <3>2. CASE i = n
      BY <1>0, <2>1, <2>4, <3>1, <3>2 DEF Untouched
    <3>3. CASE i # n
      <4>1. prepared[c][i].path # e.path /\ prepared[c][i].path \in File
        BY <2>1, <2>4, <3>3, PreparedPaths DEF Prepared
      <4>2. tree'[prepared[c][i].path] = tree[prepared[c][i].path]
        BY <1>0, <2>1, <4>1
      <4>3. i <= changed'[c] <=> i <= changed[c]
        BY <1>0, <3>1, <3>3
      <4> QED
        BY <2>1, <2>2, <4>2, <4>3 DEF FileInv, Written, Untouched
    <3> QED
      BY <3>2, <3>3
  <2> QED
    BY <2>3, <2>4
<1>8. ASSUME NEW d \in Caller, RestoreFails(d)
      PROVE  IF i <= changed'[c] THEN Written(prepared[c][i])' ELSE Untouched(prepared[c][i])'
  <2>1. c # d
    BY <1>0, <1>8 DEF RestoreFails, Conclude
  <2> QED
    BY <1>0, <1>8, <1>a, <2>1 DEF RestoreFails, Conclude
<1>9. CASE UNCHANGED sourceVars
  BY <1>9, <1>b DEF sourceVars
<1> QED
  BY <1>1, <1>2, <1>3, <1>4, <1>5, <1>6, <1>7, <1>8, <1>9, <1>b DEF SourceNext, SourceStep

\* Where there is no lock file, a patch is in all of the files of a call that
\* has reported it applied and in none of those of any other, through crashes
\* and failed writes, unless somebody else wrote them or the call has said that
\* its rollback failed.
THEOREM WholePatches == SourceSpec => []WholeWhenUnlocked
<1>1. SourceInit => LatchInv /\ FileInv
  BY DEF SourceInit, LatchInv, FileInv, Holding
<1>2. TypeInv /\ LatchInv /\ FileInv => WholeWhenUnlocked
  <2> SUFFICES ASSUME TypeInv, LatchInv, FileInv, NEW c \in Caller \ disturbed,
                      order[c] # Absent, latch[order[c].slot] = Absent, verdict[c] # "torn",
                      NEW i \in 1 .. Len(prepared[c])
               PROVE  IF verdict[c] = "applied" THEN Written(prepared[c][i]) ELSE Untouched(prepared[c][i])
    BY DEF WholeWhenUnlocked
  <2>1. at[c] \in Place \ (Holding \cup {"dead"})
    BY SourceAssumption DEF TypeInv, SourceTypeOK, LatchInv, Slots, SourceAssumption
  <2>2. at[c] \in {"lock", "ended"}
    BY <2>1 DEF Place, Holding, TypeInv, CallInv
  <2>3. CASE at[c] = "lock"
    BY <2>3 DEF TypeInv, CallInv
  <2>4. CASE at[c] = "ended"
    BY <2>4 DEF TypeInv, SourceTypeOK, CallInv, FileInv
  <2> QED
    BY <2>2, <2>3, <2>4
<1> QED
  BY <1>1, <1>2, TypeInit, TypeStep, LatchStep, FileStep, PTL DEF SourceSpec
=============================================================================

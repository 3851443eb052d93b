-------------------------- MODULE TodoPatchProofs --------------------------
(***************************************************************************)
(* Theorems about TodoPatch, for any calls, patches, notes and receipts,   *)
(* any number of crashes and failed writes, and any edits.                 *)
(***************************************************************************)
EXTENDS TodoPatch, SequenceTheorems, TLAPS

-----------------------------------------------------------------------------
(* Types, and what a call has verified *)

\* A call has its request from its arrival on, and until its lock is gone one
\* that applies has a verified patch.
VerifiedInv ==
  \A c \in Call :
    /\ phase[c] = "idle" => request[c] = None
    /\ phase[c] \in {"fetchBoth", "fetchPatch", "fetchAudit", "open"} \cup Inside
         => request[c] # None /\ request[c].op = "apply"
    /\ phase[c] \in {"source", "writeBoth", "writePatch", "writeAudit"}
         => request[c] # None /\ request[c].op = "render"
    /\ phase[c] \in Inside => Verified(c)

TypeInv == TypeOK /\ VerifiedInv

\* The fields of the requests of each kind (the input of executeAction).
LEMMA RequestFields ==
  ASSUME NEW r \in Requests
  PROVE  /\ r # None
         /\ r.op \in {"render", "apply"}
         /\ r.op = "render" => r.text \in Text
         /\ r.op = "apply" => r.approved \in Text /\ r.receipt \in ReceiptPath
BY TodoAssumption DEF TodoAssumption, Request

\* Nothing was requested yet.
LEMMA TypeInit == Init => TypeInv
<1> SUFFICES ASSUME Init PROVE TypeInv
  OBVIOUS
<1>1. todo \in Content /\ \A c \in Call : seen[c] \in Content
  BY DEF Init, Content
<1>2. audit \in Artifact \cup {None} /\ rendered \subseteq Artifact
  <2>1. CASE patch = None
    BY <2>1 DEF Init
  <2>2. CASE patch # None
    <3>1. [text |-> patch, source |-> <<>>] \in Artifact
      BY <1>1, <2>2 DEF Init, Artifact
    <3> QED
      BY <2>2, <3>1 DEF Init
  <2> QED
    BY <2>1, <2>2
<1> QED
  BY <1>1, <1>2, TodoAssumption
  DEF Init, TypeInv, TypeOK, VerifiedInv, Phase, Inside, Answers, TodoAssumption

\* No action forgets a request or changes what a call has verified.
LEMMA TypeStep == TypeInv /\ [Next]_vars => TypeInv'
<1> SUFFICES ASSUME TypeInv, [Next]_vars PROVE TypeInv'
  OBVIOUS
<1> USE DEF TypeInv, TypeOK, VerifiedInv, given, Goto, Answer, Answers, Phase, Inside
<1>1. ASSUME NEW c \in Call, NEW r \in Requests, Arrive(c, r) PROVE TypeInv'
  BY <1>1, RequestFields DEF Arrive, Verified
<1>2. ASSUME NEW n \in Note, Edit(n) PROVE TypeInv'
  BY <1>2 DEF Edit, Verified, Content
<1>3. ASSUME NEW c \in Call, ReadSource(c) PROVE TypeInv'
  BY <1>3 DEF ReadSource, Verified
<1>4. ASSUME NEW c \in Call, WritePatch(c) PROVE TypeInv'
  BY <1>4, RequestFields DEF WritePatch, Verified
<1>5. ASSUME NEW c \in Call, WriteAudit(c) PROVE TypeInv'
  <2>1. audit' \in Artifact
    BY <1>5, RequestFields DEF WriteAudit, Artifact
  <2> QED
    BY <1>5, <2>1 DEF WriteAudit, Verified
<1>6. ASSUME NEW c \in Call, FetchPatch(c) PROVE TypeInv'
  BY <1>6 DEF FetchPatch, Verified
<1>7. ASSUME NEW c \in Call, FetchAudit(c) PROVE TypeInv'
  BY <1>7 DEF FetchAudit, Verified
<1>8. ASSUME NEW c \in Call, Refuse(c) PROVE TypeInv'
  BY <1>8 DEF Refuse, Verified
<1>9. ASSUME NEW c \in Call, OpenLock(c) PROVE TypeInv'
  BY <1>9 DEF OpenLock, Verified
<1>10. ASSUME NEW c \in Call, ReadTodo(c) PROVE TypeInv'
  BY <1>10 DEF ReadTodo, Verified
<1>11. ASSUME NEW c \in Call, Repeat(c) \/ BeginAppend(c) \/ Recover(c) \/ Stale(c) PROVE TypeInv'
  BY <1>11 DEF Repeat, BeginAppend, Recover, Stale, Verified
<1>12. ASSUME NEW c \in Call, AppendPatch(c) PROVE TypeInv'
  <2>1. todo' \in Content
    BY <1>12 DEF AppendPatch, Verified, Content
  <2> QED
    BY <1>12, <2>1 DEF AppendPatch, Verified
<1>13. ASSUME NEW c \in Call, Record(c) PROVE TypeInv'
  <2>1. [text |-> patchMarkdown[c], source |-> artifact[c].source, result |-> seen[c]] \in Receipt
    BY <1>13 DEF Record, Verified, Artifact, Receipt
  <2> QED
    BY <1>13, <2>1 DEF Record, Verified
<1>14. ASSUME NEW c \in Call, WriteFails(c) \/ Unlock(c) PROVE TypeInv'
  BY <1>14 DEF WriteFails, Unlock, Verified
<1>15. ASSUME NEW c \in Call, Crash(c) PROVE TypeInv'
  BY <1>15, TodoAssumption DEF Crash, Verified, TodoAssumption
<1>16. CASE UNCHANGED vars
  BY <1>16 DEF vars, Verified
<1> QED
  BY <1>1, <1>2, <1>3, <1>4, <1>5, <1>6, <1>7, <1>8, <1>9, <1>10, <1>11, <1>12,
     <1>13, <1>14, <1>15, <1>16 DEF Next, Step, Idle

\* Whatever is rendered, applied, edited and lost, every variable keeps its
\* type: no patch reaches the TODO file or a receipt before it was verified.
THEOREM TypeCorrect == Spec => []TypeOK
<1>1. TypeInv => TypeOK
  BY DEF TypeInv
<1> QED
  BY <1>1, TypeInit, TypeStep, PTL DEF Spec

-----------------------------------------------------------------------------
(* The lock *)

\* The lock is taken when it is free, and only the call inside removes it.
LEMMA LockStep == TypeInv /\ LockIsTheirs /\ [Next]_vars => LockIsTheirs'
<1> SUFFICES ASSUME TypeInv, LockIsTheirs, [Next]_vars PROVE LockIsTheirs'
  OBVIOUS
<1> USE TodoAssumption DEF TypeInv, TypeOK, LockIsTheirs, given, Goto, Phase, Inside, TodoAssumption
<1>1. ASSUME NEW c \in Call, NEW r \in Requests, Arrive(c, r) PROVE LockIsTheirs'
  BY <1>1 DEF Arrive
<1>2. ASSUME NEW n \in Note, Edit(n) PROVE LockIsTheirs'
  BY <1>2 DEF Edit
<1>3. ASSUME NEW c \in Call, ReadSource(c) \/ WritePatch(c) \/ WriteAudit(c) PROVE LockIsTheirs'
  BY <1>3 DEF ReadSource, WritePatch, WriteAudit
<1>4. ASSUME NEW c \in Call, FetchPatch(c) \/ FetchAudit(c) \/ Refuse(c) PROVE LockIsTheirs'
  BY <1>4 DEF FetchPatch, FetchAudit, Refuse
<1>5. ASSUME NEW c \in Call, OpenLock(c) PROVE LockIsTheirs'
  BY <1>5 DEF OpenLock
<1>6. ASSUME NEW c \in Call, ReadTodo(c) \/ Repeat(c) \/ BeginAppend(c) \/ Recover(c) \/ Stale(c)
      PROVE LockIsTheirs'
  BY <1>6 DEF ReadTodo, Repeat, BeginAppend, Recover, Stale
<1>7. ASSUME NEW c \in Call, AppendPatch(c) \/ Record(c) \/ WriteFails(c) PROVE LockIsTheirs'
  BY <1>7 DEF AppendPatch, Record, WriteFails
<1>8. ASSUME NEW c \in Call, Unlock(c) PROVE LockIsTheirs'
  BY <1>8 DEF Unlock
<1>9. ASSUME NEW c \in Call, Crash(c) PROVE LockIsTheirs'
  BY <1>9 DEF Crash
<1>10. CASE UNCHANGED vars
  BY <1>10 DEF vars
<1> QED
  BY <1>1, <1>2, <1>3, <1>4, <1>5, <1>6, <1>7, <1>8, <1>9, <1>10 DEF Next, Step, Idle

\* Nobody is inside.
LEMMA LockInit == Init => LockIsTheirs
BY DEF Init, LockIsTheirs, Inside

\* The lock file admits one call at a time, and only a crash leaves it behind.
THEOREM LockHolds == Spec => []LockIsTheirs
BY TypeInit, TypeStep, LockInit, LockStep, PTL DEF Spec

-----------------------------------------------------------------------------
(* Contents that grow *)

\* The elements of Append(s, x) (appendPatch).
LEMMA ContentGrows ==
  ASSUME NEW s \in Content, NEW x \in Text \cup Note
  PROVE  /\ Append(s, x) \in Content
         /\ Len(s) \in Nat /\ Len(Append(s, x)) = Len(s) + 1
         /\ DOMAIN s = 1 .. Len(s) /\ DOMAIN Append(s, x) = 1 .. (Len(s) + 1)
         /\ \A i \in 1 .. Len(s) : Append(s, x)[i] = s[i]
         /\ Append(s, x)[Len(s) + 1] = x
BY AppendProperties, LenProperties DEF Content

\* Appending changes no earlier beginning of a content.
LEMMA BeginningStays ==
  ASSUME NEW s \in Content, NEW x \in Text \cup Note, NEW n \in 0 .. Len(s)
  PROVE  SubSeq(Append(s, x), 1, n) = SubSeq(s, 1, n)
<1>1. CASE n = 0
  BY <1>1, SubSeqEmpty
<1>2. CASE n # 0
  <2>1. n \in 1 .. Len(s) /\ 1 \in 1 .. Len(s) /\ <<x>> \in Seq(Text \cup Note)
    BY <1>2, LenProperties DEF Content
  <2>2. Append(s, x) = s \o <<x>>
    BY AppendIsConcat DEF Content
  <2> QED
    BY <2>1, <2>2, SubSeqOfConcat1 DEF Content
<1> QED
  BY <1>1, <1>2

\* A content begins with itself.
LEMMA PrefixOfItself ==
  ASSUME NEW s \in Content PROVE IsPrefix(s, s)
BY LenProperties DEF IsPrefix, Content

\* What a content begins with, it begins with after an append.
LEMMA PrefixGrows ==
  ASSUME NEW s \in Content, NEW t \in Content, NEW x \in Text \cup Note, IsPrefix(s, t)
  PROVE  IsPrefix(s, Append(t, x))
<1>1. Len(s) \in 0 .. Len(t)
  BY LenProperties DEF IsPrefix, Content
<1> QED
  BY <1>1, BeginningStays, ContentGrows DEF IsPrefix

\* Nothing begins with more than itself: an applied patch is not fresh again.
LEMMA NotFreshAgain ==
  ASSUME NEW s \in Content, NEW x \in Text \cup Note
  PROVE  ~IsPrefix(Append(s, x), s)
BY ContentGrows DEF IsPrefix

-----------------------------------------------------------------------------
(* What the TODO file holds *)

\* Every patch of content was approved and stands behind its source.
Placed(content) ==
  \A i \in DOMAIN content : content[i] \in Text =>
    /\ [text |-> content[i], source |-> SubSeq(content, 1, i - 1)] \in rendered
    /\ \E c \in Call : /\ request[c] # None /\ request[c].op = "apply"
                       /\ request[c].approved = content[i]

\* Content begins with what every receipt tells and every applied patch left.
Kept(content) ==
  /\ \A r \in ReceiptPath : receipts[r] # None => IsPrefix(receipts[r].result, content)
  /\ \A c \in Call : answer[c] = "applied" =>
       /\ artifact[c] \in Artifact /\ patchMarkdown[c] \in Text
       /\ IsPrefix(Append(artifact[c].source, patchMarkdown[c]), content)

\* The result that fits what a call has verified.
Result(c) == IF patchMarkdown[c] \in Vacant THEN artifact[c].source
             ELSE Append(artifact[c].source, patchMarkdown[c])

\* While a call is inside, what it read is as sound as the file itself.
ReadOf(c) ==
  /\ phase[c] \in {"receipt", "append"} => Placed(seen[c]) /\ Kept(seen[c])
  /\ phase[c] \in {"receipt", "append", "record"} => IsPrefix(seen[c], todo)
  /\ phase[c] = "append" => Fresh(c) /\ patchMarkdown[c] \notin Vacant
  /\ phase[c] = "record" => seen[c] = Result(c)
  /\ artifact[c] \in rendered \cup {None}
  /\ answer[c] = "applied" => phase[c] \in {"record", "unlock", "done", "dead"}

ReadInv == \A c \in Call : ReadOf(c)

ReceiptInv ==
  \A r \in ReceiptPath : receipts[r] # None =>
    receipts[r].result = IF receipts[r].text \in Vacant THEN receipts[r].source
                         ELSE Append(receipts[r].source, receipts[r].text)

\* The inductive invariant of the contents.
ContentInv ==
  /\ TypeInv /\ LockIsTheirs
  /\ audit \in rendered \cup {None}
  /\ Placed(todo) /\ Kept(todo)
  /\ ReadInv /\ ReceiptInv /\ AppliedOnce

\* An empty TODO file, and an audit of it if there is a patch.
LEMMA ContentInit == Init => ContentInv
<1> SUFFICES ASSUME Init PROVE ContentInv
  OBVIOUS
<1>1. Placed(todo)
  BY DEF Init, Placed
<1>2. Kept(todo) /\ ReadInv /\ ReceiptInv /\ AppliedOnce
  BY TodoAssumption DEF Init, Kept, ReadInv, ReadOf, ReceiptInv, AppliedOnce, TodoAssumption, Answers
<1> QED
  BY <1>1, <1>2, TypeInit, LockInit DEF ContentInv, Init

\* A step that leaves the file, the receipts, what callers read and their
\* answers alone, lets audits be written and requests arrive, preserves the rest.
LEMMA QuietStep ==
  ASSUME ContentInv, TypeInv', LockIsTheirs',
         NEW c \in Call,
         UNCHANGED <<todo, receipts>>,
         rendered \subseteq rendered', audit' \in rendered' \cup {None},
         \A d \in Call : request[d] # None => request'[d] = request[d],
         \A d \in Call : d # c => /\ phase'[d] = phase[d] /\ seen'[d] = seen[d]
                                  /\ artifact'[d] = artifact[d]
                                  /\ patchMarkdown'[d] = patchMarkdown[d]
                                  /\ answer'[d] = answer[d],
         artifact'[c] \in rendered' \cup {None},
         answer'[c] = "applied" => /\ answer[c] = "applied"
                                   /\ artifact'[c] = artifact[c]
                                   /\ patchMarkdown'[c] = patchMarkdown[c]
                                   /\ phase'[c] \in {"record", "unlock", "done", "dead"},
         phase'[c] \in {"receipt", "append", "record"} =>
           /\ phase[c] = "receipt" /\ seen'[c] = seen[c]
           /\ artifact'[c] = artifact[c] /\ patchMarkdown'[c] = patchMarkdown[c]
           /\ phase'[c] = "append" => Fresh(c) /\ patchMarkdown[c] \notin Vacant
           /\ phase'[c] = "record" => seen[c] = Result(c)
  PROVE  ContentInv'
<1> USE DEF ContentInv
<1>1. \A content : Placed(content) => Placed(content)'
  BY DEF Placed
<1>2. \A content : Kept(content) => Kept(content)'
  BY DEF Kept
<1>3. Placed(todo)' /\ Kept(todo)'
  BY <1>1, <1>2 DEF Placed, Kept
<1>4. ReceiptInv'
  BY DEF ReceiptInv
<1>5. AppliedOnce'
  BY DEF AppliedOnce
<1>6. ASSUME NEW d \in Call PROVE ReadOf(d)'
  <2>1. CASE d = c
    <3>1. phase'[c] \in {"receipt", "append"} => Placed(seen[c])' /\ Kept(seen[c])'
      BY <1>1, <1>2 DEF ReadInv, ReadOf
    <3>2. (phase[c] = "append")' => Fresh(c)' /\ (patchMarkdown[c] \notin Vacant)'
      BY DEF ReadInv, ReadOf, Fresh
    <3>3. (phase[c] = "record")' => (seen[c] = Result(c))'
      BY DEF ReadInv, ReadOf, Result
    <3> QED
      BY <2>1, <3>1, <3>2, <3>3 DEF ReadInv, ReadOf
  <2>2. CASE d # c
    <3>1. /\ phase'[d] = phase[d] /\ seen'[d] = seen[d] /\ artifact'[d] = artifact[d]
          /\ patchMarkdown'[d] = patchMarkdown[d] /\ answer'[d] = answer[d]
      BY <2>2
    <3>2. Fresh(d)' = Fresh(d) /\ Result(d)' = Result(d)
      BY <3>1 DEF Fresh, Result
    <3> QED
      BY <1>1, <1>2, <3>1, <3>2 DEF ReadInv, ReadOf
  <2> QED
    BY <2>1, <2>2
<1> QED
  BY <1>3, <1>4, <1>5, <1>6 DEF ReadInv

\* A call that holds the lock is the only one inside.
LEMMA Alone ==
  ASSUME LockIsTheirs, NEW c \in Call, NEW d \in Call, phase[c] \in Inside, phase[d] \in Inside
  PROVE  c = d
BY DEF LockIsTheirs

\* A patch behind its source, or a note, keeps every patch in its place.
LEMMA PlacedGrows ==
  ASSUME NEW s \in Content, NEW x \in Text \cup Note, Placed(s),
         x \in Text => /\ [text |-> x, source |-> s] \in rendered
                       /\ \E c \in Call : /\ request[c] # None /\ request[c].op = "apply"
                                          /\ request[c].approved = x
  PROVE  Placed(Append(s, x))
<1> DEFINE next == Append(s, x)
<1>1. /\ DOMAIN s = 1 .. Len(s) /\ DOMAIN next = 1 .. (Len(s) + 1) /\ Len(s) \in Nat
      /\ next[Len(s) + 1] = x /\ \A i \in 1 .. Len(s) : next[i] = s[i]
  BY ContentGrows
<1>2. SubSeq(next, 1, (Len(s) + 1) - 1) = s
  <2>1. (Len(s) + 1) - 1 = Len(s) /\ Len(s) \in 0 .. Len(s)
    BY <1>1
  <2> QED
    BY <2>1, BeginningStays, SubSeqFull DEF Content
<1>3. \A i \in 1 .. Len(s) : SubSeq(next, 1, i - 1) = SubSeq(s, 1, i - 1)
  <2>1. \A i \in 1 .. Len(s) : i - 1 \in 0 .. Len(s)
    BY <1>1
  <2> QED
    BY <2>1, BeginningStays
<1> HIDE DEF next
<1>4. SUFFICES ASSUME NEW i \in DOMAIN next, next[i] \in Text
      PROVE  /\ [text |-> next[i], source |-> SubSeq(next, 1, i - 1)] \in rendered
             /\ \E c \in Call : /\ request[c] # None /\ request[c].op = "apply"
                                /\ request[c].approved = next[i]
  BY DEF Placed, next
<1>5. CASE i \in 1 .. Len(s)
  BY <1>1, <1>3, <1>4, <1>5 DEF Placed
<1>6. CASE i = Len(s) + 1
  BY <1>1, <1>2, <1>4, <1>6
<1> QED
  BY <1>1, <1>4, <1>5, <1>6

\* Appending takes nothing away that a receipt or an applied patch vouches for.
LEMMA KeptGrows ==
  ASSUME TypeOK, NEW s \in Content, NEW x \in Text \cup Note, Kept(s)
  PROVE  Kept(Append(s, x))
<1>1. \A r \in ReceiptPath : receipts[r] # None => receipts[r].result \in Content
  BY DEF TypeOK, Receipt
<1>2. \A c \in Call : answer[c] = "applied" =>
        Append(artifact[c].source, patchMarkdown[c]) \in Content
  BY ContentGrows DEF Kept, Artifact
<1> QED
  BY <1>1, <1>2, PrefixGrows DEF Kept

\* What a call reads is as sound as the file.
LEMMA ReadTodoStep ==
  ASSUME ContentInv, NEW c \in Call, ReadTodo(c), TypeInv', LockIsTheirs'
  PROVE  ContentInv'
<1> USE DEF ContentInv
<1>1. /\ phase' = [phase EXCEPT ![c] = "receipt"] /\ seen' = [seen EXCEPT ![c] = todo]
      /\ phase[c] = "read"
      /\ UNCHANGED <<todo, receipts, audit, rendered, request, artifact, patchMarkdown, answer>>
  BY DEF ReadTodo, Goto, given
<1>2. phase \in [Call -> Phase] /\ seen \in [Call -> Content] /\ todo \in Content
  BY DEF TypeInv, TypeOK
<1>3. \A content : Placed(content)' = Placed(content)
  BY <1>1 DEF Placed
<1>4. \A content : Kept(content)' = Kept(content)
  BY <1>1 DEF Kept
<1>5. ASSUME NEW d \in Call PROVE ReadOf(d)'
  <2>1. CASE d = c
    BY <1>1, <1>2, <1>3, <1>4, <2>1, PrefixOfItself DEF ReadInv, ReadOf, Placed, Kept
  <2>2. CASE d # c
    <3>1. phase'[d] = phase[d] /\ seen'[d] = seen[d]
      BY <1>1, <1>2, <2>2
    <3>2. Fresh(d)' = Fresh(d) /\ Result(d)' = Result(d)
      BY <1>1, <3>1 DEF Fresh, Result
    <3> QED
      BY <1>1, <1>3, <1>4, <3>1, <3>2 DEF ReadInv, ReadOf
  <2> QED
    BY <2>1, <2>2
<1>6. Placed(todo)' /\ Kept(todo)'
  BY <1>1 DEF Placed, Kept
<1>7. ReceiptInv' /\ AppliedOnce' /\ audit' \in rendered' \cup {None}
  BY <1>1 DEF ReceiptInv, AppliedOnce
<1> QED
  BY <1>5, <1>6, <1>7 DEF ReadInv

\* The file becomes what its call read, as sound as it was then, with an approved
\* patch behind its source; a patch applied before would make that source longer.
LEMMA AppendStep ==
  ASSUME ContentInv, NEW c \in Call, AppendPatch(c), TypeInv', LockIsTheirs'
  PROVE  ContentInv'
<1> USE DEF ContentInv
<1> DEFINE text == patchMarkdown[c]
           source == artifact[c].source
<1>1. /\ phase' = [phase EXCEPT ![c] = "record"] /\ todo' = Append(seen[c], text)
      /\ seen' = [seen EXCEPT ![c] = todo'] /\ answer' = [answer EXCEPT ![c] = "applied"]
      /\ phase[c] = "append"
      /\ UNCHANGED <<receipts, audit, rendered, request, artifact, patchMarkdown>>
  BY DEF AppendPatch, Goto, Answer, given
<1>2. /\ phase \in [Call -> Phase] /\ seen \in [Call -> Content] /\ todo \in Content
      /\ answer \in [Call -> Answers \cup {None}] /\ rendered \subseteq Artifact
      /\ patchMarkdown \in [Call -> Text \cup {None}]
  BY DEF TypeInv, TypeOK
<1>3. /\ Placed(seen[c]) /\ Kept(seen[c]) /\ seen[c] = source /\ text \notin Vacant
      /\ artifact[c] \in rendered \cup {None}
  BY <1>1 DEF ReadInv, ReadOf, Fresh
<1>4. /\ text \in Text /\ artifact[c] \in Artifact /\ artifact[c] \in rendered
      /\ artifact[c].text = text
      /\ request[c] # None /\ request[c].op = "apply" /\ request[c].approved = text
  BY <1>1, <1>2, <1>3 DEF TypeInv, VerifiedInv, Verified, Inside
<1>5. [text |-> text, source |-> seen[c]] = artifact[c]
  BY <1>3, <1>4 DEF Artifact
<1>6. seen[c] \in Content
  BY <1>2
<1>7. Placed(todo)'
  <2>1. Placed(Append(seen[c], text))
    BY <1>3, <1>4, <1>5, <1>6, PlacedGrows
  <2> QED
    BY <1>1, <2>1 DEF Placed
<1>8. Kept(Append(seen[c], text))
  BY <1>3, <1>4, <1>6, KeptGrows DEF TypeInv
<1>9. IsPrefix(Append(seen[c], text), Append(seen[c], text))
  BY <1>4, <1>6, ContentGrows, PrefixOfItself
<1>10. Kept(todo)'
  <2>1. ASSUME NEW d \in Call, answer'[d] = "applied"
        PROVE  /\ artifact'[d] \in Artifact /\ patchMarkdown'[d] \in Text
               /\ IsPrefix(Append(artifact'[d].source, patchMarkdown'[d]), todo')
    <3>1. CASE d = c
      BY <1>1, <1>3, <1>4, <1>9, <3>1
    <3>2. CASE d # c
      BY <1>1, <1>2, <1>8, <2>1, <3>2 DEF Kept
    <3> QED
      BY <3>1, <3>2
  <2> QED
    BY <1>1, <1>8, <2>1 DEF Kept
<1>11. ASSUME NEW d \in Call, d # c
       PROVE  phase'[d] = phase[d] /\ phase[d] \notin {"receipt", "append", "record"}
  BY <1>1, <1>2, <1>11, Alone DEF Inside
<1>12. ASSUME NEW d \in Call PROVE ReadOf(d)'
  <2>1. CASE d = c
    <3>1. phase'[c] = "record" /\ seen'[c] = todo'
      BY <1>1, <1>2
    <3>2. IsPrefix(seen'[c], todo')
      BY <1>1, <1>9, <3>1
    <3>3. (seen[c] = Result(c))'
      BY <1>1, <1>3, <3>1 DEF Result
    <3> QED
      BY <1>1, <1>3, <2>1, <3>1, <3>2, <3>3 DEF ReadOf
  <2>2. CASE d # c
    BY <1>1, <1>2, <1>11, <2>2 DEF ReadInv, ReadOf
  <2> QED
    BY <2>1, <2>2
<1>13. AppliedOnce'
  <2>1. ASSUME NEW d \in Call, d # c, answer[d] = "applied" PROVE artifact[d] # artifact[c]
    <3>1. IsPrefix(Append(artifact[d].source, patchMarkdown[d]), source) /\ patchMarkdown[d] \in Text
      BY <1>3, <2>1 DEF Kept
    <3>2. source \in Content
      BY <1>4 DEF Artifact
    <3> QED
      BY <3>1, <3>2, NotFreshAgain
  <2> QED
    BY <1>1, <1>2, <2>1 DEF AppliedOnce
<1> QED
  BY <1>1, <1>7, <1>10, <1>12, <1>13 DEF ReadInv, ReceiptInv

\* A receipt tells of the content its call has just left.
LEMMA RecordStep ==
  ASSUME ContentInv, NEW c \in Call, Record(c), TypeInv', LockIsTheirs'
  PROVE  ContentInv'
<1> USE DEF ContentInv
<1> DEFINE path == request[c].receipt
           receipt == [text |-> patchMarkdown[c], source |-> artifact[c].source, result |-> seen[c]]
<1>1. /\ phase' = [phase EXCEPT ![c] = "unlock"]
      /\ receipts' = [receipts EXCEPT ![path] = receipt]
      /\ phase[c] = "record"
      /\ UNCHANGED <<todo, audit, rendered, request, artifact, patchMarkdown, seen, answer>>
  BY DEF Record, Goto, given
<1>2. phase \in [Call -> Phase] /\ receipts \in [ReceiptPath -> Receipt \cup {None}]
  BY DEF TypeInv, TypeOK
<1>3. IsPrefix(receipt.result, todo) /\ receipt.result = Result(c)
  BY <1>1 DEF ReadInv, ReadOf
<1>4. \A r \in ReceiptPath : receipts'[r] = receipts[r] \/ receipts'[r] = receipt
  BY <1>1, <1>2
<1>5. Kept(todo)' /\ ReceiptInv'
  BY <1>1, <1>3, <1>4 DEF Kept, ReceiptInv, Result
<1>6. ASSUME NEW d \in Call PROVE ReadOf(d)'
  <2>1. CASE d = c
    BY <1>1, <1>2, <2>1 DEF ReadInv, ReadOf
  <2>2. CASE d # c
    <3>1. phase'[d] = phase[d] /\ phase[d] \notin {"receipt", "append", "record"}
      BY <1>1, <1>2, <2>2, Alone DEF Inside
    <3> QED
      BY <1>1, <3>1 DEF ReadInv, ReadOf
  <2> QED
    BY <2>1, <2>2
<1>7. Placed(todo)' /\ AppliedOnce' /\ audit' \in rendered' \cup {None}
  BY <1>1 DEF Placed, AppliedOnce
<1> QED
  BY <1>5, <1>6, <1>7 DEF ReadInv

\* A note at the end disturbs no patch and no receipt.
LEMMA EditStep ==
  ASSUME ContentInv, NEW n \in Note, Edit(n), TypeInv', LockIsTheirs'
  PROVE  ContentInv'
<1> USE DEF ContentInv
<1>1. /\ todo' = Append(todo, n)
      /\ UNCHANGED <<phase, receipts, audit, rendered, request, artifact, patchMarkdown, seen, answer>>
  BY DEF Edit, given
<1>2. todo \in Content /\ seen \in [Call -> Content] /\ n \notin Text
  BY TodoAssumption DEF TypeInv, TypeOK, TodoAssumption
<1>3. Placed(Append(todo, n)) /\ Kept(Append(todo, n))
  BY <1>2, PlacedGrows, KeptGrows DEF TypeInv
<1>4. Placed(todo)' /\ Kept(todo)'
  BY <1>1, <1>3 DEF Placed, Kept
<1>5. ASSUME NEW d \in Call PROVE ReadOf(d)'
  <2>1. IsPrefix(seen[d], todo) => IsPrefix(seen[d], Append(todo, n))
    BY <1>2, PrefixGrows
  <2>2. Placed(seen[d])' = Placed(seen[d]) /\ Kept(seen[d])' = Kept(seen[d])
    BY <1>1 DEF Placed, Kept
  <2>3. Fresh(d)' = Fresh(d) /\ Result(d)' = Result(d)
    BY <1>1 DEF Fresh, Result
  <2> QED
    BY <1>1, <2>1, <2>2, <2>3 DEF ReadInv, ReadOf
<1>6. ReceiptInv' /\ AppliedOnce' /\ audit' \in rendered' \cup {None}
  BY <1>1 DEF ReceiptInv, AppliedOnce
<1> QED
  BY <1>4, <1>5, <1>6 DEF ReadInv

\* A step that renders, fetches, decides or ends is quiet.
LEMMA ContentStep == ContentInv /\ [Next]_vars => ContentInv'
<1> SUFFICES ASSUME ContentInv, [Next]_vars PROVE ContentInv'
  OBVIOUS
<1>1. TypeInv' /\ LockIsTheirs'
  BY TypeStep, LockStep DEF ContentInv
<1>2. /\ phase \in [Call -> Phase] /\ seen \in [Call -> Content]
      /\ request \in [Call -> Requests \cup {None}] /\ answer \in [Call -> Answers \cup {None}]
      /\ patchMarkdown \in [Call -> Text \cup {None}] /\ artifact \in [Call -> Artifact \cup {None}]
  BY DEF ContentInv, TypeInv, TypeOK
<1>3. /\ audit \in rendered \cup {None}
      /\ \A d \in Call : artifact[d] \in rendered \cup {None}
      /\ \A d \in Call : answer[d] = "applied" => phase[d] \in {"record", "unlock", "done", "dead"}
  BY DEF ContentInv, ReadInv, ReadOf
<1> USE <1>1, <1>2, <1>3
<1>4. ASSUME NEW c \in Call, NEW r \in Requests, Arrive(c, r) PROVE ContentInv'
  <2>1. request[c] = None
    BY <1>4 DEF Arrive, Goto, ContentInv, TypeInv, VerifiedInv
  <2> QED
    BY <1>4, <2>1, QuietStep DEF Arrive, Goto
<1>5. ASSUME NEW c \in Call, ReadSource(c) PROVE ContentInv'
  BY <1>5, QuietStep DEF ReadSource, Goto, given
<1>6. ASSUME NEW c \in Call, WritePatch(c) PROVE ContentInv'
  BY <1>6, QuietStep DEF WritePatch, Goto, Answer, given
<1>7. ASSUME NEW c \in Call, WriteAudit(c) PROVE ContentInv'
  BY <1>7, QuietStep DEF WriteAudit, Goto, Answer, given
<1>8. ASSUME NEW c \in Call, FetchPatch(c) PROVE ContentInv'
  BY <1>8, QuietStep DEF FetchPatch, Goto
<1>9. ASSUME NEW c \in Call, FetchAudit(c) PROVE ContentInv'
  BY <1>9, QuietStep DEF FetchAudit, Goto
<1>10. ASSUME NEW c \in Call, Refuse(c) PROVE ContentInv'
  BY <1>10, QuietStep DEF Refuse, Goto, Answer, given
<1>11. ASSUME NEW c \in Call, OpenLock(c) PROVE ContentInv'
  BY <1>11, QuietStep DEF OpenLock, Goto, given
<1>12. ASSUME NEW c \in Call, Repeat(c) \/ Stale(c) PROVE ContentInv'
  BY <1>12, QuietStep DEF Repeat, Stale, Goto, Answer, given
<1>13. ASSUME NEW c \in Call, BeginAppend(c) PROVE ContentInv'
  BY <1>13, QuietStep DEF BeginAppend, Goto, given
<1>14. ASSUME NEW c \in Call, Recover(c) PROVE ContentInv'
  <2>1. seen[c] = Result(c)
    BY <1>14 DEF Recover, Fresh, wasAlreadyAppended, Result
  <2> QED
    BY <1>14, <2>1, QuietStep DEF Recover, Goto, Answer, given
<1>15. ASSUME NEW c \in Call, WriteFails(c) PROVE ContentInv'
  BY <1>15, QuietStep DEF WriteFails, Goto, Answer, given
<1>16. ASSUME NEW c \in Call, Unlock(c) PROVE ContentInv'
  BY <1>16, QuietStep DEF Unlock, Goto, given
<1>17. ASSUME NEW c \in Call, Crash(c) PROVE ContentInv'
  BY <1>17, QuietStep DEF Crash, given
<1>18. CASE UNCHANGED vars
  <2>1. UNCHANGED <<todo, receipts, audit, rendered, phase, seen, request, artifact, patchMarkdown, answer>>
    BY <1>18 DEF vars
  <2> QED
    BY <2>1 DEF ContentInv, Placed, Kept, ReadInv, ReadOf, ReceiptInv, AppliedOnce, Fresh, Result
<1> QED
  BY <1>4, <1>5, <1>6, <1>7, <1>8, <1>9, <1>10, <1>11, <1>12, <1>13, <1>14, <1>15, <1>16, <1>17, <1>18,
     ReadTodoStep, AppendStep, RecordStep, EditStep DEF Next, Step, Idle

-----------------------------------------------------------------------------
(* What applyTodoPatch promises *)

\* Only approved patches enter the TODO file, each right behind the content it
\* was rendered for, whoever renders, applies, crashes or edits meanwhile.
THEOREM PatchesInPlace == Spec => []PatchesFollowTheirSource
<1>1. ContentInv => PatchesFollowTheirSource
  BY DEF ContentInv, Placed, PatchesFollowTheirSource
<1> QED
  BY <1>1, ContentInit, ContentStep, PTL DEF Spec

\* A receipt always tells of a TODO file that was there, with its patch applied.
THEOREM ReceiptsHold == Spec => []ReceiptIsHonest
<1>1. ContentInv => ReceiptIsHonest
  BY DEF ContentInv, Kept, ReceiptInv, ReceiptIsHonest
<1> QED
  BY <1>1, ContentInit, ContentStep, PTL DEF Spec

\* However often one rendering is applied, one call says that it did it.
THEOREM RenderingAppliedOnce == Spec => []AppliedOnce
<1>1. ContentInv => AppliedOnce
  BY DEF ContentInv
<1> QED
  BY <1>1, ContentInit, ContentStep, PTL DEF Spec
=============================================================================

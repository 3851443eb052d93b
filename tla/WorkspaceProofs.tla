-------------------------- MODULE WorkspaceProofs --------------------------
(***************************************************************************)
(* Theorems about the parts that work on one repository and share nothing: *)
(* the LLM client, the base cache of a workspace comparison, event logs    *)
(* and pipeline runs.  They hold for any timeouts, and for any number of   *)
(* calls, comparisons, runs, registrations and events.                     *)
(***************************************************************************)
EXTENDS Functions, SequenceTheorems, WellFoundedInduction, TLAPS, PipelineRun, BaseCache, LlmClient

-----------------------------------------------------------------------------
(* LlmClient: the time a call may take.                                    *)

\* The part of a call's time that its requests so far may have taken.
Requested == IF request = 1 THEN RequestTime ELSE 2 * RequestTime

ClockTypes ==
  /\ phase \in {"idle", "routing", "sending", "waiting", "listing"}
  /\ request \in 1 .. 2 /\ attempt \in 0 .. 2 /\ deadline \in BOOLEAN
  /\ requestLeft \in Nat /\ listLeft \in Nat /\ routeLeft \in Nat
  /\ spent \in Nat /\ late \in Nat /\ sends \in Nat

\* What a call has spent and what its running clock has left make up the time
\* it is allowed: the clock of a request keeps running while models are listed,
\* and only the list may outlast it.
TimeInv ==
  /\ phase = "idle" => spent <= RouteTime + 2 * RequestTime + ListTime
  /\ phase = "routing" => spent + routeLeft <= RouteTime
  /\ phase \in {"sending", "waiting"} \/ (phase = "listing" /\ requestLeft > 0) =>
       spent + requestLeft <= RouteTime + Requested
  /\ phase = "listing" => spent + listLeft <= RouteTime + Requested + ListTime

\* Three attempts of each request.
SendInv ==
  /\ phase = "idle" => sends <= 6
  /\ phase = "routing" => sends = 0
  /\ phase \in {"sending", "waiting", "listing"} =>
       sends <= IF request = 1 THEN attempt + 1 ELSE attempt + 4
  /\ phase = "waiting" => attempt <= 1

\* Past the deadline time passes only for the route or one model list.
LateInv ==
  /\ phase = "idle" => late <= Max2(RouteTime, ListTime)
  /\ phase = "routing" => late <= spent
  /\ phase \in {"sending", "waiting"} => late = 0
  /\ phase = "listing" => late + listLeft <= ListTime
  /\ ~deadline => late = 0

ClockInv == ClockTypes /\ TimeInv /\ SendInv /\ LateInv

\* The bounds of the clocks.
LEMMA Times == RequestTime \in Nat /\ ListTime \in Nat /\ RouteTime \in Nat
BY LlmAssumption DEF LlmAssumption

\* A call that has not begun has no clock.
LEMMA ClockInit == LlmInit => ClockInv
<1> SUFFICES ASSUME LlmInit PROVE ClockInv
  OBVIOUS
<1>1. ClockTypes /\ SendInv
  <2>1. deadline \in BOOLEAN
    BY Zenon DEF LlmInit
  <2> QED
    BY <2>1 DEF LlmInit, ClockTypes, SendInv
<1>2. TimeInv /\ LateInv
  BY Times DEF LlmInit, TimeInv, LateInv, Max2
<1> QED
  BY <1>1, <1>2 DEF ClockInv

\* A call that ends is within all of its bounds, wherever it was.
LEMMA EndStep == ASSUME ClockInv, NEW what, End(what) PROVE ClockInv'
BY Times DEF End, ClockInv, ClockTypes, TimeInv, SendInv, LateInv, Requested, Max2

\* A request starts with a clock of its own, unless the deadline has struck.
LEMMA StartStep ==
  ASSUME ClockInv, NEW n \in 1 .. 2, StartRequest(n),
         (n = 1 /\ phase = "routing") \/ (n = 2 /\ phase = "sending" /\ request = 1)
  PROVE  ClockInv'
<1>1. CASE deadline
  BY <1>1, EndStep DEF StartRequest
<1>2. CASE ~deadline
  BY <1>2, Times DEF StartRequest, Send, ClockInv, ClockTypes, TimeInv, SendInv, LateInv, Requested
<1> QED
  BY <1>1, <1>2 DEF ClockInv, ClockTypes

\* A retry waits on the clock of its request, and a signal ends the call.
LEMMA RetryStep ==
  ASSUME ClockInv, phase \in {"sending", "listing"}, ~(attempt >= 2), RetryOr(FALSE)
  PROVE  ClockInv'
<1>1. CASE Aborted
  BY <1>1, EndStep DEF RetryOr
<1>2. CASE ~Aborted
  BY <1>2, Times DEF RetryOr, Aborted, ClockInv, ClockTypes, TimeInv, SendInv, LateInv, Requested
<1> QED
  BY <1>1, <1>2

\* An answer that is no use ends the call, or waits for the next attempt.
LEMMA RejectStep == ASSUME ClockInv, phase = "sending", NEW a, Reject(a) PROVE ClockInv'
BY EndStep, StartStep DEF Reject

\* Whatever the provider answers and whichever clock runs out first.
LEMMA ClockStep == ClockInv /\ [LlmNext]_llmVars => ClockInv'
<1> SUFFICES ASSUME ClockInv, [LlmNext]_llmVars PROVE ClockInv'
  OBVIOUS
<1>1. CASE BeginCall
  BY <1>1, Times DEF BeginCall, ClockInv, ClockTypes, TimeInv, SendInv, LateInv
<1>2. CASE Resolve
  BY <1>2, Times DEF Resolve, ClockInv, ClockTypes, TimeInv, SendInv, LateInv
<1>3. CASE Routed
  BY <1>3, EndStep, StartStep DEF Routed
<1>4. ASSUME NEW a \in Answer, Reply(a) PROVE ClockInv'
  <2>1. CASE a = "content"
    BY <1>4, <2>1, EndStep DEF Reply
  <2>2. CASE a = "malformed"
    BY <1>4, <2>2, EndStep, RejectStep DEF Reply
  <2>3. CASE a = "busy"
    <3>1. PICK code \in {"throttled", "server error"} : RetryOr(Reject(code))
      BY <1>4, <2>3 DEF Reply
    <3>2. phase = "sending"
      BY <1>4 DEF Reply
    <3>3. CASE attempt >= 2
      BY <3>1, <3>2, <3>3, RejectStep DEF RetryOr
    <3>4. CASE ~(attempt >= 2)
      BY <3>1, <3>2, <3>4, RetryStep DEF RetryOr
    <3> QED
      BY <3>3, <3>4
  <2>4. CASE a = "network"
    <3>1. phase = "sending" /\ RetryOr(Reject(a))
      BY <1>4, <2>4 DEF Reply
    <3>2. CASE attempt >= 2
      BY <3>1, <3>2, RejectStep DEF RetryOr
    <3>3. CASE ~(attempt >= 2)
      BY <3>1, <3>3, RetryStep DEF RetryOr
    <3> QED
      BY <3>2, <3>3
  <2>5. CASE a = "invalid model"
    <3>1. phase = "sending" /\ FetchModels
      BY <1>4, <2>5 DEF Reply
    <3> QED
      BY <3>1, Times DEF FetchModels, ClockInv, ClockTypes, TimeInv, SendInv, LateInv, Requested
  <2>6. CASE a \notin {"content", "malformed", "busy", "network", "invalid model"}
    BY <1>4, <2>6, RejectStep DEF Reply
  <2> QED
    BY <2>1, <2>2, <2>3, <2>4, <2>5, <2>6
<1>5. CASE AbortFetch
  BY <1>5, EndStep DEF AbortFetch
<1>6. CASE WaitEnds
  <2>1. CASE \E what : End(what)
    BY <2>1, EndStep
  <2>2. CASE phase = "waiting" /\ ~Aborted /\ Send(attempt + 1) /\ UNCHANGED <<route, request, requestLeft, spent>>
    BY <2>2, Times DEF Send, Aborted, ClockInv, ClockTypes, TimeInv, SendInv, LateInv, Requested
  <2> QED
    BY <1>6, <2>1, <2>2 DEF WaitEnds
<1>7. CASE Listed
  <2>1. CASE End("failed")
    BY <2>1, EndStep
  <2>2. CASE phase = "listing" /\ RetryOr(End("failed")) /\ ~(attempt >= 2)
    BY <2>2, RetryStep DEF RetryOr
  <2> QED
    BY <1>7, <2>1, <2>2 DEF Listed, RetryOr
<1>8. CASE Deadline
  BY <1>8 DEF Deadline, ClockInv, ClockTypes, TimeInv, SendInv, LateInv, Requested
<1>9. CASE TickLlm
  BY <1>9, Times DEF TickLlm, Due, Aborted, CountedDown, ClockInv, ClockTypes, TimeInv, SendInv, LateInv, Requested
<1>10. CASE UNCHANGED llmVars
  BY <1>10 DEF llmVars, ClockInv, ClockTypes, TimeInv, SendInv, LateInv, Requested
<1> QED
  BY <1>1, <1>2, <1>3, <1>4, <1>5, <1>6, <1>7, <1>8, <1>9, <1>10 DEF LlmNext

\* A call takes no longer than the route, two requests and one model list,
\* sends at most six times, and past the deadline waits for the route or the
\* model list at most.
THEOREM CallsAreBounded == LlmSpec => []CallIsBounded
<1>1. ClockInv => CallIsBounded
  BY Times DEF ClockInv, ClockTypes, TimeInv, SendInv, LateInv, Requested, CallIsBounded, Max2
<1> QED
  BY <1>1, ClockInit, ClockStep, PTL DEF LlmSpec

-----------------------------------------------------------------------------
(* BaseCache: comparisons that share an entry.                             *)

\* What a file of the base cache may hold.
Held == BaseRun \cup {Missing}

\* Types of the variables.
CacheTypes ==
  /\ entry \in [BaseFile -> Held]
  /\ doing \in [Comparison -> Doing]
  /\ left \in [Comparison -> SUBSET BaseFile]
  /\ base \in [Comparison -> [BaseFile -> Held]]
  /\ linked \in [Comparison -> [BaseFile -> Held]]
  /\ overlap \in SUBSET Comparison /\ merged \in BOOLEAN

\* All files of the entry that are there are of one base run.
OneRun == \E run \in BaseRun : \A f \in BaseFile : entry[f] \in {Missing, run}

\* The entry and the memory of c are the same base run.
Holds(c) == \E run \in BaseRun : entry = [f \in BaseFile |-> run] /\ base[c] = entry

\* The base run that c has in memory is the one it computed.
Computed(c) == base[c] = [f \in BaseFile |-> c]

\* Where c is tells what it has in memory, and what of it is in the entry.
Whole(c) ==
  /\ doing[c] = "read" => \A f \in BaseFile \ left[c] : base[c][f] = entry[f]
  /\ doing[c] \in {"current", "link", "reread"} => Holds(c)
  /\ doing[c] = "link" => \A f \in Linked \ left[c] : linked[c][f] = entry[f]
  /\ doing[c] = "compared" =>
       \E run \in BaseRun : base[c] = [f \in BaseFile |-> run] /\ \A f \in Linked : linked[c][f] = run

\* Unless two comparisons met in the entry (overlap), or one fell back on
\* copying (merged), a comparison has one base run in memory and on disk.
CacheInv ==
  /\ CacheTypes
  /\ \A c \in Comparison : doing[c] \in {"replace", "rename"} => Computed(c)
  /\ ~merged => /\ OneRun
                /\ \A c \in Comparison : doing[c] # "copy"
                /\ \A c \in Comparison \ overlap : Whole(c)

\* Where a comparison looks at no file of the entry.
Away == {"idle", "compute", "compared", "failed", "killed"}

\* Nothing of a comparison changes but what c does itself.
Only(c) ==
  /\ DOMAIN doing' = Comparison
  /\ \A d \in Comparison \ {c} :
       doing'[d] = doing[d] /\ left'[d] = left[d] /\ base'[d] = base[d] /\ linked'[d] = linked[d]

\* An entry found at the start is of one run, or half of one.
LEMMA CacheStart == CacheInit => CacheInv
<1> SUFFICES ASSUME CacheInit PROVE CacheInv
  OBVIOUS
<1>1. CacheTypes
  BY DEF CacheInit, CacheTypes, Held, BaseRun, Doing, Empty
<1>2. OneRun
  BY DEF CacheInit, OneRun, BaseRun
<1> QED
  BY <1>1, <1>2 DEF CacheInit, CacheInv, Whole

\* Every step keeps the types, and leaves the other comparisons alone.
LEMMA CacheStepTypes ==
  ASSUME CacheTypes, NEW c \in Comparison, ComparisonStep(c)
  PROVE  CacheTypes' /\ Only(c)
<1> USE DEF CacheTypes, Only, Doing, Begin, Each, Store
<1>1. CASE OpenCache(c)
  BY <1>1 DEF OpenCache
<1>2. CASE Hit(c)
  BY <1>2 DEF Hit
<1>3. CASE Miss(c)
  BY <1>3 DEF Miss
<1>4. CASE Cleared(c)
  BY <1>4 DEF Cleared
<1>5. CASE Compute(c)
  BY <1>5 DEF Compute, Held, BaseRun
<1>6. CASE Rename(c)
  BY <1>6 DEF Rename, Linked, BaseFile
<1>7. CASE FallBack(c)
  BY <1>7 DEF FallBack
<1>8. CASE Copied(c)
  BY <1>8 DEF Copied, Linked, BaseFile
<1>9. CASE Resolved(c)
  BY <1>9 DEF Resolved
<1>10. CASE RunCurrent(c)
  BY <1>10 DEF RunCurrent, Linked, BaseFile
<1>11. CASE Compared(c)
  BY <1>11 DEF Compared
<1>12. CASE Fail(c)
  BY <1>12 DEF Fail
<1>13. CASE Kill(c)
  BY <1>13 DEF Kill
<1>14. ASSUME NEW f \in BaseFile, ReadCached(c, f) PROVE CacheTypes' /\ Only(c)
  BY <1>14 DEF ReadCached
<1>15. ASSUME NEW f \in BaseFile, Remove(c, f) PROVE CacheTypes' /\ Only(c)
  BY <1>15 DEF Remove, Held
<1>16. ASSUME NEW f \in BaseFile, CopyIn(c, f) PROVE CacheTypes' /\ Only(c)
  BY <1>16 DEF CopyIn, Held, BaseRun
<1>17. ASSUME NEW f \in BaseFile, ReadBack(c, f) PROVE CacheTypes' /\ Only(c)
  BY <1>17 DEF ReadBack
<1>18. ASSUME NEW f \in BaseFile, LinkBase(c, f) PROVE CacheTypes' /\ Only(c)
  BY <1>18 DEF LinkBase
<1> QED
  BY <1>1, <1>2, <1>3, <1>4, <1>5, <1>6, <1>7, <1>8, <1>9, <1>10, <1>11, <1>12, <1>13, <1>14,
     <1>15, <1>16, <1>17, <1>18 DEF ComparisonStep

\* Another comparison is still whole, or has seen the entry change.
LEMMA OthersStayWhole ==
  ASSUME CacheTypes, NEW c \in Comparison, NEW d \in Comparison \ {c}, Only(c), Whole(d),
         UNCHANGED entry \/ doing[d] \in Away
  PROVE  Whole(d)'
BY DEF Whole, Only, Holds, Away

\* A file that is stored leaves a mark on everybody who looks at the entry.
LEMMA StoreIsSeen ==
  ASSUME CacheTypes, NEW c \in Comparison, NEW files, Store(c, files)
  PROVE  /\ overlap \subseteq overlap'
         /\ \A d \in Comparison \ {c} : d \notin overlap' => UNCHANGED entry \/ doing[d] \in Away
BY DEF Store, Away

\* The step of one comparison, from what it does to that comparison alone.
LEMMA CacheStepFrom ==
  ASSUME CacheInv, NEW c \in Comparison, CacheTypes', Only(c),
         doing'[c] \in {"replace", "rename"} => Computed(c)',
         overlap \subseteq overlap', merged => merged',
         \A d \in Comparison \ {c} : d \notin overlap' => UNCHANGED entry \/ doing[d] \in Away,
         ~merged' => /\ OneRun'
                     /\ doing'[c] # "copy"
                     /\ c \notin overlap => Whole(c)'
  PROVE  CacheInv'
<1>1. \A d \in Comparison \ {c} : doing'[d] \in {"replace", "rename"} => Computed(d)'
  BY DEF CacheInv, Only, Computed
<1>2. ASSUME ~merged', NEW d \in Comparison \ {c}, d \notin overlap'
      PROVE  Whole(d)'
  <2>1. Whole(d) /\ (UNCHANGED entry \/ doing[d] \in Away)
    BY <1>2 DEF CacheInv, CacheTypes
  <2> QED
    BY <2>1, OthersStayWhole DEF CacheInv
<1>3. ~merged' => \A d \in Comparison : doing'[d] # "copy"
  BY DEF CacheInv, Only, CacheTypes
<1>4. ~merged' => \A d \in Comparison \ overlap' : Whole(d)'
  BY <1>2
<1> QED
  BY <1>1, <1>3, <1>4 DEF CacheInv

\* A comparison that only goes on, and touches no file.
LEMMA CacheStepQuiet ==
  ASSUME CacheInv, NEW c \in Comparison, CacheTypes', Only(c), UNCHANGED <<entry, overlap, merged>>,
         doing'[c] \in {"replace", "rename"} => Computed(c)',
         ~merged => doing'[c] # "copy",
         c \notin overlap /\ ~merged => Whole(c)'
  PROVE  CacheInv'
<1>1. OneRun' <=> OneRun
  BY DEF OneRun
<1> QED
  BY <1>1, CacheStepFrom DEF CacheInv

\* Every step of a comparison (compareRefs): only a rename puts files of a run
\* into the entry, all of them at once.
LEMMA CacheStep ==
  ASSUME CacheInv, NEW c \in Comparison, ComparisonStep(c) PROVE CacheInv'
<1>1. CacheTypes' /\ Only(c) /\ CacheTypes
  BY CacheStepTypes DEF CacheInv
<1>2. c \notin overlap /\ ~merged => Whole(c) /\ OneRun
  BY DEF CacheInv
<1> USE DEF Begin, Each, Doing
<1>3. CASE OpenCache(c)
  <2>1. doing'[c] = "read" /\ left'[c] = BaseFile
    BY <1>1, <1>3 DEF OpenCache, CacheTypes
  <2> QED
    BY <1>1, <1>3, <2>1, CacheStepQuiet DEF OpenCache, Whole
<1>4. CASE Hit(c)
  <2>1. doing'[c] = "current" /\ UNCHANGED <<entry, overlap, merged, base, linked>>
    BY <1>1, <1>4 DEF Hit, CacheTypes
  <2>2. ASSUME c \notin overlap, ~merged PROVE Whole(c)'
    <3>1. \A f \in BaseFile : base[c][f] = entry[f] /\ entry[f] # Missing
      BY <1>2, <1>4, <2>2 DEF Hit, Whole
    <3>2. PICK run \in BaseRun : \A f \in BaseFile : entry[f] \in {Missing, run}
      BY <1>2, <2>2 DEF OneRun
    <3>3. entry = [f \in BaseFile |-> run] /\ base[c] = entry
      BY <1>1, <3>1, <3>2 DEF CacheTypes
    <3> QED
      BY <2>1, <3>3 DEF Whole, Holds
  <2> QED
    BY <1>1, <2>1, <2>2, CacheStepQuiet
<1>5. CASE Miss(c)
  <2>1. doing'[c] = "clear"
    BY <1>1, <1>5 DEF Miss, CacheTypes
  <2> QED
    BY <1>1, <1>5, <2>1, CacheStepQuiet DEF Miss, Whole
<1>6. CASE Cleared(c)
  <2>1. doing'[c] \in {"compute", "rename"} /\ (doing'[c] = "rename" => doing[c] = "replace")
    BY <1>1, <1>6 DEF Cleared, CacheTypes
  <2>2. doing'[c] = "rename" => Computed(c)'
    BY <1>6, <2>1 DEF Cleared, CacheInv, Computed
  <2> QED
    BY <1>1, <1>6, <2>1, <2>2, CacheStepQuiet DEF Cleared, Whole
<1>7. CASE Compute(c)
  <2>1. doing'[c] = "replace" /\ Computed(c)'
    BY <1>1, <1>7 DEF Compute, CacheTypes, Computed
  <2> QED
    BY <1>1, <1>7, <2>1, CacheStepQuiet DEF Compute, Whole
<1>8. CASE Rename(c)
  <2>1. doing'[c] = "reread" /\ UNCHANGED <<base, merged>> /\ entry' = base[c]
    BY <1>1, <1>8 DEF Rename, CacheTypes, Store
  <2>2. base[c] = [f \in BaseFile |-> c] /\ c \in BaseRun
    BY <1>8 DEF Rename, CacheInv, Computed, BaseRun
  <2>3. Whole(c)' /\ OneRun'
    BY <2>1, <2>2 DEF Whole, Holds, OneRun
  <2>4. Store(c, base[c])
    BY <1>8 DEF Rename
  <2> QED
    BY <1>1, <2>1, <2>3, <2>4, StoreIsSeen, CacheStepFrom
<1>9. CASE FallBack(c)
  <2>1. doing'[c] = "copy" /\ merged'
    BY <1>1, <1>9 DEF FallBack, CacheTypes
  <2> QED
    BY <1>1, <1>9, <2>1, CacheStepFrom DEF FallBack
<1>10. CASE Copied(c)
  <2>1. merged /\ doing'[c] = "reread"
    BY <1>1, <1>10 DEF Copied, CacheInv, CacheTypes
  <2> QED
    BY <1>1, <1>10, <2>1, CacheStepQuiet DEF Copied
<1>11. CASE Resolved(c)
  <2>1. doing'[c] = "current"
    BY <1>1, <1>11 DEF Resolved, CacheTypes
  <2>2. c \notin overlap /\ ~merged => Whole(c)'
    BY <1>2, <1>11, <2>1 DEF Resolved, Whole, Holds
  <2> QED
    BY <1>1, <1>11, <2>1, <2>2, CacheStepQuiet DEF Resolved
<1>12. CASE RunCurrent(c)
  <2>1. doing'[c] = "link" /\ left'[c] = Linked
    BY <1>1, <1>12 DEF RunCurrent, CacheTypes
  <2>2. c \notin overlap /\ ~merged => Whole(c)'
    BY <1>2, <1>12, <2>1 DEF RunCurrent, Whole, Holds
  <2> QED
    BY <1>1, <1>12, <2>1, <2>2, CacheStepQuiet DEF RunCurrent
<1>13. CASE Compared(c)
  <2>1. doing'[c] = "compared"
    BY <1>1, <1>13 DEF Compared, CacheTypes
  <2>2. ASSUME c \notin overlap, ~merged PROVE Whole(c)'
    <3>1. Holds(c) /\ \A f \in Linked : linked[c][f] = entry[f]
      BY <1>2, <1>13, <2>2 DEF Compared, Whole
    <3>2. PICK run \in BaseRun : entry = [f \in BaseFile |-> run] /\ base[c] = entry
      BY <3>1 DEF Holds
    <3>3. base[c] = [f \in BaseFile |-> run] /\ \A f \in Linked : linked[c][f] = run
      BY <3>1, <3>2 DEF Linked, BaseFile
    <3> QED
      BY <1>13, <2>1, <3>3 DEF Compared, Whole
  <2> QED
    BY <1>1, <1>13, <2>1, <2>2, CacheStepQuiet DEF Compared
<1>14. CASE Fail(c)
  <2>1. doing'[c] = "failed"
    BY <1>1, <1>14 DEF Fail, CacheTypes
  <2> QED
    BY <1>1, <1>14, <2>1, CacheStepQuiet DEF Fail, Whole
<1>15. CASE Kill(c)
  <2>1. doing'[c] = "killed"
    BY <1>1, <1>15 DEF Kill, CacheTypes
  <2> QED
    BY <1>1, <1>15, <2>1, CacheStepQuiet DEF Kill, Whole
<1>16. ASSUME NEW f \in BaseFile, ReadCached(c, f) PROVE CacheInv'
  <2>1. /\ doing'[c] = "read" /\ left'[c] = left[c] \ {f} /\ doing[c] = "read"
        /\ base'[c] = [base[c] EXCEPT ![f] = entry[f]] /\ UNCHANGED <<entry, overlap, merged>>
    BY <1>1, <1>16 DEF ReadCached, CacheTypes
  <2>2. c \notin overlap /\ ~merged => Whole(c)'
    BY <1>1, <1>2, <2>1 DEF Whole, CacheTypes
  <2> QED
    BY <1>1, <2>1, <2>2, CacheStepQuiet
<1>17. ASSUME NEW f \in BaseFile, Remove(c, f) PROVE CacheInv'
  <2>1. /\ doing'[c] = doing[c] /\ doing[c] \in {"clear", "replace"} /\ UNCHANGED <<base, merged>>
        /\ entry' = [entry EXCEPT ![f] = Missing] /\ Store(c, [entry EXCEPT ![f] = Missing])
    BY <1>1, <1>17 DEF Remove, CacheTypes, Store
  <2>2. Whole(c)' /\ (doing'[c] \in {"replace", "rename"} => Computed(c)')
    BY <2>1 DEF Whole, CacheInv, Computed
  <2>3. OneRun => OneRun'
    BY <1>1, <2>1 DEF OneRun, CacheTypes
  <2>4. ~merged => OneRun
    BY DEF CacheInv
  <2> QED
    BY <1>1, <2>1, <2>2, <2>3, <2>4, StoreIsSeen, CacheStepFrom
<1>18. ASSUME NEW f \in BaseFile, CopyIn(c, f) PROVE CacheInv'
  <2>1. merged /\ merged' /\ doing'[c] = "copy" /\ Store(c, [entry EXCEPT ![f] = c])
    BY <1>1, <1>18 DEF CopyIn, CacheInv
  <2> QED
    BY <1>1, <2>1, StoreIsSeen, CacheStepFrom
<1>19. ASSUME NEW f \in BaseFile, ReadBack(c, f) PROVE CacheInv'
  <2>1. /\ doing'[c] = "reread" /\ doing[c] = "reread" /\ UNCHANGED <<entry, overlap, merged>>
        /\ base'[c] = [base[c] EXCEPT ![f] = entry[f]]
    BY <1>1, <1>19 DEF ReadBack, CacheTypes
  <2>2. c \notin overlap /\ ~merged => Whole(c)'
    <3>1. Holds(c) => base'[c] = base[c]
      BY <1>1, <2>1 DEF Holds, CacheTypes
    <3> QED
      BY <1>2, <2>1, <3>1 DEF Whole, Holds
  <2> QED
    BY <1>1, <2>1, <2>2, CacheStepQuiet
<1>20. ASSUME NEW f \in BaseFile, LinkBase(c, f) PROVE CacheInv'
  <2>1. /\ doing'[c] = "link" /\ doing[c] = "link" /\ UNCHANGED <<entry, base, overlap, merged>>
        /\ linked'[c] = [linked[c] EXCEPT ![f] = entry[f]] /\ left'[c] = left[c] \ {f}
    BY <1>1, <1>20 DEF LinkBase, CacheTypes
  <2>2. c \notin overlap /\ ~merged => Whole(c)'
    BY <1>1, <1>2, <2>1 DEF Whole, Holds, CacheTypes, Linked, BaseFile
  <2> QED
    BY <1>1, <2>1, <2>2, CacheStepQuiet
<1> QED
  BY <1>3, <1>4, <1>5, <1>6, <1>7, <1>8, <1>9, <1>10, <1>11, <1>12, <1>13, <1>14, <1>15, <1>16,
     <1>17, <1>18, <1>19, <1>20 DEF ComparisonStep

\* The invariant holds of every behaviour, for any number of comparisons.
LEMMA CacheAlways == CacheSpec => []CacheInv
<1>1. CacheInv /\ UNCHANGED cacheVars => CacheInv'
  BY DEF cacheVars, CacheInv, CacheTypes, OneRun, Computed, Whole, Holds
<1>2. CacheInv /\ [CacheNext]_cacheVars => CacheInv'
  BY <1>1, CacheStep DEF CacheNext
<1> QED
  BY <1>2, CacheStart, PTL DEF CacheSpec

\* A comparison that has ended without another in its entry, and without the
\* fallback of the rename, has compared with one base run from one end to the
\* other: what it read and what it linked are of the same run.
THEOREM BaseRunsAreWhole == CacheSpec => []BaseIsWhole
<1>1. CacheInv => BaseIsWhole
  BY DEF CacheInv, BaseIsWhole, Whole
<1> QED
  BY <1>1, CacheAlways, PTL

-----------------------------------------------------------------------------
(* EventLog: an order, a chain, and what a reader makes of damage.         *)

\* The least-number principle, from which the inductions below are made.
LEMMA SmallestOf == ASSUME NEW T \in SUBSET Nat, T # {} PROVE \E n \in T : \A m \in T : n <= m
<1> DEFINE less == {ss \in Nat \X Nat : ss[1] < ss[2]}
<1>1. IsWellFoundedOn(less, Nat)
  BY NatLessThanWellFounded DEF OpToRel
<1>2. PICK x \in T : \A y \in T : <<y, x>> \notin less
  <2> HIDE DEF less
  <2> QED
    BY <1>1, WFMin
<1>3. \A y \in T : ~(y < x)
  BY <1>2
<1> QED
  BY <1>3

-----------------------------------------------------------------------------

\* The first n events of a log: each is made of its input, its place and the
\* digest of its predecessor.
Links(inputs, event, n) ==
  event = [i \in 1 .. n |->
             ChainedEvent(inputs[i], i, IF i = 1 THEN EVENT_LOG_GENESIS_DIGEST
                                        ELSE event[i - 1].eventDigest)]

\* Such events exist for any number of inputs, by induction.
LEMMA ChainExists == ASSUME NEW inputs, NEW n \in Nat PROVE \E event : Links(inputs, event, n)
<1> DEFINE T == {m \in Nat : ~\E event : Links(inputs, event, m)}
<1> SUFFICES ASSUME T # {} PROVE FALSE
  OBVIOUS
<1>1. PICK m \in T : \A k \in T : m <= k
  BY SmallestOf
<1>2. CASE m = 0
  <2>1. Links(inputs, [i \in 1 .. 0 |-> <<>>], 0)
    BY DEF Links
  <2> QED
    BY <1>1, <1>2, <2>1
<1>3. CASE m # 0
  <2>1. m - 1 \in Nat /\ m - 1 \notin T
    BY <1>1, <1>3
  <2>2. PICK event : Links(inputs, event, m - 1)
    BY <2>1
  <2> DEFINE last == ChainedEvent(inputs[m], m, IF m = 1 THEN EVENT_LOG_GENESIS_DIGEST
                                                ELSE event[m - 1].eventDigest)
             longer == [i \in 1 .. m |-> IF i = m THEN last ELSE event[i]]
  <2>3. Links(inputs, longer, m)
    BY <1>3, <2>1, <2>2 DEF Links
  <2> QED
    BY <1>1, <2>3
<1> QED
  BY <1>2, <1>3

\* So the recursive function of the model is one.
LEMMA ChainedIs ==
  ASSUME NEW inputs, Len(inputs) \in Nat PROVE Links(inputs, chained(inputs), Len(inputs))
<1>1. PICK event : Links(inputs, event, Len(inputs))
  BY ChainExists
<1> QED
  BY <1>1 DEF chained, Links

-----------------------------------------------------------------------------

\* An input as the sort of createEventLog compares it.
Numbered(e) == e.recordedAt \in Int /\ e.source \in Int /\ e.eventId \in Int

\* p puts the first n inputs in order.
Sorts(inputs, n, p) ==
  /\ p \in [1 .. n -> 1 .. n]
  /\ \A i, j \in 1 .. n : p[i] = p[j] => i = j
  /\ \A k \in 1 .. n : \E i \in 1 .. n : p[i] = k
  /\ \A i \in 2 .. n : ~Precedes(inputs[p[i]], inputs[p[i - 1]])

\* One more input takes its place before the first that follows it.
LEMMA InsertOne ==
  ASSUME NEW inputs, NEW m \in Nat, NEW p, Sorts(inputs, m, p),
         \A i \in 1 .. m + 1 : Numbered(inputs[i])
  PROVE  \E q : Sorts(inputs, m + 1, q)
<1> DEFINE Later == {i \in 1 .. m : Precedes(inputs[m + 1], inputs[p[i]])} \cup {m + 1}
<1>1. PICK k \in Later : \A j \in Later : k <= j
  <2>1. Later \in SUBSET Nat /\ Later # {}
    OBVIOUS
  <2> HIDE DEF Later
  <2> QED
    BY <2>1, SmallestOf
<1>2. /\ k \in 1 .. m + 1
      /\ k # m + 1 => Precedes(inputs[m + 1], inputs[p[k]])
      /\ \A j \in 1 .. m : j < k => ~Precedes(inputs[m + 1], inputs[p[j]])
  <2> QED
    BY <1>1
<1> HIDE DEF Later
<1> DEFINE q == [i \in 1 .. m + 1 |-> IF i < k THEN p[i] ELSE IF i = k THEN m + 1 ELSE p[i - 1]]
<1>3. /\ \A i \in 1 .. m : p[i] \in 1 .. m
      /\ \A i, j \in 1 .. m : p[i] = p[j] => i = j
      /\ \A h \in 1 .. m : \E i \in 1 .. m : p[i] = h
      /\ \A i \in 2 .. m : ~Precedes(inputs[p[i]], inputs[p[i - 1]])
  BY DEF Sorts
<1>4. /\ \A i \in 1 .. m + 1 : i < k => i \in 1 .. m /\ q[i] = p[i]
      /\ q[k] = m + 1
      /\ \A i \in 1 .. m + 1 : i > k => i - 1 \in 1 .. m /\ q[i] = p[i - 1]
  BY <1>2
<1>5. q = [i \in 1 .. m + 1 |-> q[i]]
  OBVIOUS
<1> HIDE DEF q
<1>6. \A i \in 1 .. m + 1 : i < k \/ i = k \/ i > k
  BY <1>2
<1>7. \A i \in 1 .. m + 1 : q[i] \in 1 .. m + 1 /\ (q[i] = m + 1 => i = k)
  <2> SUFFICES ASSUME NEW i \in 1 .. m + 1 PROVE q[i] \in 1 .. m + 1 /\ (q[i] = m + 1 => i = k)
    OBVIOUS
  <2>1. \A h \in 1 .. m : h \in 1 .. m + 1 /\ h # m + 1
    OBVIOUS
  <2>2. i # k => q[i] \in 1 .. m
    BY <1>3, <1>4, <1>6
  <2>3. m + 1 \in 1 .. m + 1
    OBVIOUS
  <2> QED
    BY <1>4, <2>1, <2>2, <2>3
<1>8. ASSUME NEW i \in 1 .. m + 1, NEW j \in 1 .. m + 1, q[i] = q[j] PROVE i = j
  <2>1. CASE i = k \/ j = k
    BY <1>4, <1>7, <1>8, <2>1
  <2>2. CASE i < k /\ j < k
    <3>1. i \in 1 .. m /\ j \in 1 .. m /\ p[i] = p[j]
      BY <1>4, <1>8, <2>2
    <3> QED
      BY <1>3, <3>1
  <2>3. CASE i > k /\ j > k
    <3>1. i - 1 \in 1 .. m /\ j - 1 \in 1 .. m /\ p[i - 1] = p[j - 1]
      BY <1>4, <1>8, <2>3
    <3>2. i - 1 = j - 1
      BY <1>3, <3>1
    <3> QED
      BY <3>2
  <2>4. ASSUME NEW a \in 1 .. m + 1, NEW b \in 1 .. m + 1, a < k, b > k PROVE q[a] # q[b]
    <3>1. a \in 1 .. m /\ b - 1 \in 1 .. m /\ q[a] = p[a] /\ q[b] = p[b - 1]
      BY <1>4, <2>4
    <3>2. a # b - 1
      BY <1>2, <2>4
    <3> QED
      BY <1>3, <3>1, <3>2
  <2> QED
    BY <1>6, <1>8, <2>1, <2>2, <2>3, <2>4
<1>9. ASSUME NEW h \in 1 .. m + 1 PROVE \E i \in 1 .. m + 1 : q[i] = h
  <2>1. CASE h = m + 1
    BY <1>2, <1>4, <2>1
  <2>2. CASE h # m + 1
    <3>1. h \in 1 .. m
      BY <2>2
    <3>2. PICK i \in 1 .. m : p[i] = h
      BY <1>3, <3>1
    <3>3. i \in 1 .. m + 1 /\ i + 1 \in 1 .. m + 1 /\ (i + 1) - 1 = i /\ (i < k \/ i + 1 > k)
      BY <1>2
    <3> QED
      BY <1>4, <3>2, <3>3
  <2> QED
    BY <2>1, <2>2
<1>10. ASSUME NEW i \in 2 .. m + 1 PROVE ~Precedes(inputs[q[i]], inputs[q[i - 1]])
  <2>0. /\ i \in 1 .. m + 1 /\ i - 1 \in 1 .. m + 1 /\ k \in Int /\ i \in Int
        /\ (i < k \/ i = k \/ i = k + 1 \/ i > k + 1)
    BY <1>2
  <2>1. CASE i < k
    <3>1. i - 1 < k /\ i \in 2 .. m
      BY <1>2, <2>0, <2>1
    <3>2. q[i] = p[i] /\ q[i - 1] = p[i - 1]
      BY <1>4, <2>0, <2>1, <3>1
    <3> QED
      BY <1>3, <3>1, <3>2
  <2>2. CASE i = k
    <3>1. i - 1 < k
      BY <2>0, <2>2
    <3>2. q[i] = m + 1 /\ q[i - 1] = p[i - 1] /\ i - 1 \in 1 .. m
      BY <1>4, <2>0, <2>2, <3>1
    <3> QED
      BY <1>2, <3>1, <3>2
  <2>3. CASE i = k + 1
    <3>1. i > k /\ i - 1 = k /\ k # m + 1
      BY <2>0, <2>3
    <3>2. q[i] = p[k] /\ q[i - 1] = m + 1 /\ k \in 1 .. m
      BY <1>4, <2>0, <3>1
    <3>3. Precedes(inputs[m + 1], inputs[p[k]]) /\ p[k] \in 1 .. m + 1 /\ m + 1 \in 1 .. m + 1
      BY <1>2, <1>3, <3>1, <3>2
    <3>4. Numbered(inputs[m + 1]) /\ Numbered(inputs[p[k]])
      BY <3>3
    <3>5. \A l, r : Numbered(l) /\ Numbered(r) /\ Precedes(l, r) => ~Precedes(r, l)
      BY DEF Numbered, Precedes
    <3> QED
      BY <3>2, <3>3, <3>4, <3>5
  <2>4. CASE i > k + 1
    <3>1. i > k /\ i - 1 > k /\ i - 1 \in 2 .. m
      BY <1>2, <2>0, <2>4
    <3>2. q[i] = p[i - 1] /\ q[i - 1] = p[(i - 1) - 1]
      BY <1>4, <2>0, <3>1
    <3> QED
      BY <1>3, <3>1, <3>2
  <2> QED
    BY <2>0, <2>1, <2>2, <2>3, <2>4
<1>11. q \in [1 .. m + 1 -> 1 .. m + 1]
  BY <1>5, <1>7
<1> QED
  BY <1>8, <1>9, <1>10, <1>11 DEF Sorts

\* Any number of inputs can be put in order, by insertion.
LEMMA CanSort ==
  ASSUME NEW inputs, NEW n \in Nat, \A i \in 1 .. n : Numbered(inputs[i])
  PROVE  \E p : Sorts(inputs, n, p)
<1> DEFINE T == {m \in 0 .. n : ~\E p : Sorts(inputs, m, p)}
<1> SUFFICES ASSUME T # {} PROVE FALSE
  OBVIOUS
<1>0. T \in SUBSET Nat
  OBVIOUS
<1>1. PICK m \in T : \A k \in T : m <= k
  <2> HIDE DEF T
  <2> QED
    BY <1>0, SmallestOf
<1>2. CASE m = 0
  <2>1. Sorts(inputs, 0, [i \in 1 .. 0 |-> 0])
    BY DEF Sorts
  <2> QED
    BY <1>1, <1>2, <2>1
<1>3. CASE m # 0
  <2>1. m - 1 \in Nat /\ m \in Nat /\ m <= n /\ m = (m - 1) + 1
    BY <1>0, <1>1, <1>3
  <2>2. PICK p : Sorts(inputs, m - 1, p)
    <3>1. m - 1 \in 0 .. n /\ ~(m <= m - 1)
      BY <2>1
    <3> QED
      BY <1>1, <3>1
  <2>3. \A i \in 1 .. (m - 1) + 1 : Numbered(inputs[i])
    BY <2>1
  <2>4. \E q : Sorts(inputs, (m - 1) + 1, q)
    <3> HIDE DEF T
    <3> QED
      BY <2>1, <2>2, <2>3, InsertOne
  <2> QED
    BY <1>1, <2>1, <2>4
<1> QED
  BY <1>2, <1>3

\* inOrder permutes the inputs, and no event comes before its predecessor.
LEMMA InOrderIs ==
  ASSUME NEW inputs, Len(inputs) \in Nat, \A i \in 1 .. Len(inputs) : Numbered(inputs[i])
  PROVE  \E p \in Bijection(1 .. Len(inputs), 1 .. Len(inputs)) :
           /\ inOrder(inputs) = [i \in 1 .. Len(inputs) |-> inputs[p[i]]]
           /\ \A i \in 2 .. Len(inputs) : ~Precedes(inOrder(inputs)[i], inOrder(inputs)[i - 1])
<1> DEFINE n == Len(inputs)
           permuted == {[i \in 1 .. n |-> inputs[p[i]]] : p \in Bijection(1 .. n, 1 .. n)}
           ordered(s) == \A i \in (1 .. n) \ {1} : ~Precedes(s[i], s[i - 1])
<1>1. PICK p : Sorts(inputs, n, p)
  BY CanSort
<1>2. p \in Bijection(1 .. n, 1 .. n)
  BY <1>1 DEF Sorts, Bijection, Injection, Surjection, IsInjective
<1>3. ordered([i \in 1 .. n |-> inputs[p[i]]])
  BY <1>1 DEF Sorts
<1>4. inOrder(inputs) = CHOOSE s \in permuted : ordered(s)
  BY DEF inOrder
<1>5. inOrder(inputs) \in permuted /\ ordered(inOrder(inputs))
  <2>1. \E s \in permuted : ordered(s)
    BY <1>2, <1>3
  <2> HIDE DEF permuted, ordered
  <2> QED
    BY <1>4, <2>1
<1> QED
  BY <1>5
-----------------------------------------------------------------------------

\* The fields of an event that its digest covers.
Fields == {"eventId", "recordedAt", "source", "type", "trustClass", "outcome", "sound",
           "sequence", "evidenceDigest", "previousDigest"}

\* The i-th event of a log: its place, its digests and that of its predecessor.
IsEvent(es, i) ==
  /\ es[i] = [f \in Fields \cup {"eventDigest"} |-> es[i][f]]
  /\ es[i].sequence = i
  /\ es[i].eventDigest = hash(canonicalEventPayload(es[i]))
  /\ \E evidence : es[i].evidenceDigest = hash(evidence)
  /\ es[i].previousDigest = IF i = 1 THEN EVENT_LOG_GENESIS_DIGEST ELSE es[i - 1].eventDigest

\* e is made of this input, at this place, behind this digest.
ChainedTo(e, input, i, previous) ==
  /\ e = [f \in Fields \cup {"eventDigest"} |-> e[f]]
  /\ e.sequence = i /\ e.previousDigest = previous
  /\ e.evidenceDigest = hash(input.evidence) /\ e.outcome = input.outcome
  /\ e.recordedAt = input.recordedAt /\ e.type = input.type
  /\ e.eventDigest = hash(canonicalEventPayload(e))

\* ChainedEvent makes such an event.
LEMMA ChainedEventIs ==
  ASSUME NEW input, NEW i, NEW previous
  PROVE  ChainedTo(ChainedEvent(input, i, previous), input, i, previous)
<1> DEFINE payload == [eventId |-> input.eventId, recordedAt |-> input.recordedAt,
                  source |-> input.source, type |-> input.type,
                  trustClass |-> input.trustClass, outcome |-> input.outcome,
                  sound |-> input.sound, sequence |-> i,
                  evidenceDigest |-> hash(input.evidence), previousDigest |-> previous]
           e == ChainedEvent(input, i, previous)
<1>1. e = [f \in Fields \cup {"eventDigest"} |-> IF f = "eventDigest" THEN hash(payload) ELSE payload[f]]
  BY DEF ChainedEvent, Fields
<1>2. \A f \in Fields : e[f] = payload[f]
  BY <1>1 DEF Fields
<1>3. canonicalEventPayload(e) = payload
  BY <1>2 DEF canonicalEventPayload, Fields
<1>4. e.eventDigest = hash(payload)
  BY <1>1
<1>5. e = [f \in Fields \cup {"eventDigest"} |-> e[f]]
  BY <1>1
<1> HIDE DEF e
<1>6. ChainedTo(e, input, i, previous)
  BY <1>2, <1>3, <1>4, <1>5 DEF Fields, ChainedTo
<1> QED
  BY <1>6 DEF e

\* The events are made of the inputs, each of one.
Permutes(es, inputs) ==
  \E p \in Bijection(1 .. Len(inputs), 1 .. Len(inputs)) :
    \A i \in 1 .. Len(inputs) :
      /\ es[i].outcome = inputs[p[i]].outcome
      /\ es[i].evidenceDigest = hash(inputs[p[i]].evidence)
      /\ es[i].recordedAt = inputs[p[i]].recordedAt
      /\ es[i].type = inputs[p[i]].type

\* A log that createEventLog returns: the inputs, permuted, in recording order,
\* each with its place and chained to the one before.
LEMMA LogHolds ==
  ASSUME NEW streamId, NEW inputs, Len(inputs) \in Nat,
         \A i \in 1 .. Len(inputs) : Numbered(inputs[i]),
         NEW doc \in createEventLog(streamId, inputs)
  PROVE  /\ assertEventLog(doc) /\ doc = Sealed(streamId, doc.events)
         /\ doc.events = [i \in 1 .. Len(inputs) |-> doc.events[i]]
         /\ \A i \in 1 .. Len(inputs) : IsEvent(doc.events, i)
         /\ Permutes(doc.events, inputs)
<1> DEFINE n == Len(inputs)
           sorted == inOrder(inputs)
           es == chained(sorted)
<1>1. doc = Sealed(streamId, es) /\ assertEventLog(doc)
  BY DEF createEventLog
<1>2. doc.events = es
  BY <1>1 DEF Sealed
<1>3. PICK p \in Bijection(1 .. n, 1 .. n) : sorted = [i \in 1 .. n |-> inputs[p[i]]]
  BY InOrderIs
<1>4. Len(sorted) = n
  BY <1>3
<1>5. Links(sorted, es, n)
  BY <1>4, ChainedIs
<1> HIDE DEF es, sorted
<1>6. /\ es = [i \in 1 .. n |-> es[i]]
      /\ \A i \in 1 .. n : es[i] = ChainedEvent(inputs[p[i]], i, IF i = 1 THEN EVENT_LOG_GENESIS_DIGEST
                                                                ELSE es[i - 1].eventDigest)
  BY <1>3, <1>5 DEF Links
<1>7. \A i \in 1 .. n : /\ IsEvent(es, i)
                        /\ es[i].outcome = inputs[p[i]].outcome
                        /\ es[i].evidenceDigest = hash(inputs[p[i]].evidence)
                        /\ es[i].recordedAt = inputs[p[i]].recordedAt
                        /\ es[i].type = inputs[p[i]].type
  <2> SUFFICES ASSUME NEW i \in 1 .. n
               PROVE  /\ IsEvent(es, i)
                      /\ es[i].outcome = inputs[p[i]].outcome
                      /\ es[i].evidenceDigest = hash(inputs[p[i]].evidence)
                      /\ es[i].recordedAt = inputs[p[i]].recordedAt
                      /\ es[i].type = inputs[p[i]].type
    OBVIOUS
  <2> DEFINE previous == IF i = 1 THEN EVENT_LOG_GENESIS_DIGEST ELSE es[i - 1].eventDigest
             input == inputs[p[i]]
  <2>1. es[i] = ChainedEvent(input, i, previous)
    BY <1>6
  <2> HIDE DEF previous, input
  <2>2. ChainedTo(es[i], input, i, previous)
    BY <2>1, ChainedEventIs
  <2> QED
    BY <2>2 DEF ChainedTo, IsEvent, previous, input
<1> QED
  BY <1>1, <1>2, <1>3, <1>6, <1>7 DEF Permutes
-----------------------------------------------------------------------------
\* A reader refuses a document with an event in the wrong place, and one whose
\* event does not carry the digest of what it says or of its predecessor.
LEMMA Refused ==
  ASSUME NEW doc, NEW es, doc.events = es, NEW i \in 1 .. Len(es),
         \/ es[i].sequence # i
         \/ es[i].eventDigest # hash(canonicalEventPayload(es[i]))
         \/ i > 1 /\ es[i].previousDigest # es[i - 1].eventDigest
         \/ i = 1 /\ es[i].previousDigest # doc.genesisDigest
  PROVE  ~assertEventLog(doc)
BY DEF assertEventLog

\* Nor a document whose last digest is not the one of its stream.
LEMMA RefusedEnd ==
  ASSUME NEW doc, NEW es, doc.events = es, Len(es) \in Nat,
         doc.streamDigest # IF Len(es) = 0 THEN doc.genesisDigest ELSE es[Len(es)].eventDigest
  PROVE  ~assertEventLog(doc)
BY DEF assertEventLog

\* A digest is no genesis, and tells the place of its event.
LEMMA DigestTells ==
  ASSUME NEW es, NEW i, IsEvent(es, i)
  PROVE  es[i].eventDigest # <<>> /\ es[i].eventDigest[1].sequence = i
BY DEF IsEvent, hash, canonicalEventPayload

\* A digest of an event that says something else.
LEMMA AlteredShows ==
  ASSUME NEW old, NEW e, NEW f \in Fields, e[f] # old[f],
         old.eventDigest = hash(canonicalEventPayload(old)), e.eventDigest = old.eventDigest
  PROVE  e.eventDigest # hash(canonicalEventPayload(e))
<1>1. canonicalEventPayload(e)[f] # canonicalEventPayload(old)[f]
  BY DEF Fields, canonicalEventPayload
<1> QED
  BY <1>1 DEF hash

\* The digest that a forger writes is of no value, and no genesis.
LEMMA NotAnother ==
  ASSUME NEW value PROVE hash(value) # AnotherDigest /\ <<>> # AnotherDigest
BY DEF hash, AnotherDigest

\* What the reader gets of a document that it refuses, or that says another
\* number of events.
LEMMA NothingRead ==
  ASSUME NEW text, ~assertEventLog(text.doc) \/ text.count # Len(text.doc.events)
  PROVE  parseEventLog(text) = {}
BY DEF parseEventLog

\* No damage gets past the reader: the hypotheses are those of LogHolds.
LEMMA DamageShows ==
  ASSUME NEW D, NEW streamId, D.doc = Sealed(streamId, D.doc.events), Len(D.doc.events) \in Nat,
         D.doc.events = [i \in 1 .. Len(D.doc.events) |-> D.doc.events[i]],
         \A i \in 1 .. Len(D.doc.events) : IsEvent(D.doc.events, i),
         \A i \in 1 .. Len(D.doc.events) : D.doc.events[i].recordedAt \in Int,
         NEW text \in Damaged(D)
  PROVE  parseEventLog(text) = {}
<1> DEFINE es == D.doc.events
           n == Len(es)
           with(s, c) == [count |-> c, doc |-> [D.doc EXCEPT !.events = s]]
           without(i) == [j \in 1 .. n - 1 |-> es[IF j < i THEN j ELSE j + 1]]
           twice(i) == [j \in 1 .. n + 1 |-> es[IF j <= i THEN j ELSE j - 1]]
           swapped(i) == [es EXCEPT ![i] = es[i + 1], ![i + 1] = es[i]]
           altered(i, e) == [es EXCEPT ![i] = e]
           changes(e) ==
             {[e EXCEPT !.outcome = o] : o \in {"PASSED", "FAILED"} \ {e.outcome}} \cup
             {[e EXCEPT !.recordedAt = @ + 1], [e EXCEPT !.sequence = @ + 1],
              [e EXCEPT !.evidenceDigest = AnotherDigest], [e EXCEPT !.previousDigest = AnotherDigest],
              [e EXCEPT !.eventDigest = AnotherDigest]}
           of(i) == {with(without(i), c) : c \in {n - 1, n}} \cup
                    {with(twice(i), c) : c \in {n, n + 1}} \cup
                    {with(altered(i, e), n) : e \in changes(es[i])}
           swaps == {with(swapped(i), n) : i \in 1 .. n - 1}
           cuts == {with(SubSeq(es, 1, i), i) : i \in 0 .. n - 1}
<1>0. \/ \E i \in 1 .. n : \/ \E c \in {n - 1, n} : text = with(without(i), c)
                           \/ \E c \in {n, n + 1} : text = with(twice(i), c)
                           \/ \E e \in changes(es[i]) : text = with(altered(i, e), n)
      \/ \E i \in 1 .. n - 1 : text = with(swapped(i), n)
      \/ \E i \in 0 .. n - 1 : text = with(SubSeq(es, 1, i), i)
  <2>1. Damaged(D) = (UNION {of(i) : i \in 1 .. n}) \cup swaps \cup cuts
    BY DEF Damaged
  <2>2. (\E i \in 1 .. n : text \in of(i)) \/ text \in swaps \/ text \in cuts
    <3> HIDE DEF of, swaps, cuts, n
    <3>1. text \in (UNION {of(i) : i \in 1 .. n}) \/ text \in swaps \/ text \in cuts
      BY <2>1
    <3>2. text \in UNION {of(i) : i \in 1 .. n} => \E i \in 1 .. n : text \in of(i)
      BY Zenon
    <3> QED
      BY <3>1, <3>2
  <2> HIDE DEF with, without, twice, swapped, altered, changes, n, es
  <2> QED
    BY <2>2
<1>1. /\ D.doc = Sealed(streamId, es) /\ n \in Nat /\ Len(es) = n
      /\ es = [i \in 1 .. n |-> es[i]]
      /\ \A i \in 1 .. n : IsEvent(es, i) /\ es[i].recordedAt \in Int
  OBVIOUS
<1> HIDE DEF es, n
<1> USE <1>1
<1>2. /\ DOMAIN D.doc = {"streamId", "genesisDigest", "events", "streamDigest"}
      /\ D.doc.genesisDigest = <<>>
  BY <1>1 DEF Sealed, EVENT_LOG_GENESIS_DIGEST
<1>3. n # 0 => D.doc.streamDigest = es[n].eventDigest
  BY <1>1 DEF Sealed
<1>w. ASSUME NEW s, NEW c
      PROVE  /\ with(s, c).doc.events = s /\ with(s, c).count = c
             /\ with(s, c).doc.streamDigest = D.doc.streamDigest
             /\ with(s, c).doc.genesisDigest = <<>>
  BY <1>2
<1>4. \A i \in 1 .. n : es[i].sequence = i
  BY <1>1 DEF IsEvent
<1>5. ASSUME NEW i \in 1 .. n, NEW c \in {n - 1, n}, text = with(without(i), c)
      PROVE  parseEventLog(text) = {}
  <2>1. Len(without(i)) = n - 1
    OBVIOUS
  <2>2. CASE i < n
    <3>1. i \in 1 .. Len(without(i)) /\ without(i)[i] = es[i + 1] /\ i + 1 \in 1 .. n
      BY <2>1, <2>2
    <3>2. without(i)[i].sequence # i
      BY <1>4, <3>1
    <3>3. text.doc.events = without(i)
      BY <1>w, <1>5
    <3> HIDE DEF without, with
    <3> QED
      BY <3>1, <3>2, <3>3, Refused, NothingRead
  <2>3. CASE i = n
    <3>1. n - 1 # 0 => without(i)[n - 1] = es[n - 1] /\ es[n - 1].eventDigest # es[n].eventDigest
      <4>1. n - 1 # 0 => n - 1 \in 1 .. n - 1 /\ n - 1 \in 1 .. n /\ n - 1 < n /\ n \in 1 .. n
        OBVIOUS
      <4> QED
        BY <2>3, <4>1, DigestTells
    <3>2. es[n].eventDigest # <<>>
      <4>1. n \in 1 .. n
        BY <2>3
      <4> QED
        BY <4>1, DigestTells
    <3>3. /\ text.doc.events = without(i) /\ text.doc.streamDigest = es[n].eventDigest
          /\ text.doc.genesisDigest = <<>> /\ Len(without(i)) \in Nat
      <4>1. n # 0
        BY <2>3
      <4> HIDE DEF without, with
      <4> QED
        BY <1>w, <1>3, <1>5, <2>1, <4>1
    <3> HIDE DEF without, with
    <3> QED
      BY <2>1, <3>1, <3>2, <3>3, RefusedEnd, NothingRead
  <2> QED
    BY <2>2, <2>3
<1>6. ASSUME NEW i \in 1 .. n, NEW c \in {n, n + 1}, text = with(twice(i), c)
      PROVE  parseEventLog(text) = {}
  <2>1. Len(twice(i)) = n + 1
    OBVIOUS
  <2>2. i + 1 \in 1 .. Len(twice(i)) /\ twice(i)[i + 1] = es[i]
    BY <2>1
  <2>3. twice(i)[i + 1].sequence # i + 1
    BY <1>4, <2>2
  <2>4. text.doc.events = twice(i)
    BY <1>w, <1>6
  <2> HIDE DEF twice, with
  <2> QED
    BY <2>2, <2>3, <2>4, Refused, NothingRead
<1>7. ASSUME NEW i \in 1 .. n - 1, text = with(swapped(i), n)
      PROVE  parseEventLog(text) = {}
  <2>1. Len(swapped(i)) = n /\ i \in 1 .. n /\ i + 1 \in 1 .. n
    BY <1>1
  <2>2. swapped(i)[i] = es[i + 1]
    BY <2>1
  <2>3. swapped(i)[i].sequence # i
    BY <1>4, <2>1, <2>2
  <2>4. text.doc.events = swapped(i)
    BY <1>w, <1>7
  <2> HIDE DEF swapped, with
  <2> QED
    BY <2>1, <2>3, <2>4, Refused, NothingRead
<1>8. ASSUME NEW i \in 0 .. n - 1, text = with(SubSeq(es, 1, i), i)
      PROVE  parseEventLog(text) = {}
  <2> DEFINE cut == SubSeq(es, 1, i)
  <2>1. Len(cut) = i /\ (i # 0 => cut[i] = es[i])
    BY <1>1
  <2>2. i # 0 => es[i].eventDigest # es[n].eventDigest
    <3>1. i # 0 => i \in 1 .. n /\ n \in 1 .. n /\ i # n
      OBVIOUS
    <3> QED
      BY <3>1, DigestTells
  <2>3. es[n].eventDigest # <<>>
    <3>1. n \in 1 .. n
      OBVIOUS
    <3> QED
      BY <3>1, DigestTells
  <2>4. /\ text.doc.events = cut /\ text.doc.streamDigest = es[n].eventDigest
        /\ text.doc.genesisDigest = <<>> /\ Len(cut) \in Nat
    <3>1. n # 0 /\ text = with(cut, i) /\ Len(cut) \in Nat
      BY <1>8, <2>1
    <3> HIDE DEF with, cut
    <3> QED
      BY <1>w, <1>3, <3>1
  <2> HIDE DEF cut, with
  <2> QED
    BY <2>1, <2>2, <2>3, <2>4, RefusedEnd, NothingRead
<1>9. ASSUME NEW i \in 1 .. n, NEW e \in changes(es[i]), text = with(altered(i, e), n)
      PROVE  parseEventLog(text) = {}
  <2>1. Len(altered(i, e)) = n /\ altered(i, e)[i] = e
    BY <1>1
  <2>2. text.doc.events = altered(i, e)
    BY <1>w, <1>9
  <2>3. e.sequence # i \/ e.eventDigest # hash(canonicalEventPayload(e))
    <3> DEFINE old == es[i]
    <3>1. /\ old = [f \in Fields \cup {"eventDigest"} |-> old[f]]
          /\ old.sequence = i /\ old.recordedAt \in Int
          /\ old.eventDigest = hash(canonicalEventPayload(old))
      BY DEF IsEvent
    <3>a. old.evidenceDigest # AnotherDigest /\ old.eventDigest # AnotherDigest
      <4>1. IsEvent(es, i)
        OBVIOUS
      <4>2. PICK evidence : old.evidenceDigest = hash(evidence)
        BY <4>1 DEF IsEvent
      <4> QED
        BY <3>1, <4>2, NotAnother
    <3>b. old.previousDigest # AnotherDigest
      <4>1. CASE i = 1
        BY <4>1, NotAnother DEF IsEvent, EVENT_LOG_GENESIS_DIGEST
      <4>2. CASE i # 1
        <5>1. i - 1 \in 1 .. n
          BY <4>2
        <5>2. old.previousDigest = es[i - 1].eventDigest /\ IsEvent(es, i - 1)
          BY <4>2, <5>1 DEF IsEvent
        <5> QED
          BY <5>2, NotAnother DEF IsEvent
      <4> QED
        BY <4>1, <4>2
    <3>2. e \in changes(old)
      BY <1>9
    <3> HIDE DEF old
    <3>3. ASSUME NEW o \in {"PASSED", "FAILED"} \ {old.outcome}, e = [old EXCEPT !.outcome = o]
          PROVE  e.eventDigest # hash(canonicalEventPayload(e))
      <4>1. e["outcome"] # old["outcome"] /\ e.eventDigest = old.eventDigest /\ "outcome" \in Fields
        BY <3>1, <3>3 DEF Fields
      <4> QED
        BY <3>1, <4>1, AlteredShows
    <3>4. ASSUME e = [old EXCEPT !.recordedAt = @ + 1]
          PROVE  e.eventDigest # hash(canonicalEventPayload(e))
      <4>1. e["recordedAt"] # old["recordedAt"] /\ e.eventDigest = old.eventDigest /\ "recordedAt" \in Fields
        BY <3>1, <3>4 DEF Fields
      <4> QED
        BY <3>1, <4>1, AlteredShows
    <3>5. CASE e = [old EXCEPT !.sequence = @ + 1]
      BY <3>1, <3>5 DEF Fields
    <3>6. ASSUME e = [old EXCEPT !.evidenceDigest = AnotherDigest]
          PROVE  e.eventDigest # hash(canonicalEventPayload(e))
      <4>1. e["evidenceDigest"] # old["evidenceDigest"] /\ e.eventDigest = old.eventDigest /\ "evidenceDigest" \in Fields
        BY <3>1, <3>a, <3>6 DEF Fields
      <4> QED
        BY <3>1, <4>1, AlteredShows
    <3>7. ASSUME e = [old EXCEPT !.previousDigest = AnotherDigest]
          PROVE  e.eventDigest # hash(canonicalEventPayload(e))
      <4>1. e["previousDigest"] # old["previousDigest"] /\ e.eventDigest = old.eventDigest /\ "previousDigest" \in Fields
        BY <3>1, <3>b, <3>7 DEF Fields
      <4> QED
        BY <3>1, <4>1, AlteredShows
    <3>8. CASE e = [old EXCEPT !.eventDigest = AnotherDigest]
      BY <3>1, <3>8, NotAnother DEF Fields
    <3> QED
      BY <3>2, <3>3, <3>4, <3>5, <3>6, <3>7, <3>8
  <2> HIDE DEF altered, with
  <2> QED
    BY <2>1, <2>2, <2>3, Refused, NothingRead
<1> QED
  <2> HIDE DEF with, without, twice, swapped, altered, changes
  <2> QED
    BY <1>0, <1>5, <1>6, <1>7, <1>8, <1>9

\* The log shows every tampering with its events, for any number of them in any
\* order (assertEventLog behind parseEventLog).
THEOREM LogIsTamperEvident ==
  ASSUME NEW Ids \in SUBSET Int, NEW Instants \in SUBSET Int, NEW Sources \in SUBSET Int,
         NEW Types, NEW TrustClasses, NEW Outcomes, NEW Proofs, NEW streamId,
         NEW inputs \in Seq(EventInput(Ids, Instants, Sources, Types, TrustClasses, Outcomes, Proofs))
  PROVE  TamperEvident(streamId, inputs)
<1>1. Len(inputs) \in Nat
  OBVIOUS
<1>2. \A i \in 1 .. Len(inputs) : Numbered(inputs[i])
  <2> SUFFICES ASSUME NEW i \in 1 .. Len(inputs) PROVE Numbered(inputs[i])
    OBVIOUS
  <2>1. inputs[i] \in EventInput(Ids, Instants, Sources, Types, TrustClasses, Outcomes, Proofs)
    OBVIOUS
  <2> QED
    BY <2>1 DEF EventInput, Numbered
<1> SUFFICES ASSUME NEW doc \in createEventLog(streamId, inputs)
             PROVE  /\ parseEventLog(renderEventLog(doc)) = {doc}
                    /\ \A text \in Damaged(renderEventLog(doc)) : parseEventLog(text) = {}
  BY DEF TamperEvident
<1> DEFINE n == Len(inputs)
           es == doc.events
<1>3. /\ assertEventLog(doc) /\ doc = Sealed(streamId, es)
      /\ es = [i \in 1 .. n |-> es[i]] /\ \A i \in 1 .. n : IsEvent(es, i)
  BY <1>1, <1>2, LogHolds
<1>4. \A i \in 1 .. n : es[i].recordedAt \in Int
  <2>1. PICK p \in Bijection(1 .. n, 1 .. n) : \A i \in 1 .. n : es[i].recordedAt = inputs[p[i]].recordedAt
    <3>1. Permutes(es, inputs)
      BY <1>1, <1>2, LogHolds
    <3> QED
      BY <3>1 DEF Permutes
  <2>2. \A i \in 1 .. n : p[i] \in 1 .. n
    BY DEF Bijection, Injection
  <2> QED
    BY <1>2, <2>1, <2>2 DEF Numbered
<1>5. parseEventLog(renderEventLog(doc)) = {doc}
  BY <1>3 DEF parseEventLog, renderEventLog
<1>6. \A text \in Damaged(renderEventLog(doc)) : parseEventLog(text) = {}
  <2> DEFINE D == renderEventLog(doc)
  <2>0. Len(es) = n
    <3>1. n \in Nat
      BY <1>1
    <3> HIDE DEF n, es
    <3> QED
      BY <1>3, <3>1
  <2>1. D.doc.events = es /\ D.doc = doc
    BY DEF renderEventLog
  <2> HIDE DEF n, D
  <2> QED
    BY <1>1, <1>3, <1>4, <2>0, <2>1, DamageShows DEF D, n
<1> QED
  BY <1>5, <1>6

-----------------------------------------------------------------------------
(* PipelineRun: what runs and registrations leave on disk.                 *)

Failures == {Stages[i] : i \in 1 .. Len(Stages)} \cup {None, "persistence"}
Audits == UNION {[S -> Audit] : S \in SUBSET Audited}
Manifest == [status : {"succeeded", "degraded", "failed"}, failure : Failures, stages : Audits,
             files : SUBSET ({"eventLog"} \cup Registrar)]

\* Types of the variables.
RunTypes ==
  /\ stage \in [Run -> 1 .. Len(Stages)]
  /\ audits \in [Run -> Audits]
  /\ failedAt \in [Run -> Failures]
  /\ persisting \in [Run -> Persisting]
  /\ outputs \in [Run -> SUBSET {"intents", "required", "optional"}]
  /\ manifest = [r \in Run |-> manifest[r]]
  /\ \A r \in Run : Readable(r) => manifest[r] \in Manifest
  /\ eventLog = [r \in Run |-> eventLog[r]]

\* The outputs that a run has written when it is here.
Written(where) ==
  CASE where = "required" -> {"intents"}
    [] where = "optional" -> {"intents", "required"}
    [] where \in {"manifest", "log", "latest", "returned"} -> {"intents", "required", "optional"}
    [] OTHER -> {}

\* Where a run is tells what it has left on disk.
RunLeft(r) ==
  /\ Written(persisting[r]) \subseteq outputs[r]
  /\ At(r, "log") \/ At(r, "latest") \/ At(r, "returned") =>
       (Readable(r) => manifest[r].status # "failed")
  /\ At(r, "failed log") \/ At(r, "threw") => (Readable(r) => manifest[r].status = "failed")
  /\ At(r, "latest") \/ At(r, "returned") \/ At(r, "threw") => (Readable(r) => Tells(r, manifest[r]))

\* A registration has its manifest from a run that is over, and changed its
\* files only.
Registering(g) ==
  \/ registrar[g] = [at |-> "idle"]
  \/ /\ registrar[g] \in [at : {"read", "write"}, run : Run, manifest : Manifest, mixed : BOOLEAN]
     /\ LET r == registrar[g].run IN
        /\ persisting[r] \in {"returned", "broken", "dead"}
        /\ registrar[g].manifest.status # "failed"
        /\ At(r, "returned") => Tells(r, registrar[g].manifest)

\* latest.json names nobody, or a run that has returned.
LatestInv == latest \in {None, Torn} \/ (latest \in Run /\ At(latest, "returned"))

\* The inductive invariant of the pipeline.
PipelineInv ==
  /\ RunTypes
  /\ \A r \in Run : RunLeft(r)
  /\ registrar = [g \in Registrar |-> registrar[g]] /\ \A g \in Registrar : Registering(g)
  /\ LatestInv
-----------------------------------------------------------------------------
\* The log of a manifest is about it, whatever diagnostics it tells of as well.
LEMMA LogIsAbout ==
  ASSUME NEW r, NEW m, NEW raised \in Raised(m), NEW byModel \in BOOLEAN,
         NEW doc \in createEventLog(r, PipelineEvents(m, raised, byModel))
  PROVE  About({doc}, m)
<1> DEFINE inputs == PipelineEvents(m, raised, byModel)
           analysed(e) == e.type = "analysis.completed"
           told(e) == analysed(e) => e.outcome = Outcome(m) /\ e.evidence = Evidence(m)
<1>1. /\ Len(inputs) \in Nat /\ 1 \in 1 .. Len(inputs) /\ analysed(inputs[1])
      /\ \A i \in 1 .. Len(inputs) : told(inputs[i]) /\ Numbered(inputs[i])
  <2> DEFINE completed(id, trust) == PipelineEvent(id, "analysis.completed", trust, Outcome(m), Evidence(m))
             diagnosed == PipelineEvent(2, "diagnostic.raised", "SYSTEM_FACT", CHOOSE o \in raised : TRUE, "diagnostics.json")
  <2>1. \A trust : \A id \in Int : LET e == completed(id, trust) IN analysed(e) /\ told(e) /\ Numbered(e)
    BY DEF PipelineEvent, Numbered
  <2>2. told(diagnosed) /\ Numbered(diagnosed)
    BY DEF PipelineEvent, Numbered
  <2>3. inputs = <<completed(1, "SYSTEM_FACT")>> \o (IF raised = {} THEN <<>> ELSE <<diagnosed>>) \o
                 (IF byModel THEN <<completed(3, "ADVISORY_INFERENCE")>> ELSE <<>>)
    BY DEF PipelineEvents
  <2> HIDE DEF completed, diagnosed, inputs, told, analysed
  <2>4. /\ Len(inputs) \in Nat /\ 1 \in 1 .. Len(inputs) /\ inputs[1] = completed(1, "SYSTEM_FACT")
        /\ \A i \in 1 .. Len(inputs) :
             inputs[i] \in {completed(1, "SYSTEM_FACT"), diagnosed, completed(3, "ADVISORY_INFERENCE")}
    <3>1. CASE raised = {} /\ byModel
      BY <2>3, <3>1
    <3>2. CASE raised = {} /\ ~byModel
      BY <2>3, <3>2
    <3>3. CASE raised # {} /\ byModel
      BY <2>3, <3>3
    <3>4. CASE raised # {} /\ ~byModel
      BY <2>3, <3>4
    <3> QED
      BY <3>1, <3>2, <3>3, <3>4
  <2> QED
    BY <2>1, <2>2, <2>4
<1> HIDE DEF inputs
<1>2. /\ assertEventLog(doc) /\ doc.events = [i \in 1 .. Len(inputs) |-> doc.events[i]]
      /\ Permutes(doc.events, inputs)
  BY <1>1, LogHolds DEF inputs
<1>3. Len(doc.events) = Len(inputs)
  BY <1>1, <1>2
<1>4. PICK p \in Bijection(1 .. Len(inputs), 1 .. Len(inputs)) :
        \A i \in 1 .. Len(inputs) :
          /\ doc.events[i].outcome = inputs[p[i]].outcome
          /\ doc.events[i].evidenceDigest = hash(inputs[p[i]].evidence)
          /\ doc.events[i].recordedAt = inputs[p[i]].recordedAt
          /\ doc.events[i].type = inputs[p[i]].type
  BY <1>2 DEF Permutes
<1>5. /\ \A i \in 1 .. Len(inputs) : p[i] \in 1 .. Len(inputs)
      /\ \E i \in 1 .. Len(inputs) : p[i] = 1
  BY <1>1 DEF Bijection, Injection, Surjection
<1>6. /\ \E i \in 1 .. Len(doc.events) : analysed(doc.events[i])
      /\ \A i \in 1 .. Len(doc.events) : analysed(doc.events[i]) =>
           /\ doc.events[i].evidenceDigest = hash(Evidence(m))
           /\ doc.events[i].outcome = Outcome(m)
  <2>1. \A i \in 1 .. Len(inputs) : told(inputs[p[i]]) /\ (p[i] = 1 => analysed(inputs[p[i]]))
    BY <1>1, <1>5
  <2>2. \E i \in 1 .. Len(inputs) : analysed(inputs[p[i]])
    BY <1>5, <2>1, Zenon
  <2> QED
    BY <1>3, <1>4, <2>1, <2>2
<1>7. parseEventLog(renderEventLog(doc)) = {doc}
  BY <1>2 DEF parseEventLog, renderEventLog
<1> QED
  BY <1>6, <1>7 DEF About

\* The files of a manifest are no evidence.
LEMMA FilesAreNoEvidence ==
  ASSUME NEW logs, NEW m, NEW k, About(logs, m),
         k.status = m.status, k.failure = m.failure, k.stages = m.stages
  PROVE  About(logs, k)
<1>1. Evidence(k) = Evidence(m) /\ Outcome(k) = Outcome(m)
  BY DEF Evidence, Outcome
<1> QED
  BY <1>1 DEF About

\* Nothing is on disk when the runs begin.
LEMMA PipelineStart == PipelineInit => PipelineInv
<1> SUFFICES ASSUME PipelineInit PROVE PipelineInv
  OBVIOUS
<1>1. [a \in {} |-> None] \in Audits
  <2>1. [a \in {} |-> None] \in [{} -> Audit] /\ {} \in SUBSET Audited
    OBVIOUS
  <2> QED
    BY <2>1 DEF Audits
<1>2. RunTypes
  BY <1>1 DEF PipelineInit, RunTypes, Stages, Failures, Persisting, Readable
<1>3. \A r \in Run : RunLeft(r)
  BY DEF PipelineInit, RunLeft, Written, At
<1>4. \A g \in Registrar : Registering(g)
  BY DEF PipelineInit, Registering
<1> QED
  BY <1>2, <1>3, <1>4 DEF PipelineInit, PipelineInv, LatestInv

-----------------------------------------------------------------------------
(* The steps of a run *)

\* What a step of r leaves alone: the other runs, and every registration.
Others(r) ==
  /\ \A q \in Run \ {r} : /\ persisting'[q] = persisting[q] /\ outputs'[q] = outputs[q]
                          /\ manifest'[q] = manifest[q] /\ eventLog'[q] = eventLog[q]
  /\ UNCHANGED registrar

\* The step of a run, from what it does to that run alone.
LEMMA RunStepFrom ==
  ASSUME PipelineInv, NEW r \in Run, ~Over(r), RunTypes', Others(r), RunLeft(r)',
         UNCHANGED latest \/ latest' = Torn \/ (latest' = r /\ At(r, "returned")')
  PROVE  PipelineInv'
<1>1. ASSUME NEW q \in Run PROVE RunLeft(q)'
  <2>1. CASE q = r
    BY <2>1
  <2>2. CASE q # r
    BY <2>2 DEF PipelineInv, Others, RunLeft, At, Readable, Tells
  <2> QED
    BY <2>1, <2>2
<1>2. ASSUME NEW g \in Registrar PROVE Registering(g)'
  <2>1. registrar'[g] = registrar[g] /\ Registering(g)
    BY DEF PipelineInv, Others
  <2>2. CASE registrar[g] = [at |-> "idle"]
    BY <2>1, <2>2 DEF Registering
  <2>3. CASE registrar[g] # [at |-> "idle"]
    <3>1. registrar[g].run \in Run /\ registrar[g].run # r
      BY <2>1, <2>3 DEF Registering, Over
    <3> QED
      BY <2>1, <2>3, <3>1 DEF Registering, Others, At, Tells
  <2> QED
    BY <2>2, <2>3
<1>3. LatestInv'
  <2>1. CASE UNCHANGED latest /\ latest \notin {None, Torn}
    BY <2>1 DEF PipelineInv, LatestInv, Others, At, Over
  <2> QED
    BY <2>1 DEF PipelineInv, LatestInv
<1>4. (registrar = [g \in Registrar |-> registrar[g]])'
  BY DEF PipelineInv, Others
<1> QED
  BY <1>1, <1>2, <1>3, <1>4 DEF PipelineInv

\* A stage adds its audit, which is one of those it may end with.
LEMMA RunStagePreserves == ASSUME PipelineInv, NEW r \in Run, RunStage(r) PROVE PipelineInv'
<1> USE DEF PipelineInv
<1>1. audits' \in [Run -> Audits]
  <2>1. CASE UNCHANGED audits
    BY <2>1 DEF RunTypes
  <2>2. CASE active(r) \in Audited
    <3>1. PICK result \in Results[active(r)] :
            audits' = [audits EXCEPT ![r] = Complete(r, active(r), result)]
      BY <2>2 DEF RunStage
    <3>2. result \in Audit
      BY <2>2, PipelineAssumption DEF PipelineAssumption
    <3>3. PICK S \in SUBSET Audited : audits[r] \in [S -> Audit]
      BY DEF RunTypes, Audits
    <3>4. Complete(r, active(r), result) \in [S \cup {active(r)} -> Audit] /\ S \cup {active(r)} \in SUBSET Audited
      BY <2>2, <3>2, <3>3 DEF Complete
    <3>5. Complete(r, active(r), result) \in Audits
      BY <3>4 DEF Audits
    <3> QED
      BY <3>1, <3>5 DEF RunTypes
  <2> QED
    BY <2>1, <2>2 DEF RunStage
<1>2. stage' \in [Run -> 1 .. Len(Stages)]
  <2>1. Len(Stages) \in Nat
    BY DEF Stages
  <2> QED
    BY <2>1 DEF RunStage, RunTypes
<1>3. /\ persisting' \in [Run -> Persisting] /\ persisting[r] = "stages" /\ persisting'[r] \in {"stages", "intents"}
      /\ \A q \in Run \ {r} : persisting'[q] = persisting[q]
      /\ UNCHANGED <<failedAt, outputs, manifest, eventLog, latest, registrar>>
  BY DEF RunStage, RunTypes, To, At, Persisting
<1>4. RunTypes' /\ Others(r) /\ ~Over(r)
  BY <1>1, <1>2, <1>3 DEF RunTypes, Readable, Others, Over
<1>5. RunLeft(r)'
  BY <1>3 DEF RunLeft, Written, At
<1> QED
  BY <1>3, <1>4, <1>5, RunStepFrom

\* A stage that throws leaves the disk alone.
LEMMA ThrowPreserves == ASSUME PipelineInv, NEW r \in Run, Throw(r) PROVE PipelineInv'
<1>1. active(r) \in Failures
  BY DEF PipelineInv, RunTypes, active, Failures
<1>2. /\ persisting' \in [Run -> Persisting] /\ persisting[r] = "stages" /\ persisting'[r] = "failing"
      /\ \A q \in Run \ {r} : persisting'[q] = persisting[q]
      /\ failedAt' \in [Run -> Failures]
      /\ UNCHANGED <<stage, audits, outputs, manifest, eventLog, latest, registrar>>
  BY <1>1 DEF Throw, PipelineInv, RunTypes, To, At, Persisting
<1>3. RunTypes' /\ Others(r) /\ ~Over(r) /\ RunLeft(r)'
  BY <1>2 DEF PipelineInv, RunTypes, Readable, Others, Over, RunLeft, Written, At
<1> QED
  BY <1>2, <1>3, RunStepFrom

\* The outputs are written in their order.
LEMMA WriteOutputsPreserves == ASSUME PipelineInv, NEW r \in Run, WriteOutputs(r) PROVE PipelineInv'
<1>1. /\ \/ persisting[r] = "intents" /\ persisting'[r] = "required"
         \/ persisting[r] = "required" /\ persisting'[r] = "optional"
         \/ persisting[r] = "optional" /\ persisting'[r] = "manifest"
      /\ persisting' \in [Run -> Persisting]
      /\ \A q \in Run \ {r} : persisting'[q] = persisting[q] /\ outputs'[q] = outputs[q]
      /\ outputs' \in [Run -> SUBSET {"intents", "required", "optional"}]
      /\ outputs'[r] = outputs[r] \cup {persisting[r]}
      /\ UNCHANGED <<stage, audits, failedAt, manifest, eventLog, latest, registrar>>
  <2>1. /\ DOMAIN Following = {"intents", "required", "optional"}
        /\ Following["intents"] = "required" /\ Following["required"] = "optional"
        /\ Following["optional"] = "manifest"
    BY DEF Following
  <2>2. /\ persisting' = [persisting EXCEPT ![r] = Following[persisting[r]]]
        /\ outputs' = [outputs EXCEPT ![r] = @ \cup {persisting[r]}]
        /\ persisting[r] \in {"intents", "required", "optional"}
        /\ UNCHANGED <<stage, audits, failedAt, manifest, eventLog, latest, registrar>>
    BY <2>1 DEF WriteOutputs, To
  <2> QED
    BY <2>1, <2>2 DEF PipelineInv, RunTypes, Persisting
<1>2. RunTypes' /\ Others(r) /\ ~Over(r)
  BY <1>1 DEF PipelineInv, RunTypes, Readable, Others, Over
<1>3. RunLeft(r)'
  BY <1>1 DEF PipelineInv, RunLeft, Written, At
<1> QED
  BY <1>1, <1>2, <1>3, RunStepFrom

\* A manifest that a run writes itself: in place of its outputs, or when it fails.
LEMMA OwnManifestPreserves ==
  ASSUME PipelineInv, NEW r \in Run, NEW m \in Manifest, manifest' = [manifest EXCEPT ![r] = m],
         \/ At(r, "manifest") /\ m.status # "failed" /\ To(r, "log")
         \/ At(r, "failing") /\ m.status = "failed" /\ To(r, "failed log"),
         UNCHANGED <<stage, audits, failedAt, outputs, eventLog, latest, registrar>>
  PROVE  PipelineInv'
<1>1. /\ persisting' \in [Run -> Persisting] /\ ~Over(r)
      /\ \/ persisting[r] = "manifest" /\ persisting'[r] = "log" /\ m.status # "failed"
         \/ persisting[r] = "failing" /\ persisting'[r] = "failed log" /\ m.status = "failed"
      /\ \A q \in Run \ {r} : persisting'[q] = persisting[q]
  BY DEF PipelineInv, RunTypes, To, At, Persisting, Over
<1>2. manifest' = [q \in Run |-> manifest'[q]] /\ manifest'[r] = m /\ \A q \in Run \ {r} : manifest'[q] = manifest[q]
  BY DEF PipelineInv, RunTypes
<1>3. RunTypes' /\ Others(r)
  BY <1>1, <1>2 DEF PipelineInv, RunTypes, Readable, Others
<1>4. RunLeft(r)'
  BY <1>1, <1>2 DEF PipelineInv, RunLeft, Written, At
<1> QED
  BY <1>1, <1>3, <1>4, RunStepFrom

\* The manifest of a run whose stages are through is not failed.
LEMMA WriteManifestPreserves == ASSUME PipelineInv, NEW r \in Run, WriteManifest(r) PROVE PipelineInv'
<1>1. audits[r] \in Audits
  BY DEF PipelineInv, RunTypes
<1>2. createManifest(r) \in Manifest /\ createManifest(r).status # "failed"
  BY <1>1 DEF createManifest, Manifest, Status, Failures
<1> QED
  BY <1>2, OwnManifestPreserves DEF WriteManifest

\* The manifest of persistFailedRun is.
LEMMA FailManifestPreserves == ASSUME PipelineInv, NEW r \in Run, FailManifest(r) PROVE PipelineInv'
<1>1. PICK S \in SUBSET Audited : audits[r] \in [S -> Audit]
  BY DEF PipelineInv, RunTypes, Audits
<1>2. FailedManifest(r).stages \in [Audited -> Audit]
  BY <1>1 DEF FailedManifest, Audit
<1>3. FailedManifest(r).stages \in Audits
  BY <1>2 DEF Audits
<1>4. failedAt[r] \in Failures
  BY DEF PipelineInv, RunTypes
<1>5. FailedManifest(r) \in Manifest /\ FailedManifest(r).status = "failed"
  BY <1>3, <1>4 DEF FailedManifest, Manifest
<1> QED
  BY <1>5, OwnManifestPreserves DEF FailManifest

\* The log that is written is about the manifest that is read back for it.
LEMMA PersistLogPreserves ==
  ASSUME PipelineInv, NEW r \in Run, WriteLog(r) \/ FailLog(r) PROVE PipelineInv'
<1>1. PICK raised \in Raised(manifest[r]), byModel \in BOOLEAN :
        \E doc \in createEventLog(r, PipelineEvents(manifest[r], raised, byModel)) :
         eventLog' = [eventLog EXCEPT ![r] = {doc}]
  BY DEF WriteLog, FailLog, PersistLog
<1>2. PICK doc \in createEventLog(r, PipelineEvents(manifest[r], raised, byModel)) :
         eventLog' = [eventLog EXCEPT ![r] = {doc}]
  BY <1>1
<1>3. About({doc}, manifest[r])
  BY LogIsAbout
<1>4. /\ persisting' \in [Run -> Persisting] /\ ~Over(r)
      /\ \/ persisting[r] = "log" /\ persisting'[r] = "latest"
         \/ persisting[r] = "failed log" /\ persisting'[r] = "threw"
      /\ \A q \in Run \ {r} : persisting'[q] = persisting[q]
      /\ UNCHANGED <<stage, audits, failedAt, outputs, manifest, latest, registrar>>
  BY DEF WriteLog, FailLog, PersistLog, PipelineInv, RunTypes, To, At, Persisting, Over
<1>5. eventLog' = [q \in Run |-> eventLog'[q]] /\ eventLog'[r] = {doc} /\ \A q \in Run \ {r} : eventLog'[q] = eventLog[q]
  BY <1>2 DEF PipelineInv, RunTypes
<1>6. RunTypes' /\ Others(r)
  BY <1>4, <1>5 DEF PipelineInv, RunTypes, Readable, Others
<1>7. RunLeft(r)'
  BY <1>3, <1>4, <1>5 DEF PipelineInv, RunLeft, Written, At, Tells, Readable
<1> QED
  BY <1>4, <1>6, <1>7, RunStepFrom

\* latest.json is named last.
LEMMA LatestPreserves ==
  ASSUME PipelineInv, NEW r \in Run, TruncateLatest(r) \/ WriteLatest(r) PROVE PipelineInv'
<1>1. /\ persisting' \in [Run -> Persisting] /\ ~Over(r)
      /\ persisting[r] = "latest"
      /\ \/ latest' = Torn /\ persisting'[r] = "latest"
         \/ latest' = r /\ persisting'[r] = "returned"
      /\ \A q \in Run \ {r} : persisting'[q] = persisting[q]
      /\ UNCHANGED <<stage, audits, failedAt, outputs, manifest, eventLog, registrar>>
  BY DEF TruncateLatest, WriteLatest, PipelineInv, RunTypes, To, At, Persisting, Over
<1>2. RunTypes' /\ Others(r)
  BY <1>1 DEF PipelineInv, RunTypes, Readable, Others
<1>3. RunLeft(r)'
  BY <1>1 DEF PipelineInv, RunLeft, Written, At, Tells, Readable
<1> QED
  BY <1>1, <1>2, <1>3, RunStepFrom DEF At

\* A file that cannot be written, or a crash, ends in a state where nothing is
\* claimed of the run.
LEMMA FaultPreserves ==
  ASSUME PipelineInv, NEW r \in Run, Unwritable(r) \/ Crash(r) PROVE PipelineInv'
<1>1. /\ persisting' \in [Run -> Persisting] /\ ~Over(r)
      /\ persisting'[r] \in {"broken", "failing", "dead"}
      /\ \A q \in Run \ {r} : persisting'[q] = persisting[q]
      /\ UNCHANGED <<stage, audits, outputs, eventLog, latest, registrar>>
  BY DEF Unwritable, Crash, PipelineInv, RunTypes, To, At, Persisting, Over
<1>2. failedAt' \in [Run -> Failures]
  BY DEF Unwritable, Crash, PipelineInv, RunTypes, Failures
<1>3. /\ manifest' = [q \in Run |-> manifest'[q]]
      /\ \A q \in Run : manifest'[q] = manifest[q] \/ (q = r /\ manifest'[q] = Torn)
  BY DEF Unwritable, Crash, PipelineInv, RunTypes
<1>4. RunTypes' /\ Others(r)
  BY <1>1, <1>2, <1>3 DEF PipelineInv, RunTypes, Readable, Others
<1>5. RunLeft(r)'
  BY <1>1 DEF RunLeft, Written, At
<1> QED
  BY <1>1, <1>4, <1>5, RunStepFrom

-----------------------------------------------------------------------------
(* The steps of a registration *)

\* Registrations change the files of a manifest only, or leave it torn.
LEMMA RegistrationPreserves ==
  ASSUME PipelineInv, NEW g \in Registrar, Registration(g) PROVE PipelineInv'
<1>1. ASSUME NEW r \in Run, ReadManifest(g, r) PROVE PipelineInv'
  <2> DEFINE new == [at |-> "read", run |-> r, manifest |-> [manifest[r] EXCEPT !.files = @ \cup {g}],
                     mixed |-> FALSE]
             m == [manifest[r] EXCEPT !.files = @ \cup {g}]
  <2>1. /\ registrar' = [registrar EXCEPT ![g] = new] /\ Over(r) /\ Readable(r)
        /\ manifest[r].status # "failed"
        /\ UNCHANGED <<stage, audits, failedAt, persisting, outputs, manifest, eventLog, latest>>
    BY <1>1 DEF ReadManifest, Readable
  <2>2. manifest[r] \in Manifest /\ RunLeft(r)
    BY <2>1 DEF PipelineInv, RunTypes
  <2>3. /\ m \in Manifest /\ m.status = manifest[r].status /\ m.failure = manifest[r].failure
        /\ m.stages = manifest[r].stages
    BY <2>2 DEF Manifest
  <2>4. persisting[r] \in {"returned", "broken", "dead"}
    BY <2>1, <2>2 DEF RunLeft, Over, At
  <2>5. At(r, "returned") => About(eventLog[r], m)
    BY <2>1, <2>2, <2>3, FilesAreNoEvidence DEF RunLeft, Tells
  <2>6. /\ new \in [at : {"read", "write"}, run : Run, manifest : Manifest, mixed : BOOLEAN]
        /\ new.run = r /\ new.manifest = m
    BY <2>3
  <2> HIDE DEF new, m
  <2>7. /\ registrar' = [h \in Registrar |-> registrar'[h]] /\ registrar'[g] = new
        /\ \A h \in Registrar \ {g} : registrar'[h] = registrar[h]
    BY <2>1 DEF PipelineInv
  <2>8. Registering(g)'
    BY <2>1, <2>3, <2>4, <2>5, <2>6, <2>7 DEF Registering, At, Tells
  <2>9. ASSUME NEW h \in Registrar \ {g} PROVE Registering(h)'
    BY <2>1, <2>7 DEF PipelineInv, Registering, At, Tells
  <2>10. RunTypes' /\ (\A q \in Run : RunLeft(q)') /\ LatestInv'
    BY <2>1 DEF PipelineInv, RunTypes, RunLeft, LatestInv, Readable, At, Tells
  <2> QED
    BY <2>7, <2>8, <2>9, <2>10 DEF PipelineInv
<1>2. ASSUME TruncateManifest(g) \/ RegisterArtifacts(g) PROVE PipelineInv'
  <2> DEFINE r == registrar[g].run
             own == registrar[g].manifest
  <2>1. /\ registrar[g] \in [at : {"read", "write"}, run : Run, manifest : Manifest, mixed : BOOLEAN]
        /\ r \in Run /\ own \in Manifest /\ own.status # "failed"
        /\ persisting[r] \in {"returned", "broken", "dead"}
        /\ At(r, "returned") => Tells(r, own)
    BY <1>2 DEF PipelineInv, Registering, TruncateManifest, RegisterArtifacts
  <2>2. /\ UNCHANGED <<stage, audits, failedAt, persisting, outputs, eventLog, latest>>
        /\ manifest' = [manifest EXCEPT ![r] = Torn] \/ manifest' = [manifest EXCEPT ![r] = own]
    BY <1>2 DEF TruncateManifest, RegisterArtifacts
  <2>3. /\ registrar' = [h \in Registrar |-> registrar'[h]]
        /\ \A h \in Registrar : \/ registrar'[h] = registrar[h]
                                \/ registrar'[h] = [at |-> "idle"]
                                \/ registrar'[h] = [registrar[h] EXCEPT !.at = "write"] /\ registrar[h].at = "read"
                                \/ registrar'[h] = [registrar[h] EXCEPT !.mixed = TRUE] /\ registrar[h].at = "write"
    <3>1. CASE TruncateManifest(g)
      BY <3>1 DEF TruncateManifest, PipelineInv
    <3>2. CASE RegisterArtifacts(g)
      BY <3>2 DEF RegisterArtifacts
    <3> QED
      BY <1>2, <3>1, <3>2
  <2> HIDE DEF r, own
  <2>4. /\ manifest' = [q \in Run |-> manifest'[q]]
        /\ \A q \in Run : \/ manifest'[q] = manifest[q]
                          \/ q = r /\ manifest'[q] \in {Torn, own}
    BY <2>1, <2>2 DEF PipelineInv, RunTypes
  <2>5. ASSUME NEW h \in Registrar PROVE Registering(h)'
    <3>1. Registering(h)
      BY DEF PipelineInv
    <3>2. CASE registrar'[h] = registrar[h] \/ registrar'[h] = [at |-> "idle"]
      BY <2>2, <3>1, <3>2 DEF Registering, At, Tells
    <3>3. CASE \/ registrar'[h] = [registrar[h] EXCEPT !.at = "write"] /\ registrar[h].at = "read"
               \/ registrar'[h] = [registrar[h] EXCEPT !.mixed = TRUE] /\ registrar[h].at = "write"
      <4>1. registrar[h] \in [at : {"read", "write"}, run : Run, manifest : Manifest, mixed : BOOLEAN]
        BY <3>1, <3>3 DEF Registering
      <4>2. /\ registrar'[h] \in [at : {"read", "write"}, run : Run, manifest : Manifest, mixed : BOOLEAN]
            /\ registrar'[h].run = registrar[h].run /\ registrar'[h].manifest = registrar[h].manifest
        BY <3>3, <4>1
      <4>3. registrar[h] # [at |-> "idle"]
        BY <3>3
      <4> QED
        BY <2>2, <3>1, <4>2, <4>3 DEF Registering, At, Tells
    <3> QED
      BY <2>3, <3>2, <3>3
  <2>6. ASSUME NEW q \in Run PROVE RunLeft(q)'
    <3>1. RunLeft(q)
      BY DEF PipelineInv
    <3>2. CASE manifest'[q] = manifest[q]
      BY <2>2, <3>1, <3>2 DEF RunLeft, Readable, At, Tells
    <3>3. CASE q = r /\ manifest'[q] = Torn
      BY <2>2, <3>1, <3>3 DEF RunLeft, Readable, At
    <3>4. CASE q = r /\ manifest'[q] = own
      BY <2>1, <2>2, <3>1, <3>4 DEF RunLeft, At, Tells
    <3> QED
      BY <2>4, <3>2, <3>3, <3>4
  <2>7. RunTypes' /\ LatestInv'
    BY <2>1, <2>2, <2>4 DEF PipelineInv, RunTypes, LatestInv, Readable, At
  <2> QED
    BY <2>3, <2>5, <2>6, <2>7 DEF PipelineInv
<1> QED
  BY <1>1, <1>2 DEF Registration

\* The invariant holds of every behaviour, for any number of runs and
\* registrations.
LEMMA PipelineAlways == PipelineSpec => []PipelineInv
<1>1. ASSUME PipelineInv, NEW r \in Run, RunStep(r) PROVE PipelineInv'
  BY <1>1, RunStagePreserves, ThrowPreserves, WriteOutputsPreserves, WriteManifestPreserves,
     FailManifestPreserves, PersistLogPreserves, LatestPreserves, FaultPreserves DEF RunStep
<1>2. PipelineInv /\ UNCHANGED pipelineVars => PipelineInv'
  BY DEF pipelineVars, PipelineInv, RunTypes, RunLeft, Registering, LatestInv, Readable, At, Tells
<1>3. PipelineInv /\ [PipelineNext]_pipelineVars => PipelineInv'
  BY <1>1, <1>2, RegistrationPreserves DEF PipelineNext
<1> QED
  BY <1>3, PipelineStart, PTL DEF PipelineSpec

\* The run that latest.json names has all its outputs, a manifest that is not
\* failed and an event log about it (persist), whatever failed, crashed or was
\* registered.
THEOREM LatestRunIsComplete == PipelineSpec => []LatestIsComplete
<1>1. PipelineInv => LatestIsComplete
  BY DEF PipelineInv, LatestInv, RunTypes, RunLeft, Written, LatestIsComplete, At
<1> QED
  BY <1>1, PipelineAlways, PTL

\* Of a run that has ended the event log is evidence of its manifest, whatever
\* registrations race for that manifest.
THEOREM LogStaysEvidence == PipelineSpec => []LogMatchesManifest
<1>1. PipelineInv => LogMatchesManifest
  BY DEF PipelineInv, RunLeft, LogMatchesManifest, At
<1> QED
  BY <1>1, PipelineAlways, PTL
=============================================================================

------------------------------- MODULE Watch -------------------------------
(***************************************************************************)
(* The watch loop (watch/watcher.ts): poll the tree, compare it with the   *)
(* last poll, and report changes, never more often than a floor allows.    *)
(*                                                                         *)
(* A file is absent or has a version, which stands for its modification    *)
(* time and size; every edit gives it a fresh one.  The tree is one        *)
(* directory, listed when a scan begins and read file by file.  Clocks     *)
(* count down: what is left of the sleep, and of the floor since the last  *)
(* report started.                                                         *)
(***************************************************************************)
EXTENDS Integers, Sequences, FiniteSets

CONSTANTS Walk,          \* the paths in the order a scan meets them
          Generated,     \* what a report itself writes: runs/, cache/, latest.json
          Unwatched,     \* ignored by rule
          MaxFiles,      \* the cap of a scan
          ScanInterval, MinInterval,   \* in ticks
          MaxEdits       \* bound on what people do

Path == {Walk[i] : i \in 1 .. Len(Walk)}
Gone == -1
Signature == {Gone} \cup Nat

WatchAssumption ==
  /\ Len(Walk) = Cardinality(Path)
  /\ Generated \subseteq Path /\ Unwatched \subseteq Path
  /\ MaxFiles \in Nat \ {0} /\ ScanInterval \in Nat \ {0} /\ MinInterval \in Nat
  /\ MaxEdits \in Nat
ASSUME WatchAssumption

VARIABLES disk,      \* the tree
          edits,     \* edits people have made, also the last version
          snapshot,  \* the poll before
          current,   \* the poll that runs, as far as it has come
          listed,    \* what readdir returned to it
          cursor,      \* where it is in Walk
          loop,      \* where the watcher is
          pending,   \* whether it has seen changes it has not reported
          sleepLeft, floorLeft,
          aborted,   \* the signal
          reported   \* each file when the last report began, history

watchVars == <<disk, edits, snapshot, current, listed, cursor, loop, pending,
               sleepLeft, floorLeft, aborted, reported>>

Nothing == [f \in Path |-> Gone]

WatchInit ==
  /\ disk \in [Path -> {Gone, 0}] /\ edits = 0
  /\ snapshot = Nothing /\ current = Nothing
  /\ listed = {f \in Path : disk[f] # Gone} /\ cursor = 1
  /\ loop = "first scan" /\ pending = FALSE
  /\ sleepLeft = 0 /\ floorLeft = 0
  /\ aborted = FALSE /\ reported = Nothing

-----------------------------------------------------------------------------
\* Somebody writes or removes a file.
Edit(f) ==
  /\ edits < MaxEdits /\ f \notin Generated
  /\ edits' = edits + 1
  /\ \E now \in {Gone, edits'} : disk[f] # now /\ disk' = [disk EXCEPT ![f] = now]
  /\ UNCHANGED <<snapshot, current, listed, cursor, loop, pending, sleepLeft, floorLeft, aborted, reported>>

Abort ==
  /\ ~aborted /\ aborted' = TRUE
  /\ UNCHANGED <<disk, edits, snapshot, current, listed, cursor, loop, pending, sleepLeft, floorLeft, reported>>

CountDown(n) == IF n = 0 THEN 0 ELSE n - 1

Tick ==
  /\ sleepLeft > 0 \/ floorLeft > 0
  /\ sleepLeft' = CountDown(sleepLeft) /\ floorLeft' = CountDown(floorLeft)
  /\ UNCHANGED <<disk, edits, snapshot, current, listed, cursor, loop, pending, aborted, reported>>

-----------------------------------------------------------------------------
ignores(f) == f \in Generated \cup Unwatched
Found == {f \in Path : current[f] # Gone}

\* scanTree, one file: it stops at the cap, and a file that vanished since
\* readdir is absent.  While loop is "first scan" it sets the base of comparison.
ScanFile ==
  /\ loop \in {"first scan", "scan"}
  /\ cursor <= Len(Walk) /\ Cardinality(Found) < MaxFiles
  /\ LET f == Walk[cursor] IN
     current' = [current EXCEPT ![f] = IF f \in listed /\ ~ignores(f) THEN disk[f] ELSE Gone]
  /\ cursor' = cursor + 1
  /\ UNCHANGED <<disk, edits, snapshot, listed, loop, pending, sleepLeft, floorLeft, aborted, reported>>

ScanDone == cursor > Len(Walk) \/ Cardinality(Found) >= MaxFiles

\* The start of a report: the floor is anchored here.
StartReport ==
  /\ loop' = "report" /\ pending' = FALSE
  /\ floorLeft' = MinInterval /\ reported' = disk
  /\ UNCHANGED sleepLeft

\* await sleep(scanIntervalMs, signal), or the end of the loop.
Pause ==
  /\ IF aborted THEN loop' = "stopped" /\ UNCHANGED sleepLeft
                ELSE loop' = "sleep" /\ sleepLeft' = ScanInterval

\* The first poll is over: runOnStart reports at once, else what it has found
\* is the state of which nothing is reported.
Ready ==
  /\ loop = "first scan" /\ ScanDone
  /\ snapshot' = current
  /\ \/ StartReport
     \/ Pause /\ reported' = current /\ UNCHANGED <<pending, floorLeft>>
  /\ UNCHANGED <<disk, edits, current, listed, cursor, aborted>>

\* defaultSleep ends early when the signal aborts.
Wake ==
  /\ loop = "sleep" /\ (sleepLeft = 0 \/ aborted)
  /\ sleepLeft' = 0
  /\ IF aborted THEN loop' = "stopped" /\ UNCHANGED <<current, listed, cursor>>
     ELSE /\ loop' = "scan" /\ cursor' = 1 /\ current' = Nothing
          /\ listed' = {f \in Path : disk[f] # Gone}
  /\ UNCHANGED <<disk, edits, snapshot, pending, floorLeft, aborted, reported>>

\* diffSnapshots, total > 0.
Changed == \E f \in Path : snapshot[f] # current[f]

\* The poll is over: nothing to report, throttled, or a report.
Polled ==
  /\ loop = "scan" /\ ScanDone
  /\ snapshot' = current
  /\ IF (pending \/ Changed) /\ floorLeft = 0
     THEN StartReport
     ELSE Pause /\ pending' = (pending \/ Changed) /\ UNCHANGED <<floorLeft, reported>>
  /\ UNCHANGED <<disk, edits, current, listed, cursor, aborted>>

\* As if the tree were scanned again after the report.
EndReport_Rescanned ==
  /\ loop = "report" /\ Pause
  /\ \E written \in SUBSET Generated :
       disk' = [f \in Path |-> IF f \notin written THEN disk[f]
                            ELSE IF disk[f] = 0 THEN 1 ELSE 0]
  /\ snapshot' = [f \in Path |-> IF ignores(f) THEN Gone ELSE disk'[f]]
  /\ UNCHANGED <<edits, current, listed, cursor, pending, floorLeft, aborted, reported>>

\* generate: the report succeeds or fails after it has written what it could;
\* the snapshot stays the one from before it.
EndReport ==
  /\ loop = "report" /\ Pause
  /\ \E written \in SUBSET Generated :
       disk' = [f \in Path |-> IF f \notin written THEN disk[f]
                            ELSE IF disk[f] = 0 THEN 1 ELSE 0]
  /\ UNCHANGED <<edits, snapshot, current, listed, cursor, pending, floorLeft, aborted, reported>>

WatchLoop == ScanFile \/ Ready \/ Wake \/ Polled \/ EndReport
WatchNext == WatchLoop \/ Tick \/ Abort \/ \E f \in Path : Edit(f)

\* Timers fire and a report ends, well or not: nothing waits for a person.
WatchFairness == WF_watchVars(WatchLoop) /\ WF_watchVars(Tick)
WatchSpec == WatchInit /\ [][WatchNext]_watchVars /\ WatchFairness

-----------------------------------------------------------------------------
\* The files a scan can reach: those the cap does not cut off.
Reached(f) ==
  /\ ~ignores(f)
  /\ LET place == CHOOSE i \in 1 .. Len(Walk) : Walk[i] = f
         before == {Walk[i] : i \in 1 .. place - 1}
     IN Cardinality({g \in before : ~ignores(g) /\ disk[g] # Gone}) < MaxFiles

(***************************************************************************)
(* The last edit leads to a report and the last report to rest             *)
(* (watchRepository): once people stop editing, and unless the watcher is  *)
(* aborted, every file that is there and that it can reach is from some    *)
(* time on as the last report began with, whether edits were made during a *)
(* scan, a throttled pause or a report that failed; and no report runs any *)
(* more, although every report has itself changed the tree.  (Of a file    *)
(* created after a poll and gone before the next, a report may still tell: *)
(* neither poll shows it.)                                                 *)
(***************************************************************************)
WatchSettles ==
  <>[](\/ loop = "stopped"
       \/ loop # "report" /\ \A f \in Path : Reached(f) /\ disk[f] # Gone => disk[f] = reported[f])
=============================================================================

------------------------------ MODULE GraphDiff ------------------------------
(***************************************************************************)
(* The difference of two intent graphs (graph/diff.ts).                    *)
(*                                                                         *)
(* A record has an id, a place (source kind, path, lines, symbol and kind  *)
(* of statement), which is its identity over time, and two contents:       *)
(* fields that count as changed and the time it was observed, which does   *)
(* not.  Ids are numbers, which stand for their order as text; a relation  *)
(* is the tuple that its key is made of.                                   *)
(***************************************************************************)
EXTENDS Integers, Sequences, FiniteSets, SequencesExt

Before(r, s) == r.id < s.id

\* groupRecords: the records of one graph whose id the other does not know, by
\* place, in the order of their ids.
unmatched(g, other) == {r \in g.records : \A s \in other.records : s.id # r.id}
groupRecords(g, other, place) ==
  LET group == {r \in unmatched(g, other) : r.place = place} IN
  [n \in 1 .. Cardinality(group) |-> CHOOSE r \in group : Cardinality({s \in group : Before(s, r)}) = n - 1]

\* Fields that differ, apart from id and observedAt.
changedFieldPaths(r, s) == {f \in DOMAIN r \ {"id", "observedAt"} : r[f] # s[f]}

\* As if what is left over were taken from the start of a group.
Paired_Shifted(before, after, place) ==
  LET left == groupRecords(before, after, place)
      right == groupRecords(after, before, place)
      n == IF Len(left) < Len(right) THEN Len(left) ELSE Len(right)
  IN [changed |-> {[identity |-> place, before |-> left[i], after |-> right[i],
                    changedFields |-> changedFieldPaths(left[i], right[i])] : i \in 1 .. n},
      removed |-> {left[i] : i \in 1 .. Len(left) - n},
      added |-> {right[i] : i \in n + 1 .. Len(right)}]

\* Records of one place are paired in order; the longer side is left over.
Paired(before, after, place) ==
  LET left == groupRecords(before, after, place)
      right == groupRecords(after, before, place)
      n == IF Len(left) < Len(right) THEN Len(left) ELSE Len(right)
  IN [changed |-> {[identity |-> place, before |-> left[i], after |-> right[i],
                    changedFields |-> changedFieldPaths(left[i], right[i])] : i \in 1 .. n},
      removed |-> {left[i] : i \in n + 1 .. Len(left)},
      added |-> {right[i] : i \in n + 1 .. Len(right)}]

diffIntentGraphs(before, after) ==
  LET places == {r.place : r \in before.records \cup after.records}
      all(part) == UNION {Paired(before, after, p)[part] : p \in places}
  IN [added |-> all("added"), removed |-> all("removed"), changed |-> all("changed"),
      unchanged |-> before.records \ unmatched(before, after),
      relationsAdded |-> after.relations \ before.relations,
      relationsRemoved |-> before.relations \ after.relations,
      relationsUnchanged |-> before.relations \cap after.relations]

-----------------------------------------------------------------------------
IdsOf(records) == {r.id : r \in records}
Befores(d) == {c.before : c \in d.changed}
Afters(d) == {c.after : c \in d.changed}
Disjoint(A, B) == A \cap B = {}

(***************************************************************************)
(* A diff is a patch (diffIntentGraphs): what was removed, changed from    *)
(* and kept is exactly the graph before, each record once; what was added, *)
(* changed to and kept is the graph after; a record changes where it is    *)
(* and into one record only; no place both loses and gains one; and the    *)
(* way back is the same diff with its sides exchanged.                     *)
(***************************************************************************)
DiffIsPatch(before, after) ==
  LET d == diffIntentGraphs(before, after)
      back == diffIntentGraphs(after, before)
  IN /\ IdsOf(before.records) = IdsOf(d.removed) \cup IdsOf(Befores(d)) \cup IdsOf(d.unchanged)
     /\ IdsOf(after.records) = IdsOf(d.added) \cup IdsOf(Afters(d)) \cup IdsOf(d.unchanged)
     /\ Disjoint(d.removed, Befores(d)) /\ Disjoint(d.added, Afters(d))
     /\ \A c \in d.changed :
          /\ c.before.place = c.after.place
          /\ \A e \in d.changed : e.before = c.before \/ e.after = c.after => e = c
     /\ \A r \in d.removed, a \in d.added : r.place # a.place
     /\ after.relations = (before.relations \ d.relationsRemoved) \cup d.relationsAdded
     /\ back.added = d.removed /\ back.removed = d.added /\ Befores(back) = Afters(d)
=============================================================================

------------------------------ MODULE TruthMap ------------------------------
(***************************************************************************)
(* The truth map of an intent graph (core/truth-map.ts): its records,      *)
(* grouped into assertions by the relations that say two records are about *)
(* one thing, each with the status its evidence gives it; and the check of *)
(* a map against its graph.                                                *)
(*                                                                         *)
(* A graph maps each record id, a number, to its epistemic class and has   *)
(* a set of relations, tuples of two ids and a type.  An assertion is      *)
(* named by its records and relations, as its id is a hash of both.        *)
(* Sources, fingerprints and the date are left out.                        *)
(***************************************************************************)
EXTENDS Integers, Sequences, FiniteSets, SequencesExt

\* All relation types but the structural ones.
MAPPING_RELATIONS ==
  {"declares", "plans", "implements", "modifies", "tests", "documents", "releases", "supersedes",
   "contradicts", "duplicates", "evidenced_by", "claimed_by", "same_as"}

Records(graph) == DOMAIN graph.class
Mapping(graph) == {r \in graph.relations : r[3] \in MAPPING_RELATIONS}
Within(relations, records) == {r \in relations : r[1] \in records /\ r[2] \in records}

\* RecordComponents: a parent for each record, itself at the root.  The path
\* compression of find changes no root and is left out.
find(parent, id) ==
  LET root[r \in DOMAIN parent] == IF parent[r] = r THEN r ELSE root[parent[r]] IN root[id]

\* As if the ends were linked instead of their roots.
connect_Ends(parent, relation) ==
  IF relation[1] < relation[2] THEN [parent EXCEPT ![relation[2]] = relation[1]]
  ELSE [parent EXCEPT ![relation[1]] = relation[2]]

\* The smaller root stays one.
connect(parent, relation) ==
  LET l == find(parent, relation[1])  r == find(parent, relation[2])
  IN IF l = r THEN parent ELSE IF l < r THEN [parent EXCEPT ![r] = l] ELSE [parent EXCEPT ![l] = r]

Components(graph, relations) ==
  FoldLeft(connect, [r \in Records(graph) |-> r], relations)

laneFor(class) ==
  IF class \in {"declaration", "plan"} THEN "declared" ELSE IF class = "fact" THEN "observed" ELSE "claimed"

classifyStatus(graph, records, relations) ==
  LET lanes == {laneFor(graph.class[r]) : r \in records}
  IN CASE \E r \in relations : r[3] = "contradicts" -> "conflicted"
       [] {"declared", "observed"} \subseteq lanes -> "supported"
       [] lanes = {"declared"} -> "declared_only"
       [] lanes = {"observed"} -> "observed_only"
       [] lanes = {"claimed"} -> "claimed_only"
       [] OTHER -> "mixed"

buildAssertion(graph, records) ==
  LET relations == Within(Mapping(graph), records)
  IN [records |-> records, relations |-> relations,
      status |-> classifyStatus(graph, records, relations)]

\* The map that joins the relations in this order.
Projection(graph, order) ==
  LET parent == Components(graph, order)
      roots == {find(parent, r) : r \in Records(graph)}
  IN {buildAssertion(graph, {r \in Records(graph) : find(parent, r) = root}) : root \in roots}

projectTruthMap(graph) == Projection(graph, SetToSeq(Mapping(graph)))

\* assertConnected: the walk from one record along the assertion's relations.
Reached(a, first) ==
  LET step(seen) == seen \cup {r[1] : r \in {x \in a.relations : x[2] \in seen}}
                         \cup {r[2] : r \in {x \in a.relations : x[1] \in seen}}
      steps == Cardinality(a.records)
      walk[n \in 0 .. steps] == IF n = 0 THEN {first} ELSE step(walk[n - 1])
  IN walk[steps]
Connected(a) == \A r \in a.records : Reached(a, r) = a.records

assertTruthMap(map, graph) ==
  /\ \A a \in map :
       /\ a.records # {} /\ a.records \subseteq Records(graph)
       /\ \A b \in map \ {a} : a.records \cap b.records = {}
       /\ a.relations = Within(Mapping(graph), a.records)
       /\ Connected(a)
       /\ a.status = classifyStatus(graph, a.records, a.relations)
  /\ UNION {a.records : a \in map} = Records(graph)
  /\ \A r \in Mapping(graph), a \in map : r[1] \in a.records <=> r[2] \in a.records

-----------------------------------------------------------------------------
Partitions(S) ==
  {P \in SUBSET (SUBSET S \ {{}}) : UNION P = S /\ \A A, B \in P : A = B \/ A \cap B = {}}

(***************************************************************************)
(* A graph has one truth map (projectTruthMap and assertTruthMap): the     *)
(* union of records gives it in whichever order the relations come, the    *)
(* check accepts it, and accepts no other way to group the records and no  *)
(* assertion whose status or relations were changed.                       *)
(***************************************************************************)
TruthMapIsUnique(graph) ==
  LET map == projectTruthMap(graph)
      with(a, b) == (map \ {a}) \cup {b}
  IN /\ assertTruthMap(map, graph)
     /\ \A order \in SetToSeqs(Mapping(graph)) : Projection(graph, order) = map
     /\ \A P \in Partitions(Records(graph)) :
          LET other == {buildAssertion(graph, S) : S \in P}
          IN assertTruthMap(other, graph) => other = map
     /\ \A a \in map :
          /\ \A s \in {"supported", "mixed", "declared_only", "conflicted"} \ {a.status} :
               ~assertTruthMap(with(a, [a EXCEPT !.status = s]), graph)
          /\ \A r \in a.relations :
               ~assertTruthMap(with(a, [a EXCEPT !.relations = @ \ {r}]), graph)
=============================================================================

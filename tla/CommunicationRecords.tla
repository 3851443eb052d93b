------------------------ MODULE CommunicationRecords ------------------------
(***************************************************************************)
(* Who said what under project/<ticket>/ (extractors/communication.ts with *)
(* its attribution and its envelope, communication/identity.ts): which     *)
(* files are read, whose they are, and the statements in them.             *)
(*                                                                         *)
(* The id of a registry's participant is taken to have the prefix of its   *)
(* role; Unknown is whoever a file does not name.  A file has its ticket   *)
(* directory, what its name tells (inferred), its front matter (envelope)  *)
(* and its lines, each a heading with the type of its section for the role *)
(* of the file, a list item, a text or blank.                              *)
(***************************************************************************)
EXTENDS Integers, Sequences, FiniteSets, SequencesExt

None == "none"
Unknown == "unknown"
first(values) ==
  LET given == {n \in DOMAIN values : values[n] # None}
  IN IF given = {} THEN None ELSE values[CHOOSE n \in given : \A k \in given : n <= k]

-----------------------------------------------------------------------------
\* assertParticipantIdentityRegistry: the entries of a version 1 registry.
Identifiers == {"gitAuthors", "a2aAgentIds", "humanAliases"}
assertParticipantIdentityRegistry(entries) ==
  /\ \A e \in Range(entries) :
       /\ e.role = "human" => e.a2aAgentIds = {}
       /\ e.role = "agent" => e.humanAliases = {}
  /\ \A k, l \in DOMAIN entries : k # l =>
       /\ entries[k].id # entries[l].id
       /\ \A field \in Identifiers : entries[k][field] \cap entries[l][field] = {}

\* normalizeParticipantIdentityRegistry: version 2 has verified principals, each
\* of one participant, and they become the identifiers of version 1.
normalizeV2Entry(raw) ==
  LET subjects(providers) == {p.subject : p \in {q \in raw.principals : q.provider \in providers}}
      others == {p.provider : p \in raw.principals} \ {"git"}
  IN [id |-> raw.id, role |-> raw.role, gitAuthors |-> subjects({"git"}),
      a2aAgentIds |-> IF raw.role = "agent" THEN subjects({"a2a"}) ELSE {},
      humanAliases |-> IF raw.role = "human" THEN subjects(others) ELSE {}]
PrincipalsAccepted(raws) ==
  \A k, l \in DOMAIN raws : k # l => raws[k].id # raws[l].id /\ raws[k].principals \cap raws[l].principals = {}

\* loadParticipantIdentityRegistry: the newer file if there is one.
NoRegistry == [present |-> FALSE, entries |-> <<>>]
loadParticipantIdentityRegistry(files) ==
  IF "v2" \in DOMAIN files THEN [present |-> TRUE, entries |-> [n \in DOMAIN files.v2 |-> normalizeV2Entry(files.v2[n])]]
  ELSE IF "v1" \in DOMAIN files THEN [present |-> TRUE, entries |-> files.v1] ELSE NoRegistry
RegistryAccepted(files) ==
  IF "v2" \in DOMAIN files THEN PrincipalsAccepted(files.v2)
  ELSE "v1" \in DOMAIN files => assertParticipantIdentityRegistry(files.v1)

-----------------------------------------------------------------------------
\* loadCommunicationCandidate.
hasExplicitCommunicationEnvelope(m) == first(<<m.participant, m.id, m.role, m.type, m.ticket>>) # None
shouldIgnoreCommunicationCandidate(file, requested, registry) ==
  /\ ~hasExplicitCommunicationEnvelope(file.envelope)
  /\ \/ file.evidence
     \/ requested = None /\ ~registry.present /\ ~file.looksLikeTicket /\ file.inferred.role = None
IsCandidate(file, requested, registry) ==
  /\ file.ticket # None /\ (requested = None \/ file.ticket = requested)
  /\ file.readable /\ ~file.envelope.malformed
  /\ ~shouldIgnoreCommunicationCandidate(file, requested, registry)

\* resolveAttribution: an entry of the registry speaks for its id, else the file
\* for itself.  There is at most one entry for an id.
Entries(registry, id) == {e \in Range(registry.entries) : registry.present /\ e.id = id}
DeclaredRole(file) ==
  LET role == first(<<file.envelope.role, file.inferred.role>>) IN IF role = None THEN Unknown ELSE role
resolveAttribution(file, registry) ==
  LET m == file.envelope
      entries == Entries(registry, m.id)
      entry == CHOOSE e \in entries : TRUE
      named == first(<<m.id, m.participant, file.inferred.participant>>)
      participant == IF entries # {} THEN entry.id ELSE IF named = None THEN Unknown ELSE named
      role == IF entries # {} THEN entry.role ELSE DeclaredRole(file)
      type == first(<<m.type, file.inferred.type>>)
  IN [participant |-> participant, role |-> role, type |-> IF type = None THEN "message" ELSE type,
      ticket |-> first(<<m.ticket, file.ticket>>), gitAuthors |-> IF entries # {} THEN entry.gitAuthors ELSE m.gitAuthors,
      resolved |-> IF registry.present THEN entries # {} ELSE Unknown \notin {role, participant}]

\* attributionWarnings, by what they are about.
attributionWarnings(file, registry) ==
  LET a == resolveAttribution(file, registry)
      m == file.envelope
      entries == Entries(registry, m.id)
  IN {w \in {"role", "participant", "id_required", "id_unknown", "role_conflicts", "authors_ignored", "a2a_not_assigned"} :
        CASE w = "role" -> a.role = Unknown
          [] w = "participant" -> a.participant = Unknown
          [] w = "id_required" -> registry.present /\ m.id = None
          [] w = "id_unknown" -> registry.present /\ m.id # None /\ entries = {}
          [] w = "role_conflicts" -> DeclaredRole(file) # Unknown /\ \E e \in entries : e.role # DeclaredRole(file)
          [] w = "authors_ignored" -> m.gitAuthors # {} /\ \E e \in entries : e.gitAuthors # m.gitAuthors
          [] w = "a2a_not_assigned" -> m.a2a # None /\ \A e \in entries : m.a2a \notin e.a2aAgentIds}

-----------------------------------------------------------------------------
\* communicationSegments: statements of the file's type, or, in a file whose
\* name is of a participant, those under a heading of its role's sections.
Flush(s) ==
  [s EXCEPT !.pending = <<>>,
            !.output = IF s.pending \in {<<>>, <<None>>} THEN @ ELSE Append(@, [text |-> s.pending, type |-> s.type])]

\* As if a heading did not end the statement before it.
Segment_RunOn(s, line) ==
  IF line.kind = "heading" THEN [s EXCEPT !.type = line.section]
  ELSE IF s.type = None \/ line.kind = "blank" THEN Flush(s)
  ELSE IF line.kind = "item" THEN [Flush(s) EXCEPT !.pending = <<line.text>>]
  ELSE [s EXCEPT !.pending = Append(@, line.text)]

Segment(s, line) ==
  IF line.kind = "heading" THEN [Flush(s) EXCEPT !.type = line.section]
  ELSE IF s.type = None \/ line.kind = "blank" THEN Flush(s)
  ELSE IF line.kind = "item" THEN [Flush(s) EXCEPT !.pending = <<line.text>>]
  ELSE [s EXCEPT !.pending = Append(@, line.text)]

IsStatement(line) == line.kind \in {"item", "text"}
communicationSegments(lines, type, governed) ==
  LET statements == SelectSeq(lines, IsStatement) IN
  IF governed THEN Flush(FoldLeft(Segment, [output |-> <<>>, pending |-> <<>>, type |-> None], lines)).output
  ELSE [n \in DOMAIN statements |-> [text |-> <<statements[n].text>>, type |-> type]]

\* semanticsFor: what a statement of a type is.
epistemicClass(type, role) ==
  CASE type = "plan" -> "plan"
    [] type \in {"report", "result", "claim"} -> "claim"
    [] type = "decision" -> "declaration"
    [] OTHER -> IF role = "agent" THEN "claim" ELSE "declaration"

\* convertCommunicationCandidate and buildCommunicationIntentRecord.
convertCommunicationCandidate(file, registry) ==
  LET a == resolveAttribution(file, registry)
      governed == file.inferred.governance /\ file.envelope.type = None /\ a.role # Unknown
      segments == communicationSegments(file.lines, a.type, governed)
  IN [n \in DOMAIN segments |->
        [participant |-> a.participant, role |-> a.role, ticket |-> a.ticket, resolved |-> a.resolved,
         aliases |-> a.gitAuthors, type |-> segments[n].type, text |-> segments[n].text,
         class |-> epistemicClass(segments[n].type, a.role)]]
extractCommunicationIntent(file, requested, registry) ==
  IF IsCandidate(file, requested, registry) THEN convertCommunicationCandidate(file, registry) ELSE <<>>

-----------------------------------------------------------------------------
(***************************************************************************)
(* A statement is laid to whom it is from (extractCommunicationIntent):    *)
(* with an accepted registry, of either version, a record is resolved only *)
(* to the participant whose id the file gives, with that participant's     *)
(* role and commits, which are no one else's, and a file that says         *)
(* otherwise is warned about; whatever is not resolved, or has no role, is *)
(* warned about too; and only a statement of a human, or a decision, is a  *)
(* declaration.                                                            *)
(***************************************************************************)
TalkIsAttributed(file, requested, files) ==
  LET registry == loadParticipantIdentityRegistry(files)
      records == Range(extractCommunicationIntent(file, requested, registry))
      warnings == attributionWarnings(file, registry)
  IN RegistryAccepted(files) =>
       /\ \A k, l \in DOMAIN registry.entries : k # l =>
            \A field \in {"gitAuthors", "a2aAgentIds"} : registry.entries[k][field] \cap registry.entries[l][field] = {}
       /\ \A r \in records :
            /\ requested # None => file.ticket = requested
            /\ registry.present /\ r.resolved => \E e \in Range(registry.entries) :
                 /\ e.id = file.envelope.id /\ r.participant = e.id /\ r.role = e.role /\ r.aliases = e.gitAuthors
                 /\ DeclaredRole(file) \notin {Unknown, e.role} => "role_conflicts" \in warnings
            /\ ~r.resolved \/ r.role = Unknown => warnings # {}
            /\ r.class = "declaration" => r.type = "decision" \/ r.role # "agent"

(***************************************************************************)
(* A statement stays under its heading (communicationSegments): in a file  *)
(* of a participant, the texts under a section of the role are all of the  *)
(* statements, in their order, each of the type of the heading above it,   *)
(* and no statement has a list item but at its start.                      *)
(***************************************************************************)
StatementsStayTogether(lines) ==
  LET segments == communicationSegments(lines, "plan", TRUE)
      headings(n) == {k \in 1 .. n : lines[k].kind = "heading"}
      section(n) == IF headings(n) = {} THEN None ELSE lines[CHOOSE k \in headings(n) : headings(n) \subseteq 1 .. k].section
      IsKept(n) == IsStatement(lines[n]) /\ section(n) # None /\ lines[n].text # None
      kept == SelectSeq([n \in DOMAIN lines |-> n], IsKept)
      IsText(x) == x[1] # None
      said == FlattenSeq([n \in DOMAIN segments |->
                [k \in DOMAIN segments[n].text |-> <<segments[n].text[k], segments[n].type>>]])
  IN /\ SelectSeq(said, IsText) = [n \in DOMAIN kept |-> <<lines[kept[n]].text, section(kept[n])>>]
     /\ \A n \in DOMAIN segments : \A k \in 2 .. Len(segments[n].text) :
          \E line \in Range(lines) : line.kind = "text" /\ line.text = segments[n].text[k]
=============================================================================

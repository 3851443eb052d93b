-------------------------- MODULE MCIntakeService --------------------------
\* A manager, a developer and two tickets; the clients are alike.
EXTENDS IntakeService, TLC

CONSTANTS boss, alice, bot, pb, pa, pc, dev, manager, t1, t2

Clients == Permutations(Client)

say(k, p, c) == [key |-> k, principal |-> p, command |-> c]

register(id, role, capabilities, p, tickets) ==
  [type |-> "RegisterParticipant", id |-> id,
   participant |-> [role |-> role, capabilities |-> capabilities,
                    principals |-> {p}, tickets |-> tickets]]

bind(id, p) == [type |-> "BindExternalIdentity", id |-> id, principal |-> p]

assign(id, role, tickets) ==
  [type |-> "AssignRole", id |-> id, role |-> role, tickets |-> tickets,
   capabilities |-> {"capture_own_message"}]

capture(role, secret) ==
  [type |-> "CaptureMessage", id |-> alice, role |-> role, ticket |-> t1, secret |-> secret]

rebuild(ticket) == [type |-> "RebuildProjection", id |-> alice, ticket |-> ticket]

verify == [type |-> "VerifyEventStream"]

RegisterBoss == say("boss", pb, register(boss, manager, Capability, pb, {}))
RegisterAlice == say("alice", pb, register(alice, dev, {"capture_own_message"}, pa, {t1}))

NewStream == {<<>>}

Team == {<<RegisterBoss, RegisterAlice>>}

\* A role file somebody wrote by hand.
HandWritten == {<<dev, alice, t2>>}

\* The role file somebody writes in the meantime.
Edited == {<<dev, alice, t1>>}

\* Two first registrations, an agent, and one principal wanted by several.
Founding ==
  {RegisterBoss, RegisterAlice,
   say("other", pa, register(alice, dev, Capability, pa, {t1})),
   say("bot", pb, register(bot, None, {"verify_event_stream"}, pa, {})),
   say("bind", pb, bind(boss, pa)),
   say("verify", pb, verify)}

\* Messages, one of them under the key of another, with a secret and in a wrong
\* role; loss of the ticket; rebuilding the role file.
Talk ==
  {say("m1", pa, capture(dev, FALSE)), say("m2", pa, capture(dev, FALSE)),
   say("m1", pa, capture(manager, TRUE)), say("off", pb, assign(alice, dev, {})),
   say("again", pb, rebuild(t1)), say("legacy", pb, rebuild(t2))}

\* The developer becomes a manager and goes on writing.
Promotion ==
  {say("m1", pa, capture(dev, FALSE)), say("m2", pa, capture(manager, FALSE)),
   say("up", pb, assign(alice, manager, {t1}))}
=============================================================================

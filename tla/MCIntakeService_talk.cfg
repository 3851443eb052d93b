SPECIFICATION Spec
SYMMETRY Clients
CONSTANTS
  Client = {x, y}
  ParticipantId = {boss, alice, bot}
  Human = {boss, alice}
  Principal = {pb, pa, pc}
  Role = {dev, manager}
  Ticket = {t1, t2}
  Key = {"boss", "alice", "other", "bot", "bind", "verify", "m1", "m2", "m3", "off", "again", "legacy", "up"}
  Submissions <- Talk
  Streams <- Team
  Legacy <- HandWritten
  ByHand <- Edited
  Bootstrapping = {pb}
  Pipelining = FALSE
  MaxEvents = 4
  MaxCrashes = 1
  None = None
  boss = boss
  alice = alice
  bot = bot
  pb = pb
  pa = pa
  pc = pc
  dev = dev
  manager = manager
  t1 = t1
  t2 = t2
INVARIANTS KeysUnique AcceptedIsStored RefusedStoredNothing RoleFileIsPrefix

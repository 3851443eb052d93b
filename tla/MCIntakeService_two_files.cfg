SPECIFICATION Spec
CONSTANTS
  Client = {x, y}
  ParticipantId = {boss, alice, bot}
  Human = {boss, alice}
  Principal = {pb, pa, pc}
  Role = {dev, manager}
  Ticket = {t1, t2}
  Key = {"boss", "alice", "other", "bot", "bind", "verify", "m1", "m2", "m3", "off", "again", "legacy", "up"}
  Submissions <- Promotion
  Streams <- Team
  Legacy = {}
  ByHand = {}
  Bootstrapping = {pb}
  Pipelining = FALSE
  MaxEvents = 5
  MaxCrashes = 0
  None = None
  boss = boss
  alice = alice
  bot = bot
  pb = pb
  pa = pa
  pc = pc
  dev = dev
  manager = manager
  t1 = t1
  t2 = t2
INVARIANT OneRoleFile

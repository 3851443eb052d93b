SPECIFICATION Spec
CONSTANTS
  Client = {x, y}
  ParticipantId = {boss, alice, bot}
  Human = {boss, alice}
  Principal = {pb, pa, pc}
  Role = {dev, manager}
  Ticket = {t1, t2}
  Key = {"boss", "alice", "other", "bot", "bind", "verify", "m1", "m2", "m3", "off", "again", "legacy", "up"}
  Submissions <- Founding
  Streams <- NewStream
  Legacy = {}
  ByHand = {}
  Bootstrapping = {pb, pa}
  Pipelining = FALSE
  MaxEvents = 3
  MaxCrashes = 0
  None = None
  boss = boss
  alice = alice
  bot = bot
  pb = pb
  pa = pa
  pc = pc
  dev = dev
  manager = manager
  t1 = t1
  t2 = t2
INVARIANTS TypeOK LockIsTheirs EveryEventAuthorized PrincipalsUnambiguous RegistryIsReplay
PROPERTY LockIsFreed

SPECIFICATION Spec
CONSTANTS
  Principal = {alice}
  MessageId = {m1, m2}
  Call = {c1, c2, c3}
  Requests <- ContinueRequests
  Replica = {p1, p2}
  ForeignStates = {"INPUT_REQUIRED"}
  Faults = {}
  MaxCrashes = 0
  None = None
  alice = alice
  bob = bob
  m1 = m1
  m2 = m2
  c1 = c1
INVARIANTS TypeOK ExecutedOnce WorkingIsAttended
PROPERTIES TasksSettle

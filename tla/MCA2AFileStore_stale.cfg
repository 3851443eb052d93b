SPECIFICATION Spec
CONSTANTS
  Principal = {alice}
  MessageId = {m1, m2}
  Call = {c1, c2, c3}
  Requests <- RetryRequests
  Replica = {p1, p2}
  ForeignStates = {}
  Faults = {"crash", "stale"}
  MaxCrashes = 1
  None = None
  alice = alice
  bob = bob
  m1 = m1
  m2 = m2
  c1 = c1
INVARIANT MutualExclusion

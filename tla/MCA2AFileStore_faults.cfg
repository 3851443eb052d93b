SPECIFICATION Spec
CONSTANTS
  Principal = {alice, bob}
  MessageId = {m1, m2}
  Call = {c1, c2}
  Requests <- MixedRequests
  Replica = {p1, p2}
  ForeignStates = {}
  Faults = {"crash", "timeout", "unsaved", "stale"}
  MaxCrashes = 2
  None = None
  alice = alice
  bob = bob
  m1 = m1
  m2 = m2
  c1 = c1
INVARIANTS MutualExclusion AnswerIsDurable
PROPERTIES PromiseKept SettledNotRerun CallsEnd

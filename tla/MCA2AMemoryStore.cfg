SPECIFICATION Spec
CONSTANTS
  Principal = {alice, bob}
  MessageId = {m1, m2}
  Call = {c1, c2, c3}
  Requests <- MixedRequests
  None = None
  alice = alice
  bob = bob
  m1 = m1
  m2 = m2
  c1 = c1

INVARIANTS TypeOK ExecutedOnce AnswerStands
PROPERTIES PromiseKept TasksSettle

SPECIFICATION Spec
CONSTANTS
  Call = {c1, c2, c3}
  Text = {p, q}
  Vacant = {q}
  Note = {n}
  ReceiptPath = {r1, r2}
  Faults = {"crash", "unsaved"}
  MaxCrashes = 1
  Requests <- Workflow
  None = None
  p = p
  q = q
  r1 = r1
  r2 = r2
INVARIANTS TypeOK LockIsTheirs PatchesFollowTheirSource ReceiptIsHonest AppliedOnce

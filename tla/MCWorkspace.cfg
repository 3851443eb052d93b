SPECIFICATION MCSpec
CONSTANTS
  p1 = p1  p2 = p2  p3 = p3  h1 = h1  s1 = s1  s2 = s2  f1 = f1  f2 = f2
  r1 = r1  r2 = r2  g1 = g1  g2 = g2
  Caller = {c1, c2}
  Patch = {p1, p2, p3}
  Author = {h1}
  File = {f1, f2}
  Slot = {s1, s2}
  EditsOf <- MCEdits
  Unfit <- MCUnfit
  Orders <- MCOrders
  Trouble = {"crash", "unwritten"}
  Absent = Absent
  Walk <- MCWalk
  Generated = {"latest.json"}
  Unwatched = {}
  MaxFiles = 2
  ScanInterval = 1
  MinInterval = 3
  MaxEdits = 2
  Run = {r1, r2}
  Registrar = {g1, g2}
  Results <- MCResults
  Throws = {"documentationExtraction", "taskSynthesis", "todoRendering"}
  Faults = {"crash", "unwritten"}
  None = None
  Torn = Torn
  Comparison = {k1, k2}
  Earlier = Earlier
  Missing = Missing
  RequestTime = 9
  ListTime = 3
  RouteTime = 2
  Calls = 2
INVARIANTS WholeWhenUnlocked AppliedOncePerReceipt LatestIsComplete LogMatchesManifest BaseIsWhole CallIsBounded
PROPERTY WatchLoopSettles
CHECK_DEADLOCK FALSE

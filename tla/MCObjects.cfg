SPECIFICATION OSpec
SYMMETRY MCSymmetry
CHECK_DEADLOCK FALSE
CONSTANTS
  p1 = p1
  p2 = p2
  r1 = r1
  r2 = r2
  r3 = r3
  NodeIDs = {"node"}
  Payloads = {p1, p2}
  Bodies <- MCBodies
  Tags = {p1}
  Callers = {r1, r2, r3}
  MaxTTL = 1
  MaxClock = 2
  MaxExpected = 1
  NoVersion = NoVersion
  Nothing = Nothing
INVARIANT VersionsContiguous
INVARIANT ObjectPutAboveExpected
INVARIANT ReadsNeverGoBack

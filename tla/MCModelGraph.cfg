SPECIFICATION GSpec
CHECK_DEADLOCK FALSE
SYMMETRY ImportSymmetry
CONSTANTS
  ModelIDs = {m1}
  ModelStatuses = {"draft", "enabled"}
  AdminRequests = {i1, i2}
  MaxClock = 0
  NoModel = NoModel
  Nodes = {n1}
  Edges = {e}
  Properties = {}
  ContractKeys = {c}
  From <- MCFrom
  To <- LoopTo
  Bundles <- FullBundle
  Writers = {}
  Readers = {a1}
  Kinds = {"export", "fullexport"}
  TenantIDs = {t1, t2}
  Statuses = {"open"}
  Types = {"node"}
  NoTenant = NoTenant
  NoFile = NoFile
  t1 = t1
  t2 = t2
  MaxExpected = 0
  MaxPinVersion = 1
  NoPin = NoPin
  NoVersion = NoVersion
  NoKey = NoKey
  n1 = n1
  n2 = n2
  e = e
  p = p
  c = c
  i1 = i1
  i2 = i2
  w1 = w1
  a1 = a1
  m1 = m1
INVARIANT GTypeOK
INVARIANT ImportsKeepApart
INVARIANT ImportComplete
INVARIANT ImportsShareTenant
INVARIANT RestoreComplete
PROPERTY ImportTouchesOwnModel
PROPERTY SnapshotsGrow

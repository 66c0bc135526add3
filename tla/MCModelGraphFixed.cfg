SPECIFICATION GSpec
CHECK_DEADLOCK FALSE
CONSTANTS
  ModelIDs = {m1}
  ModelStatuses = {"draft", "enabled"}
  AdminRequests = {i1}
  MaxClock = 0
  NoModel = NoModel
  Nodes = {n1, n2}
  Edges = {e}
  Properties = {}
  ContractKeys = {}
  From <- MCFrom
  To <- MCTo
  Bundles <- EmptyBundle
  Writers = {w1}
  Readers = {}
  Kinds = {}
  TenantIDs = {t1, t2}
  Statuses = {}
  Types = {}
  NoTenant = NoTenant
  NoFile = NoFile
  t1 = t1
  t2 = t2
  MaxExpected = 0
  MaxPinVersion = 1
  NoPin = NoPin
  NoVersion = NoVersion
  NoKey = NoKey
  n1 = n1
  n2 = n2
  e = e
  p = p
  c = c
  i1 = i1
  i2 = i2
  w1 = w1
  a1 = a1
  m1 = m1
PROPERTY EnabledSnapshotsFixed

SPECIFICATION Spec
CONSTANTS
  m1 = m1
  m2 = m2
  a1 = a1
  a2 = a2
  c1 = c1
  c2 = c2
  r1 = r1
  r2 = r2
  r3 = r3
  ModelIDs <- OneModel
  AdminRequests <- OneAdmin
  ModelStatuses = {"draft", "enabled"}
  MaxClock = 0
  NoModel = NoModel
  ContractIDs <- OneContract
  Statuses = {"open"}
  Bodies = {"body"}
  Requests <- ThreeRequests
  MaxExpected = 2
  MaxPinVersion = 0
  NoContract = NoContract
  NoPin = NoPin
  NoVersion = NoVersion
SYMMETRY Symmetric
CHECK_DEADLOCK FALSE
INVARIANTS
  PutOnExpected

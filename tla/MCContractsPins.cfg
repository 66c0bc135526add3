SPECIFICATION Spec
CONSTANTS
  m1 = m1
  m2 = m2
  a1 = a1
  a2 = a2
  c1 = c1
  c2 = c2
  r1 = r1
  r2 = r2
  r3 = r3
  ModelIDs <- TwoModels
  AdminRequests <- TwoAdmins
  ModelStatuses = {"draft", "enabled"}
  MaxClock = 1
  NoModel = NoModel
  ContractIDs <- OneContract
  Statuses = {"open"}
  Bodies = {"body"}
  Requests <- TwoRequests
  MaxExpected = 0
  MaxPinVersion = 1
  NoContract = NoContract
  NoPin = NoPin
  NoVersion = NoVersion
SYMMETRY Symmetric
CHECK_DEADLOCK FALSE
INVARIANTS
  PinsReplayable
  StatusChangeKeepsPin
PROPERTIES
  PinsMoveForward

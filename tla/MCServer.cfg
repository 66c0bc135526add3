SPECIFICATION SSpec
CHECK_DEADLOCK FALSE
CONSTANTS
  m1 = m1
  m2 = m2
  a1 = a1
  a2 = a2
  a3 = a3
  ModelIDs = {m1, m2}
  AdminRequests = {a1, a2}
  ModelStatuses = {"draft", "enabled"}
  MaxClock = 1
  NoModel = NoModel
  Envs = {"dev", "prod"}
  Providers = {"noop", "oidc"}
  MaxStarts = 2
INVARIANT STypeOK
INVARIANT ModelHistoriesDense
INVARIANT ServedOnlyInDev
INVARIANT ShutdownDrains
PROPERTY ModelTableIsALog
PROPERTY SignalEnds

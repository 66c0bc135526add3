SPECIFICATION SSpec
CHECK_DEADLOCK FALSE
CONSTANTS
  m1 = m1
  m2 = m2
  a1 = a1
  a2 = a2
  a3 = a3
  ModelIDs = {m1, m2}
  AdminRequests = {a1, a2}
  ModelStatuses = {"draft", "enabled", "disabled"}
  MaxClock = 1
  NoModel = NoModel
  Envs = {"dev", "prod"}
  Providers = {"noop", "oidc"}
  MaxStarts = 1
INVARIANT DisabledModelNotResolved

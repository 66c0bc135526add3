SPECIFICATION Spec
CHECK_DEADLOCK FALSE
CONSTANTS
  r1 = r1
  r2 = r2
  o1 = o1
  Actions <- Listed
  Reasons = {r1, r2}
  Obligations = {o1}
  MaxPolicies = 3
  MaxItems = 1
INVARIANT DenyWins
INVARIANT NoPartialDecision
PROPERTY MergedInOrder

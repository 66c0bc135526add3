SPECIFICATION ISpec
SYMMETRY MCSymmetry
CHECK_DEADLOCK FALSE
CONSTANTS
  a = a
  b = b
  c = c
  NodeIDs = {a, b, c}
  EdgeTypes = {"provides", "requires", "can_delegate_to"}
  MaxEdges = 5
INVARIANT AcceptedIsImplied
INVARIANT QuietMeansComplete

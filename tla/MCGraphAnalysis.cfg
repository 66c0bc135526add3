SPECIFICATION Spec
SYMMETRY MCSymmetry
CONSTANTS
  n1 = n1
  n2 = n2
  n3 = n3
  NodeIDs = {n1, n2, n3}
  NodeTypes = {"actor", "capability", "policy"}
  EdgeTypes = {"provides", "governs"}
  Registered <- AllTypes
  Described = {n1, n2, n3}
  MaxEdges = 3
INVARIANT LintedModelIsSound
INVARIANT PersonasAgree
 
PROPERTY RepairsLast

--------------------------- MODULE MCImpliedEdges ---------------------------
(* Small instances of ImpliedEdges for TLC.                                 *)
EXTENDS ImpliedEdges, TLC

CONSTANTS a, b, c

MCSymmetry == Permutations({a, b, c})
=============================================================================

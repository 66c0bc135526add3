-------------------------- MODULE MCGraphAnalysis --------------------------
(* Small instances of GraphAnalysis for TLC.                                *)
EXTENDS GraphAnalysis, TLC

CONSTANTS n1, n2, n3

AllTypes == RequiredTypes("enabled_model")

MCSymmetry == Permutations({n1, n2, n3})
=============================================================================

------------------------------ MODULE MCOpaEval ------------------------------
(* Small instance of OpaEval for TLC.                                        *)
EXTENDS OpaEval

CONSTANTS r1, r2, o1

Listed == {"allow", "deny", "defer"}
=============================================================================

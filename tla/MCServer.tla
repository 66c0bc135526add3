------------------------------ MODULE MCServer ------------------------------
(* Small instance of Server for TLC.                                        *)
EXTENDS Server

CONSTANTS m1, m2, a1, a2, a3
=============================================================================

------------------------------ MODULE MCObjects ------------------------------
(* Small instance of Objects for TLC: one node, an inline payload, a         *)
(* reference, and the body that has neither.                                 *)
EXTENDS Objects, TLC

CONSTANTS p1, p2, r1, r2, r3

Inline == [bytes |-> p1, exturl |-> Nothing]
ByURL  == [bytes |-> Nothing, exturl |-> p2]
Empty  == [bytes |-> Nothing, exturl |-> Nothing]

MCBodies == {Inline, ByURL, Empty}

MCSymmetry == Permutations({r1, r2, r3})
=============================================================================

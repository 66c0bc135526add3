---------------------------- MODULE MCModelGraph ----------------------------
(* Small instances of ModelGraph for TLC: one lineage, two nodes and the    *)
(* edge between them, a property, a contract.                               *)
EXTENDS ModelGraph, TLC

CONSTANTS n1, n2, e, p, c, i1, i2, w1, a1, m1, t1, t2

MCFrom == e :> n1
MCTo   == e :> n2
LoopTo == e :> n1

ClosedBundle == {{n1, n2, e}}
FullBundle   == {{n1, c}}
EmptyBundle  == {{}}

ImportSymmetry == Permutations({i1, i2}) \cup Permutations({t1, t2})
=============================================================================

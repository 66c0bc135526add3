---------------------------- MODULE MCContracts ----------------------------
(* Instances of Contracts for TLC. *)
EXTENDS Contracts, TLC

CONSTANTS m1, m2, a1, a2, c1, c2, r1, r2, r3

OneModel == {m1}
TwoModels == {m1, m2}
OneAdmin == {a1}
TwoAdmins == {a1, a2}
OneContract == {c1}
TwoContracts == {c1, c2}
TwoRequests == {r1, r2}
ThreeRequests == {r1, r2, r3}

\* Requests and uuids are interchangeable (used in safety runs only).
Symmetric == Permutations(ThreeRequests) \cup Permutations(TwoContracts)
               \cup Permutations(TwoModels) \cup Permutations(TwoAdmins)
=============================================================================

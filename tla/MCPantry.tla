------------------------------ MODULE MCPantry ------------------------------
(* Instances of Pantry for TLC. *)
EXTENDS Pantry, TLC

CONSTANTS v1, r1, q1, q2

OneItem == 1..1
TwoItems == 1..2
OneReview == {v1}
NoRows == {}
OneRow == {r1}
TwoRequests == {q1, q2}

Symmetric == Permutations(Requests)
=============================================================================

---------------------------- MODULE MCSelection ----------------------------
(* Instances of Selection for TLC. *)
EXTENDS Selection, TLC

CONSTANTS a, b, f1, f2, q1, q2

TwoRecipes == {a, b}
TwoFilters == {f1, f2}
TwoRequests == {q1, q2}
=============================================================================

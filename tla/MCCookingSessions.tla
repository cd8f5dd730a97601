------------------------- MODULE MCCookingSessions -------------------------
(* Instances of CookingSessions for TLC. *)
EXTENDS CookingSessions, TLC

CONSTANTS o1, o2, c1, c2, q1, q2

TwoOwners == {o1, o2}
TwoSessions == {c1, c2}
TwoTimers == 1..2
TwoRequests == {q1, q2}

Symmetric == Permutations(Owners) \cup Permutations(Sessions) \cup Permutations(Requests)
=============================================================================

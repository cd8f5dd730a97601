----------------------------- MODULE MCSources -----------------------------
(* Instances of Sources for TLC. *)
EXTENDS Sources, TLC

CONSTANTS p1, p2, d1, d2, s1, s2

OnePath == {p1}
TwoPaths == {p1, p2}
OneDigest == {d1}
TwoDigests == {d1, d2}
TwoSyncs == {s1, s2}
=============================================================================

--------------------------- MODULE MCRecipeCache ---------------------------
(* Instances of RecipeCache for TLC. *)
EXTENDS RecipeCache, TLC

CONSTANTS s1, s2, c1, c2, c3

OneSlug == {s1}
TwoSlugs == {s1, s2}
TwoCalls == {c1, c2}
ThreeCalls == {c1, c2, c3}
ThreeTasks == 1..3
=============================================================================

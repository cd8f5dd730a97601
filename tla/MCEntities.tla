----------------------------- MODULE MCEntities -----------------------------
(***************************************************************************)
(* An instance of Entities for TLC: two foods that differ in case, one     *)
(* with an accent, which Mealie drops from nameNormalized, and two tags of *)
(* one slug.  Tags are listed with their group, foods without.             *)
(***************************************************************************)
EXTENDS Entities, TLC

CONSTANTS q1, q2

AllNames == {"Cafe", "cafe", "Accented Cafe", "Quick Meal", "quick-meal"}
TwoRequests == {q1, q2}
TwoRecipes == {"omelette", "pancakes"}
OneOfThem == {"omelette"}

KindOf(n) == IF n \in {"Cafe", "cafe", "Accented Cafe"} THEN "food" ELSE "organizer"
KeyOf(n) == CASE n = "Cafe"          -> "cafe"
              [] n = "Accented Cafe" -> "accented cafe"
              [] n = "Quick Meal"    -> "quick meal"
              [] OTHER               -> n
SlugOf(n) == IF KindOf(n) = "organizer" THEN "quick-meal" ELSE KeyOf(n)
PlainOf(n) == IF KindOf(n) = "food" THEN "cafe" ELSE KeyOf(n)
GroupedOf(n) == KindOf(n) = "organizer"
UsesOf(r) == IF r = "omelette" THEN {"Cafe", "Quick Meal"} ELSE {"cafe", "quick-meal"}

Symmetric == Permutations({q1, q2})
=============================================================================

--------------------------- MODULE IdempotentImport ---------------------------
(***************************************************************************)
(* What the import queue promises of the recipes it creates in Mealie      *)
(* (README.md: "Idempotent Mealie import"), with every call a single step: *)
(* a source content has one recipe at most; what an import left unfinished *)
(* may be taken away again, or stay; a recipe that was imported stays, and *)
(* so does the record that says so.                                        *)
(***************************************************************************)
CONSTANTS
  Slugs,     \* names of recipes in Mealie
  Contents,  \* the contents of source recipes
  Nothing    \* what an unused name is a recipe of

VARIABLE recipe  \* by slug: how far its import has come, and of what it is

Free == [stage |-> "free", of |-> Nothing]

Init == recipe = [s \in Slugs |-> Free]

Advance(s, from, to) ==
  /\ recipe[s].stage = from
  /\ recipe' = [recipe EXCEPT ![s].stage = to]

(* A blank recipe, if the content has none. *)
Create(s, c) ==
  /\ recipe[s] = Free
  /\ \A u \in Slugs : recipe[u].stage # "free" => recipe[u].of # c
  /\ recipe' = [recipe EXCEPT ![s] = [stage |-> "blank", of |-> c]]

Complete(s) == Advance(s, "blank", "managed")

(* The record of the item says for ever that this recipe is imported. *)
Keep(s) == Advance(s, "managed", "imported")

Undo(s) ==
  /\ recipe[s].stage \in {"blank", "managed"}
  /\ recipe' = [recipe EXCEPT ![s] = Free]

Next == \E s \in Slugs : \/ \E c \in Contents : Create(s, c)
                         \/ Complete(s) \/ Keep(s) \/ Undo(s)

Spec == Init /\ [][Next]_recipe
===============================================================================

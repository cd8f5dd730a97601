--------------------------- MODULE MCImportQueue ---------------------------
(* Instances of ImportQueue for TLC. *)
EXTENDS ImportQueue, TLC

CONSTANTS j1, j2, q1, q2, s1, s2, s3

OneJob == {j1}
TwoJobs == {j1, j2}
OneRequest == {q1}
TwoRequests == {q1, q2}
TwoSlugs == {s1, s2}
ThreeSlugs == {s1, s2, s3}
OneRecipe == {1}
TwoRecipes == {1, 2}
OneRevision == {1}
TwoRevisions == {1, 2}

(* Operations *)
Everything == AllOps
ImportOps == {"approve_job", "process_next", "process_batch", "approve",
              "reject", "edit", "import", "auto_import", "reconcile"}
FaultOps == {"approve_job", "cancel_job", "process_batch", "retry", "edit", "approve",
             "reject", "import", "auto_import", "reconcile"}
LiveOps == {"approve_job", "process_next", "process_batch", "combined", "approve",
            "reject", "retry", "import", "auto_import"}

(* Faults *)
EveryFault == AllFaults
CrashFree == {"llm", "mealie", "delete"}
Crashing == {"llm", "mealie", "delete", "crash"}
ImportFaults == {"llm", "llm_infra", "mealie", "lost_reply", "delete", "crash"}

(* Results *)
Clean == {"clean"}
CleanOrBlock == {"clean", "block"}

Symmetric == Permutations(Jobs) \cup Permutations(Requests) \cup Permutations(Slugs)
=============================================================================

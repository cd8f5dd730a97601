---------------------------- MODULE ImportStatus ----------------------------
(***************************************************************************)
(* The vocabulary of the recipe import queue (app/import_queue.py): the    *)
(* statuses of an import item and of an import job, and the function that  *)
(* derives a job's status from the statuses of its items.                  *)
(***************************************************************************)
EXTENDS Naturals

(***************************************************************************)
(* "absent" stands for an item that no job has created yet.                *)
(***************************************************************************)
ItemStatus ==
  {"absent", "queued", "processing", "review", "failed", "source_updated",
   "approved_for_import", "importing", "imported", "import_failed",
   "rejected", "skipped", "cancelled"}

JobStatus ==
  {"absent", "draft", "approved", "processing", "review",
   "ready_to_import", "completed", "cancelled"}

(* The terminal_statuses of update_job_status. *)
TerminalStatuses == {"imported", "rejected", "skipped", "cancelled"}

(***************************************************************************)
(* States of a row of mealie_import_records that make another item of the  *)
(* same source revision a duplicate, and statuses of an item that do.      *)
(***************************************************************************)
DUPLICATE_IMPORT_STATES == {"importing", "imported", "orphaned"}

DUPLICATE_ACTIVE_ITEM_STATUSES ==
  {"processing", "review", "approved_for_import", "importing", "imported"}

(***************************************************************************)
(* update_job_status: `current` is the status the session holds for the    *)
(* job, `present` the set of statuses its items have in the database.  The *)
(* code compares sums of counts with total_items, the number of items the  *)
(* job was created with, none of which is ever deleted: "the counts of S   *)
(* add up to the total" is "present is a subset of S", and "the count of s *)
(* is positive" is "s is present".                                         *)
(*                                                                         *)
(* Wrong variants: a cancelled job is recounted like any other; items      *)
(* approved for import count as done; the job gets the status of its items.*)
(***************************************************************************)
JobStatusRevived(current, present) ==
  IF present \subseteq TerminalStatuses THEN "completed"
  ELSE IF "processing" \in present THEN "processing"
  ELSE IF "queued" \in present THEN "draft"
  ELSE IF present \subseteq TerminalStatuses \cup {"approved_for_import"}
    THEN "ready_to_import"
  ELSE "review"

JobStatusTooSoon(current, present) ==
  IF current = "cancelled" THEN "cancelled"
  ELSE IF present \subseteq TerminalStatuses \cup {"approved_for_import"}
    THEN "completed"
  ELSE IF "processing" \in present THEN "processing"
  ELSE IF "queued" \in present THEN "approved"
  ELSE "review"

JobStatusOfItems(current, present) ==
  IF current = "cancelled" THEN "cancelled"
  ELSE IF present \subseteq TerminalStatuses THEN "completed"
  ELSE CHOOSE s \in present \ TerminalStatuses : TRUE

JobStatusAfter(current, present) ==
  IF current = "cancelled" THEN "cancelled"
  ELSE IF present \subseteq TerminalStatuses THEN "completed"
  ELSE IF "processing" \in present THEN "processing"
  ELSE IF "queued" \in present
    THEN IF current \in {"approved", "processing", "review"} THEN "approved"
         ELSE "draft"
  ELSE IF present \cap {"failed", "source_updated", "review"} # {} THEN "review"
  ELSE IF present \subseteq TerminalStatuses \cup {"approved_for_import"}
    THEN "ready_to_import"
  ELSE "review"
=============================================================================

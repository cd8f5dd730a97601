----------------------------- MODULE ImportQueue -----------------------------
(***************************************************************************)
(* The recipe import queue of app/import_queue.py with the record table of *)
(* app/mealie_import_records.py and the reconciliation command of          *)
(* app/maintenance/reconcile_mealie_import.py.                             *)
(*                                                                         *)
(* One process serves HTTP requests.  A `def` handler runs in a thread of  *)
(* its own and really overlaps with every other handler.  `async def`      *)
(* handlers share one event loop: between two awaits no other async        *)
(* handler runs, but a threaded one may.  Every handler works on rows its  *)
(* session read earlier, outside any transaction: SQLite is locked only    *)
(* from the first write to the commit, and the ORM writes an attribute     *)
(* only when it differs from the value read.  A request is therefore a     *)
(* read step, which keeps what it saw, and one or more commit steps.       *)
(*                                                                         *)
(* An operator whose comment says "Wrong variant" takes no part in the     *)
(* specification: it is the operator after it with a plausible bug, and    *)
(* shows that a property of the module notices that bug.                   *)
(***************************************************************************)
EXTENDS ImportStatus, FiniteSets

CONSTANTS
  Jobs,       \* import jobs that may be created
  Recipes,    \* recipes of the source, numbered in the order jobs list them
  Revisions,  \* contents a recipe file may have
  Requests,   \* request slots: how many handlers may be in flight at once
  Slugs,      \* slugs Mealie may give to the recipes created
  Results,    \* what the quality gate, or a reviewer, may make of a recipe
  Ops,        \* the operations that clients issue
  Faults,     \* the faults that occur
  None        \* no job, no item, no slug, a missing file

AllOps == {"approve_job", "cancel_job", "process_next", "process_item",
           "process_batch", "combined", "retry", "edit", "approve", "reject",
           "restore", "revalidate", "import", "auto_import", "reconcile"}

AllFaults == {"llm", "llm_infra", "mealie", "lost_reply", "delete", "crash",
              "source"}

ASSUME ImportAssumption ==
  /\ Recipes \subseteq Nat
  /\ Results \subseteq {"clean", "confirm", "block"}
  /\ Ops \subseteq AllOps
  /\ Faults \subseteq AllFaults
  /\ None \notin Jobs \cup Slugs \cup Revisions \cup (Jobs \X Recipes)

(* A job holds at most one item for each recipe of its source. *)
Items == Jobs \X Recipes

(***************************************************************************)
(* What the warnings of a stored normalized_json ask for: "none" is no     *)
(* stored result, "clean" can be imported automatically, "confirm" needs a *)
(* human acknowledgement, "block" must be fixed first.                     *)
(***************************************************************************)
Verdicts == {"none", "clean", "confirm", "block"}

VARIABLES
  job,     \* recipe_import_jobs: the status of each job
  item,    \* recipe_import_items: a row for each item
  rec,     \* mealie_import_records: a row for each item
  mealie,  \* the recipes Mealie holds, by slug
  file,    \* the content of each recipe file in the checked-out repository
  row,     \* source_recipes: content_sha256 and active, of each recipe
  req      \* the requests in flight

vars == <<job, item, rec, mealie, file, row, req>>

(* `infra`: the stored error text is one is_ollama_infrastructure_error recognises. *)
ItemRow == [status: ItemStatus, rev: Revisions \cup {None}, json: Verdicts,
            infra: BOOLEAN]

SourceRow == [rev: Revisions, active: BOOLEAN]

RecordState == {"none", "importing", "imported", "rolled_back", "orphaned"}
RecordRow == [state: RecordState, slug: Slugs \cup {None}]

(* "blank" is a recipe just created by POST, "managed" one that was patched. *)
MealieRow == [state: {"free", "blank", "managed"}, owner: Items \cup {None}]

(***************************************************************************)
(* Where a request in flight is:                                           *)
(*   commit   a handler has read its rows and has not written yet;         *)
(*   claim    an async handler has read its rows and has not claimed;      *)
(*   llm      awaiting the normalization of the item it claimed;           *)
(*   requeue  about to put infrastructure failures back in the queue;      *)
(*   next     a process-batch request between two of its items;            *)
(*   choose   an automatic import between two of its items;                *)
(*   approve  it has read the item in review that it approves next;        *)
(*   start    it is about to import the item it chose;                     *)
(*   create   awaiting entity resolution or POST /api/recipes;             *)
(*   created  has the slug, has not recorded it;                           *)
(*   patch    awaiting the PATCH of the blank recipe;                      *)
(*   verify   awaiting the read-back;                                      *)
(*   delete   awaiting the DELETE that undoes a failed import;             *)
(*   undone   a failed import left nothing in Mealie, as far as it knows;  *)
(*   stranded the DELETE failed.                                           *)
(***************************************************************************)
PCs == {"idle", "commit", "claim", "llm", "requeue", "next", "choose",
        "approve", "start", "create", "created", "patch", "verify", "delete",
        "undone", "stranded"}

(***************************************************************************)
(* op: the operation; job, it: its target; seen, sjob: the item row and    *)
(* the job status its session holds; set: the items it loaded to change,   *)
(* or has yet to import automatically; slug: the slug Mealie returned.     *)
(***************************************************************************)
Request == [op: AllOps \cup {"idle"}, pc: PCs, job: Jobs \cup {None},
            it: Items \cup {None}, seen: ItemRow, sjob: JobStatus,
            set: SUBSET Items, slug: Slugs \cup {None}]

NoRow == [status |-> "absent", rev |-> None, json |-> "none", infra |-> FALSE]
NoRecord == [state |-> "none", slug |-> None]
FreeSlug == [state |-> "free", owner |-> None]
Idle == [op |-> "idle", pc |-> "idle", job |-> None, it |-> None,
         seen |-> NoRow, sjob |-> "absent", set |-> {}, slug |-> None]

TypeOK ==
  /\ job \in [Jobs -> JobStatus]
  /\ item \in [Items -> ItemRow]
  /\ rec \in [Items -> RecordRow]
  /\ mealie \in [Slugs -> MealieRow]
  /\ file \in [Recipes -> Revisions \cup {None}]
  /\ row \in [Recipes -> SourceRow]
  /\ req \in [Requests -> Request]

Init ==
  /\ job = [j \in Jobs |-> "absent"]
  /\ item = [i \in Items |-> NoRow]
  /\ rec = [i \in Items |-> NoRecord]
  /\ mealie = [s \in Slugs |-> FreeSlug]
  /\ file \in [Recipes -> Revisions]
  /\ row = [r \in Recipes |-> [rev |-> file[r], active |-> TRUE]]
  /\ req = [q \in Requests |-> Idle]

-----------------------------------------------------------------------------
(* Reading the tables *)

ItemsOf(j) == {i \in Items : i[1] = j /\ item[i].status # "absent"}

(* The item statuses of job j in the table `rows`: job_status_counts. *)
Present(j, rows) ==
  {rows[i].status : i \in {k \in Items : k[1] = j}} \ {"absent"}

(* Two items of the same source recipe and content have the same import key. *)
SameKey(i, k) == i[2] = k[2] /\ item[i].rev = item[k].rev

(***************************************************************************)
(* imported_source_revision_record: a record of the recipe's current       *)
(* content that counts as a duplicate, whichever item it belongs to.       *)
(***************************************************************************)
ImportedRecord(r) ==
  \E k \in Items : /\ k[2] = r
                   /\ item[k].rev = row[r].rev
                   /\ rec[k].state \in DUPLICATE_IMPORT_STATES

(***************************************************************************)
(* active_source_revision_item: another item of the recipe's current       *)
(* content is being processed, reviewed or imported in a job that is not   *)
(* cancelled.                                                              *)
(***************************************************************************)
ActiveItem(r, except) ==
  \E k \in Items \ except : /\ k[2] = r
                            /\ item[k].rev = row[r].rev
                            /\ item[k].status \in DUPLICATE_ACTIVE_ITEM_STATUSES
                            /\ job[k[1]] # "cancelled"

Duplicate(r) == ImportedRecord(r) \/ ActiveItem(r, {})

(***************************************************************************)
(* uq_mealie_import_records_import_key: the key of i is in the row of      *)
(* another item, so that an INSERT for i raises IntegrityError.            *)
(***************************************************************************)
KeyTaken(i) == \E k \in Items \ {i} : SameKey(i, k) /\ rec[k].state # "none"

-----------------------------------------------------------------------------
(* Writing the tables *)

(* The ORM emits an attribute only if it changed since the session read it. *)
OrmSet(stored, seen, new) == IF new # seen THEN new ELSE stored

(***************************************************************************)
(* The row of an item after a session that saw `seen` sets its status and  *)
(* its error; normalized_json becomes `json` (stored.json if not assigned).*)
(***************************************************************************)
OrmRow(stored, seen, status, infra, json) ==
  [status |-> OrmSet(stored.status, seen.status, status),
   rev    |-> stored.rev,
   json   |-> json,
   infra  |-> OrmSet(stored.infra, seen.infra, infra)]

(* The value the session of q assigns to its job after counting `rows`. *)
Recounted(q, rows) == JobStatusAfter(req[q].sjob, Present(req[q].job, rows))

(* The session of q writes `status` to its job. *)
WriteJob(q, status) ==
  job' = [job EXCEPT ![req[q].job] = OrmSet(@, req[q].sjob, status)]

Start(q, r) == req[q] = Idle /\ req' = [req EXCEPT ![q] = r]
Finish(q) == req' = [req EXCEPT ![q] = Idle]
Goto(q, pc) == req' = [req EXCEPT ![q].pc = pc]

(***************************************************************************)
(* Points at which an async handler runs without awaiting: it holds the    *)
(* event loop, and no other async handler resumes.                         *)
(***************************************************************************)
LoopHeld == {"claim", "requeue", "next", "choose", "approve", "start"}
LoopFree(q) == \A p \in Requests \ {q} : req[p].pc \notin LoopHeld

-----------------------------------------------------------------------------
(* The source: synchronize_source of app/github_sources.py *)

(***************************************************************************)
(* git reset --hard replaces the working tree before the rows follow; a    *)
(* synchronization that fails in between leaves the files ahead.           *)
(***************************************************************************)
ResetWorkingTree ==
  /\ "source" \in Faults
  /\ \E r \in Recipes, v \in Revisions \cup {None} :
       file[r] # v /\ file' = [file EXCEPT ![r] = v]
  /\ UNCHANGED <<job, item, rec, mealie, row, req>>

(* The row of a file that disappeared keeps its digest and turns inactive. *)
SyncRows ==
  /\ "source" \in Faults
  /\ row' = [r \in Recipes |->
                IF file[r] = None THEN [row[r] EXCEPT !.active = FALSE]
                ELSE [rev |-> file[r], active |-> TRUE]]
  /\ row' # row
  /\ UNCHANGED <<job, item, rec, mealie, file, req>>

-----------------------------------------------------------------------------
(* Jobs *)

(***************************************************************************)
(* create_import_job: an item for each selected recipe that is no          *)
(* duplicate.  The duplicates are read and the job is written in one step: *)
(* _process_import_item looks again before it claims.                      *)
(***************************************************************************)
CreateJob(j, selected) ==
  LET chosen == {r \in selected : row[r].active /\ ~Duplicate(r)}
  IN  /\ job[j] = "absent"
      /\ chosen # {}
      /\ job' = [job EXCEPT ![j] = "draft"]
      /\ item' = [i \in Items |->
                    IF i[1] = j /\ i[2] \in chosen
                    THEN [NoRow EXCEPT !.status = "queued", !.rev = row[i[2]].rev]
                    ELSE item[i]]
      /\ UNCHANGED <<rec, mealie, file, row, req>>

ReadJob(op, j) ==
  [Idle EXCEPT !.op = op, !.pc = "commit", !.job = j, !.sjob = job[j]]

(* approve_import_job, with a confirm_total that matches. *)
BeginApproveJob(q, j) ==
  /\ "approve_job" \in Ops
  /\ job[j] = "draft"
  /\ Start(q, ReadJob("approve_job", j))
  /\ UNCHANGED <<job, item, rec, mealie, file, row>>

CommitApproveJob(q) ==
  /\ req[q].op = "approve_job" /\ req[q].pc = "commit"
  /\ WriteJob(q, "approved")
  /\ Finish(q)
  /\ UNCHANGED <<item, rec, mealie, file, row>>

(* cancel_import_job: the items it loads are those it will cancel. *)
Cancellable(j) ==
  {i \in ItemsOf(j) : item[i].status \in {"queued", "failed", "source_updated"}}

BeginCancelJob(q, j) ==
  /\ "cancel_job" \in Ops
  /\ job[j] \notin {"absent", "completed"}
  /\ "processing" \notin Present(j, item)
  /\ Start(q, [ReadJob("cancel_job", j) EXCEPT !.set = Cancellable(j)])
  /\ UNCHANGED <<job, item, rec, mealie, file, row>>

(* Every item in the set was read with a status other than the one written. *)
SetStatus(items, status) ==
  [i \in Items |-> IF i \in items THEN [item[i] EXCEPT !.status = status]
                   ELSE item[i]]

CommitCancelJob(q) ==
  /\ req[q].op = "cancel_job" /\ req[q].pc = "commit"
  /\ item' = SetStatus(req[q].set, "cancelled")
  /\ WriteJob(q, "cancelled")
  /\ Finish(q)
  /\ UNCHANGED <<rec, mealie, file, row>>

-----------------------------------------------------------------------------
(* Review of one item: threaded handlers that read, then write and commit *)

(* Wrong variant: the blocking warnings are not looked at. *)
ApprovableUnchecked(i) == item[i].json # "none"

(* approve_item_for_import: a stored result without blocking problems. *)
Approvable(i) == item[i].json \notin {"none", "block"}

CanRead(op, i) ==
  LET j == job[i[1]]
      s == item[i].status
  IN  CASE op = "retry" ->
             /\ j \notin {"cancelled", "completed"}
             /\ s \in {"failed", "source_updated", "processing"}
        [] op = "edit" ->
             /\ j \notin {"cancelled", "completed"}
             /\ s \in {"review", "approved_for_import"}
        [] op = "approve" -> s = "review" /\ Approvable(i)
        [] op = "reject"  -> s \in {"review", "approved_for_import", "failed"}
        [] op = "restore" -> s = "rejected" /\ item[i].json # "none"
        [] op = "revalidate" -> s # "absent" /\ item[i].json # "none"
        [] OTHER -> FALSE

BeginReview(q, op, i) ==
  /\ op \in Ops
  /\ CanRead(op, i)
  /\ Start(q, [ReadJob(op, i[1]) EXCEPT !.it = i, !.seen = item[i]])
  /\ UNCHANGED <<job, item, rec, mealie, file, row>>

(***************************************************************************)
(* The commit shared by the handlers that flush the item before they       *)
(* recount: the flush takes the write lock, so what they count is what is  *)
(* stored.                                                                 *)
(***************************************************************************)
Flush(q, status, json) ==
  LET rows == [item EXCEPT ![req[q].it] =
                 OrmRow(@, req[q].seen, status, FALSE, json)]
  IN  item' = rows /\ WriteJob(q, Recounted(q, rows))

FlushAndRecount(q, status, json) == Flush(q, status, json) /\ Finish(q)

Committing(q, op) == req[q].op = op /\ req[q].pc = "commit"

(***************************************************************************)
(* retry_import_item: the job is approved whatever its items are; nothing  *)
(* is recounted.                                                           *)
(***************************************************************************)
CommitRetry(q) ==
  LET i == req[q].it
  IN  /\ Committing(q, "retry")
      /\ item' = [item EXCEPT ![i] =
                    OrmRow(@, req[q].seen, "queued", FALSE, @.json)]
      /\ WriteJob(q, "approved")
      /\ Finish(q)
      /\ UNCHANGED <<rec, mealie, file, row>>

(* update_review_item: the reviewer supplies the whole result, warnings too. *)
CommitEdit(q) ==
  /\ Committing(q, "edit")
  /\ \E v \in Results : FlushAndRecount(q, "review", v)
  /\ UNCHANGED <<rec, mealie, file, row>>

(***************************************************************************)
(* approve_item_for_import: a review note rewrites the result that was     *)
(* read; without one the text is the stored one and is not written.        *)
(***************************************************************************)
CommitApprove(q) ==
  /\ Committing(q, "approve")
  /\ \E v \in {item[req[q].it].json, req[q].seen.json} :
       FlushAndRecount(q, "approved_for_import", v)
  /\ UNCHANGED <<rec, mealie, file, row>>

(* reject_review_item *)
CommitReject(q) ==
  /\ Committing(q, "reject")
  /\ FlushAndRecount(q, "rejected", item[req[q].it].json)
  /\ UNCHANGED <<rec, mealie, file, row>>

(* restore_rejected_item: the first restore adds an audit line to the result. *)
CommitRestore(q) ==
  /\ Committing(q, "restore")
  /\ \E v \in {item[req[q].it].json, req[q].seen.json} :
       FlushAndRecount(q, "review", v)
  /\ UNCHANGED <<rec, mealie, file, row>>

(* The file of item i still has the content the item was created for. *)
SourceMatches(i) == file[i[2]] = item[i].rev

(* revalidate_import_item, file unchanged: the quality gate runs again. *)
CommitRevalidate(q) ==
  /\ Committing(q, "revalidate")
  /\ SourceMatches(req[q].it)
  /\ \E v \in Results : FlushAndRecount(q, "review", v)
  /\ UNCHANGED <<rec, mealie, file, row>>

(* revalidate_import_item, file changed or missing: the job is not recounted. *)
CommitRevalidateStale(q) ==
  LET i == req[q].it
  IN  /\ Committing(q, "revalidate")
      /\ ~SourceMatches(i)
      /\ item' = [item EXCEPT ![i] =
                    OrmRow(@, req[q].seen, "source_updated", FALSE, @.json)]
      /\ Finish(q)
      /\ UNCHANGED <<job, rec, mealie, file, row>>

-----------------------------------------------------------------------------
(* Normalization: _process_import_item and the handlers that call it *)

ProcessOps == {"process_next", "process_item", "process_batch", "combined"}

Queued(j) == {i \in ItemsOf(j) : item[i].status = "queued"}

(***************************************************************************)
(* The queued items are tried in order: the item of an imported revision   *)
(* is skipped (to be cancelled), that of a revision active elsewhere is    *)
(* passed over, the first other one is taken; None if there is no other.   *)
(***************************************************************************)
Skipped(items) == {i \in items : ImportedRecord(i[2])}

(* Wrong variant: the items of other jobs are not looked at. *)
EligibleAnywhere(items) == {i \in items : ~ImportedRecord(i[2])}

Eligible(items) ==
  {i \in items : ~ImportedRecord(i[2]) /\ ~ActiveItem(i[2], {i})}
Before(items, i) == {k \in items : k[2] < i[2]}

Candidates(op, j, target) == IF op = "process_item" THEN {target} ELSE Queued(j)

(***************************************************************************)
(* The reads of _process_import_item up to the choice of an item, for a    *)
(* session that holds `sjob` as the job's status.                          *)
(***************************************************************************)
PickItem(q, op, j, sjob, items) ==
  /\ sjob \in {"approved", "processing"}
  /\ \E it \in IF Eligible(items) = {} THEN {None} ELSE Eligible(items) :
       /\ it # None => Before(Eligible(items), it) = {}
       /\ req' = [req EXCEPT ![q] =
            [Idle EXCEPT
              !.op = op, !.pc = "claim", !.job = j, !.sjob = sjob, !.it = it,
              !.seen = IF it = None THEN NoRow ELSE item[it],
              !.set = Skipped(IF it = None THEN items ELSE Before(items, it))]]

(* A client asks to process; target matters to process_item only. *)
BeginProcess(q, op, j) ==
  /\ op \in ProcessOps \cap Ops
  /\ LoopFree(q)
  /\ req[q] = Idle
  /\ \E target \in IF op = "process_item" THEN Queued(j) ELSE {None} :
       PickItem(q, op, j, job[j], Candidates(op, j, target))
  (* process_import_batch starts only when no item of the job is processing *)
  /\ op = "process_batch" => "processing" \notin Present(j, item)
  (* process_and_auto_import first requeues failures, if there are any *)
  /\ op = "combined" => ~\E i \in ItemsOf(j) : item[i].status = "failed" /\ item[i].infra
  /\ UNCHANGED <<job, item, rec, mealie, file, row>>

(* An automatic import that has yet to look at `items` of job j. *)
Choosing(op, j, items) ==
  IF items = {} THEN Idle
  ELSE [Idle EXCEPT !.op = op, !.pc = "choose", !.job = j, !.set = items]

AtClaim(q) == req[q].op \in ProcessOps /\ req[q].pc = "claim"

(* Nothing to process: the skipped items are cancelled, the job recounted. *)
ProcessNothing(q) ==
  LET rows == SetStatus(req[q].set, "cancelled")
  IN  /\ AtClaim(q) /\ req[q].it = None
      /\ item' = rows
      /\ WriteJob(q, Recounted(q, rows))
      /\ Finish(q)
      /\ UNCHANGED <<rec, mealie, file, row>>

(***************************************************************************)
(* The file changed or is gone.  The skipped items were flushed before,    *)
(* the item itself is not: the job is counted with its old status.         *)
(***************************************************************************)
ProcessStale(q) ==
  LET i == req[q].it
      flushed == SetStatus(req[q].set, "cancelled")
  IN  /\ AtClaim(q) /\ i # None /\ ~SourceMatches(i)
      /\ item' = [flushed EXCEPT ![i] =
                    OrmRow(@, req[q].seen, "source_updated", FALSE, @.json)]
      /\ WriteJob(q, Recounted(q, flushed))
      /\ Finish(q)
      /\ UNCHANGED <<rec, mealie, file, row>>

(* UPDATE ... SET status='processing' WHERE id=:id AND status='queued' *)
ClaimableForProcessing(i) == item[i].status = "queued"

(***************************************************************************)
(* The claim, the job's "processing" and the commit; db.refresh(item).     *)
(***************************************************************************)
ClaimProcess(q) ==
  LET i == req[q].it
      rows == [SetStatus(req[q].set, "cancelled") EXCEPT
                 ![i].status = "processing", ![i].infra = FALSE]
  IN  /\ AtClaim(q) /\ i # None /\ SourceMatches(i)
      /\ ClaimableForProcessing(i)
      /\ item' = rows
      /\ WriteJob(q, "processing")
      /\ req' = [req EXCEPT ![q].pc = "llm", ![q].seen = rows[i],
                            ![q].sjob = "processing", ![q].set = {}]
      /\ UNCHANGED <<rec, mealie, file, row>>

(* rowcount 0: rollback, 409, the skipped items too stay as they were. *)
ClaimLost(q) ==
  LET i == req[q].it
  IN  /\ AtClaim(q) /\ i # None /\ SourceMatches(i)
      /\ ~ClaimableForProcessing(i)
      /\ Finish(q)
      /\ UNCHANGED <<job, item, rec, mealie, file, row>>

(***************************************************************************)
(* The model answered and the quality gate graded the result.  The item is *)
(* flushed before the recount.  A batch goes on with the session, and so   *)
(* with the job status it holds; process_and_auto_import looks at the item *)
(* again, to import it; the other handlers end or start afresh.            *)
(***************************************************************************)
Normalized(q) ==
  LET i == req[q].it
  IN  /\ req[q].pc = "llm" /\ LoopFree(q)
      /\ \E v \in Results :
           LET rows == [item EXCEPT ![i] = OrmRow(@, req[q].seen, "review", FALSE, v)]
               status == Recounted(q, rows)
           IN  /\ item' = rows
               /\ WriteJob(q, status)
               /\ \/ req[q].op # "combined" /\ Finish(q)
                  \/ /\ req[q].op = "process_batch"
                     /\ req' = [req EXCEPT ![q] =
                          [Idle EXCEPT !.op = "process_batch", !.pc = "next",
                                       !.job = req[q].job, !.sjob = status]]
                  \/ /\ req[q].op = "combined"
                     /\ req' = [req EXCEPT ![q] =
                          Choosing("combined", req[q].job, {i})]
      /\ UNCHANGED <<rec, mealie, file, row>>

(* The next item of a batch, or a 409 that ends it. *)
NextOfBatch(q) ==
  /\ req[q].pc = "next"
  /\ \/ PickItem(q, "process_batch", req[q].job, req[q].sjob, Queued(req[q].job))
     \/ req[q].sjob \notin {"approved", "processing"} /\ Finish(q)
  /\ UNCHANGED <<job, item, rec, mealie, file, row>>

(* Wrong variant: the handler of the error forgets to store the status. *)
FailedRowUnsaved(stored, seen, infra) == stored

FailedRow(stored, seen, infra) ==
  OrmRow(stored, seen, "failed", infra, stored.json)

InfraFailures(j, rows) ==
  {i \in Items : i[1] = j /\ rows[i].status = "failed" /\ rows[i].infra}

(***************************************************************************)
(* The item fails and the job is recounted, but the item has not been      *)
(* flushed: the counts still show it as processing.  After an              *)
(* infrastructure error process_import_item puts the item back in the      *)
(* queue, and process_and_auto_import, on fresh rows, every such item.     *)
(***************************************************************************)
NormalizationFailed(q) ==
  LET i == req[q].it
      j == req[q].job
      status == Recounted(q, item)
      stored == OrmSet(job[j], req[q].sjob, status)
  IN  /\ req[q].pc = "llm" /\ LoopFree(q)
      /\ \E infra \in {b \in BOOLEAN : (IF b THEN "llm_infra" ELSE "llm") \in Faults} :
           LET rows == [item EXCEPT ![i] = FailedRow(@, req[q].seen, infra)]
               requeues == [Idle EXCEPT !.op = req[q].op, !.pc = "requeue", !.job = j]
           IN  /\ item' = rows
               /\ req' = [req EXCEPT ![q] =
                    IF infra /\ req[q].op = "process_item"
                    THEN [requeues EXCEPT !.sjob = status, !.set = {i}]
                    ELSE IF infra /\ req[q].op = "combined"
                    THEN [requeues EXCEPT !.sjob = stored,
                                          !.set = InfraFailures(j, rows)]
                    ELSE Idle]
      /\ WriteJob(q, status)
      /\ UNCHANGED <<rec, mealie, file, row>>

(***************************************************************************)
(* process_and_auto_import begins by requeuing, whatever the job's status. *)
(***************************************************************************)
BeginRequeue(q, j) ==
  /\ "combined" \in Ops
  /\ LoopFree(q)
  /\ InfraFailures(j, item) # {}
  /\ Start(q, [ReadJob("combined", j) EXCEPT
                 !.pc = "requeue", !.set = InfraFailures(j, item)])
  /\ UNCHANGED <<job, item, rec, mealie, file, row>>

(***************************************************************************)
(* requeue_ollama_infrastructure_failures and the recount after it, with   *)
(* the requeued items not flushed: they are counted as failed.             *)
(***************************************************************************)
CommitRequeue(q) ==
  /\ req[q].pc = "requeue"
  /\ item' = [i \in Items |->
                IF i \in req[q].set
                THEN [item[i] EXCEPT !.status = "queued", !.infra = FALSE]
                ELSE item[i]]
  /\ WriteJob(q, Recounted(q, item))
  /\ Finish(q)
  /\ UNCHANGED <<rec, mealie, file, row>>

-----------------------------------------------------------------------------
(* Import: import_item_to_mealie, with the MealieWriter calls it awaits *)

(* A record of the same key that belongs to another item stops the import. *)
OtherRecord(i) ==
  \E k \in Items \ {i} : SameKey(i, k) /\ rec[k].state \in DUPLICATE_IMPORT_STATES

CanImport(i) ==
  /\ item[i].status = "approved_for_import" /\ item[i].json # "none"
  /\ SourceMatches(i)
  /\ ~OtherRecord(i)

BeginImport(q, i) ==
  /\ "import" \in Ops
  /\ LoopFree(q)
  /\ CanImport(i)
  /\ Start(q, [ReadJob("import", i[1]) EXCEPT
                !.pc = "claim", !.it = i, !.seen = item[i]])
  /\ UNCHANGED <<job, item, rec, mealie, file, row>>

Importing(q, pc) == req[q].op = "import" /\ req[q].pc = pc

(* UPDATE ... SET status='importing' WHERE status='approved_for_import' *)
ClaimableForImport(i) == item[i].status = "approved_for_import"

(***************************************************************************)
(* start_import_record: a new row, refused by the unique key index, or the *)
(* item's own row made new, its slug forgotten.                            *)
(***************************************************************************)

(* Wrong variant: the row of another item with the key does not matter. *)
CanStartRecordAnyway(i) == TRUE

CanStartRecord(i) == rec[i].state # "none" \/ ~KeyTaken(i)

ClaimImport(q) ==
  LET i == req[q].it
      claimed == [item[i] EXCEPT !.status = "importing", !.infra = FALSE]
  IN  /\ Importing(q, "claim")
      /\ ClaimableForImport(i) /\ CanStartRecord(i)
      /\ item' = [item EXCEPT ![i] = claimed]
      /\ rec' = [rec EXCEPT ![i] = [state |-> "importing", slug |-> None]]
      /\ req' = [req EXCEPT ![q].pc = "create",
                            ![q].seen = [claimed EXCEPT !.json = req[q].seen.json]]
      /\ UNCHANGED <<job, mealie, file, row>>

(***************************************************************************)
(* An automatic import goes on with the rest of its items; after failures  *)
(* in a row, as many as the client said, it stops.                         *)
(***************************************************************************)
GoOn(q, rest) ==
  req' = [req EXCEPT ![q] = Choosing("auto_import", req[q].job, rest)]
StopOrGoOn(q, rest) == Finish(q) \/ GoOn(q, rest)

(* 409 when the claim finds another status, 500 on the unique index. *)
ImportRefused(q) ==
  LET i == req[q].it
  IN  /\ Importing(q, "claim")
      /\ ~(ClaimableForImport(i) /\ CanStartRecord(i))
      /\ StopOrGoOn(q, req[q].set)
      /\ UNCHANGED <<job, item, rec, mealie, file, row>>

(* The entities are resolved and Mealie creates a blank recipe. *)
Created(q, s) ==
  /\ Importing(q, "create")
  /\ mealie[s].state = "free"
  /\ mealie' = [mealie EXCEPT ![s] = [state |-> "blank", owner |-> req[q].it]]

CreateBlank(q) ==
  /\ \E s \in Slugs :
       /\ Created(q, s)
       /\ req' = [req EXCEPT ![q].pc = "created", ![q].slug = s]
  /\ UNCHANGED <<job, item, rec, file, row>>

(* Resolution or the POST failed: created_slug stays None. *)
CreateFailed(q) ==
  /\ "mealie" \in Faults
  /\ Importing(q, "create")
  /\ Goto(q, "undone")
  /\ UNCHANGED <<job, item, rec, mealie, file, row>>

(* Mealie created the recipe, but its answer was lost or unreadable. *)
CreateReplyLost(q) ==
  /\ "lost_reply" \in Faults
  /\ \E s \in Slugs : Created(q, s)
  /\ Goto(q, "undone")
  /\ UNCHANGED <<job, item, rec, file, row>>

(* Wrong variant: the slug is stored only when the import has succeeded. *)
RecordSlugLater(q) ==
  /\ Importing(q, "created") /\ LoopFree(q)
  /\ Goto(q, "patch")
  /\ UNCHANGED <<job, item, rec, mealie, file, row>>

(* record_created_slug and commit: the row is matched by item alone. *)
RecordSlug(q) ==
  /\ Importing(q, "created") /\ LoopFree(q)
  /\ rec' = [rec EXCEPT ![req[q].it].slug = req[q].slug]
  /\ Goto(q, "patch")
  /\ UNCHANGED <<job, item, mealie, file, row>>

PatchApplied(q) ==
  /\ Importing(q, "patch")
  /\ mealie' = [mealie EXCEPT ![req[q].slug].state = "managed"]
  /\ Goto(q, "verify")
  /\ UNCHANGED <<job, item, rec, file, row>>

(* A GET or the PATCH fails before, or the read-back differs after. *)
ImportFailed(q) ==
  /\ "mealie" \in Faults
  /\ Importing(q, "patch") \/ Importing(q, "verify")
  /\ Goto(q, "delete")
  /\ UNCHANGED <<job, item, rec, mealie, file, row>>

(* mark_record_imported, mark_record_failed: the slug is kept, if there is one. *)
MarkRecordImported(i, slug) ==
  rec' = [rec EXCEPT ![i] = [state |-> "imported", slug |-> slug]]
MarkRecordFailed(i, state) == rec' = [rec EXCEPT ![i].state = state]

(***************************************************************************)
(* The last commit of an import: the item and the job, with its record.    *)
(***************************************************************************)
SettleImport(q, status) ==
  /\ LoopFree(q)
  /\ Flush(q, status, item[req[q].it].json)
  /\ UNCHANGED <<mealie, file, row>>

(* Verified by GET. *)
ImportVerified(q) ==
  /\ Importing(q, "verify")
  /\ SettleImport(q, "imported")
  /\ MarkRecordImported(req[q].it, req[q].slug)
  /\ GoOn(q, req[q].set)

(* DELETE removes the recipe; with a lost reply the handler sees a failure. *)
DeleteCreated(q) ==
  /\ Importing(q, "delete")
  /\ mealie' = [mealie EXCEPT ![req[q].slug] = FreeSlug]
  /\ \/ Goto(q, "undone")
     \/ "lost_reply" \in Faults /\ Goto(q, "stranded")
  /\ UNCHANGED <<job, item, rec, file, row>>

DeleteFailed(q) ==
  /\ "delete" \in Faults
  /\ Importing(q, "delete")
  /\ Goto(q, "stranded")
  /\ UNCHANGED <<job, item, rec, mealie, file, row>>

(* Wrong variant: the error of a failed creation reaches the record only. *)
ImportUndoneRecordOnly(q) ==
  /\ Importing(q, "undone") /\ LoopFree(q)
  /\ rec' = [rec EXCEPT ![req[q].it].state = "rolled_back"]
  /\ Finish(q)
  /\ UNCHANGED <<job, item, mealie, file, row>>

ImportUndone(q) ==
  /\ Importing(q, "undone")
  /\ SettleImport(q, "approved_for_import")
  /\ MarkRecordFailed(req[q].it, "rolled_back")
  /\ StopOrGoOn(q, req[q].set)

(* Wrong variant: an import that could not be undone may be tried again. *)
ImportStrandedRetried(q) ==
  /\ Importing(q, "stranded")
  /\ SettleImport(q, "approved_for_import")
  /\ MarkRecordFailed(req[q].it, "orphaned")
  /\ StopOrGoOn(q, req[q].set)

ImportStranded(q) ==
  /\ Importing(q, "stranded")
  /\ SettleImport(q, "import_failed")
  /\ MarkRecordFailed(req[q].it, "orphaned")
  /\ StopOrGoOn(q, req[q].set)

-----------------------------------------------------------------------------
(* Automatic import: auto_import_eligible_items, process_and_auto_import *)

(* build_auto_import_preview: nothing in them asks for a human. *)
CleanReviewed(j) ==
  {i \in ItemsOf(j) : /\ item[i].status \in {"review", "approved_for_import"}
                      /\ item[i].json = "clean"}

(* The client bounds the number of items (max_items); the oldest are taken. *)
BeginAutoImport(q, j) ==
  /\ "auto_import" \in Ops
  /\ LoopFree(q)
  /\ job[j] \notin {"absent", "cancelled"}
  /\ \E last \in CleanReviewed(j) :
       Start(q, Choosing("auto_import", j,
                         {i \in CleanReviewed(j) : i[2] <= last[2]}))
  /\ UNCHANGED <<job, item, rec, mealie, file, row>>

(***************************************************************************)
(* The next item is read again.  One that asks for a human by now is       *)
(* skipped.  process_and_auto_import approves the item it normalized,      *)
(* which fails outside review; auto_import_eligible_items takes an         *)
(* approved item as it is.  The status of the job is not asked again.      *)
(***************************************************************************)
ChooseNext(q) ==
  /\ req[q].pc = "choose"
  /\ \E i \in req[q].set :
       LET rest == req[q].set \ {i}
           InReview == item[i].status = "review"
           pc == IF InReview THEN "approve" ELSE "start"
       IN  /\ Before(req[q].set, i) = {}
           /\ IF item[i].json = "clean" /\ (InReview \/ req[q].op = "auto_import")
              THEN req' = [req EXCEPT ![q] =
                     [ReadJob(req[q].op, req[q].job) EXCEPT
                        !.pc = pc, !.it = i, !.seen = item[i], !.set = rest]]
              ELSE StopOrGoOn(q, rest)
  /\ UNCHANGED <<job, item, rec, mealie, file, row>>

(* approve_item_for_import, called without a note, and db.expire_all. *)
ApproveChosen(q) ==
  LET i == req[q].it
  IN  /\ req[q].pc = "approve"
      /\ Flush(q, "approved_for_import", item[i].json)
      /\ req' = [req EXCEPT ![q].pc = "start", ![q].seen = item'[i],
                            ![q].sjob = job'[req[q].job]]
      /\ UNCHANGED <<rec, mealie, file, row>>

(***************************************************************************)
(* import_item_to_mealie reads its rows afresh.  An item that was already  *)
(* imported counts as a success, anything else it refuses as a failure, as *)
(* does a recipe whose name was edited since it was chosen.                *)
(***************************************************************************)
StartChosen(q) ==
  LET i == req[q].it
  IN  /\ req[q].pc = "start"
      /\ \/ /\ CanImport(i)
            /\ req' = [req EXCEPT ![q] =
                 [ReadJob("import", req[q].job) EXCEPT
                    !.pc = "claim", !.it = i, !.seen = item[i], !.set = req[q].set]]
         \/ /\ ~CanImport(i) \/ item[i] # req[q].seen
            /\ StopOrGoOn(q, req[q].set)
      /\ UNCHANGED <<job, item, rec, mealie, file, row>>

-----------------------------------------------------------------------------
(* reconcile_import: a command run in a process of its own *)

(* Wrong variant: a recipe of the same name will do, managed or not. *)
MatchesByName(i) == {s \in Slugs : mealie[s].state # "free" /\ SameKey(i, mealie[s].owner)}

(* The managed recipes of Mealie that carry the import key of item i. *)
Matches(i) == {s \in Slugs : /\ mealie[s].state = "managed"
                             /\ SameKey(i, mealie[s].owner)}

(* The rows and the source file are read, then Mealie is searched. *)
BeginReconcile(q, i) ==
  /\ "reconcile" \in Ops
  /\ item[i].json # "none" /\ SourceMatches(i)
  /\ \E s \in Slugs :
       /\ Matches(i) = {s}
       /\ Start(q, [ReadJob("reconcile", i[1]) EXCEPT
                     !.it = i, !.seen = item[i], !.slug = s])
  /\ UNCHANGED <<job, item, rec, mealie, file, row>>

(* INSERT ... ON CONFLICT(import_item_id) DO UPDATE *)
UpsertReconciledRecord(i, slug) ==
  /\ CanStartRecord(i)
  /\ rec' = [rec EXCEPT ![i] = [state |-> "imported", slug |-> slug]]

(***************************************************************************)
(* The record, then the item, which update_job_status counts with its old  *)
(* status: the session does not flush by itself.  A record of the key that *)
(* belongs to another item aborts the command.                             *)
(***************************************************************************)
CommitReconcile(q) ==
  LET i == req[q].it
  IN  /\ Committing(q, "reconcile")
      /\ \/ /\ UpsertReconciledRecord(i, req[q].slug)
            /\ item' = [item EXCEPT ![i] =
                         OrmRow(@, req[q].seen, "imported", FALSE, @.json)]
            /\ WriteJob(q, Recounted(q, item))
         \/ ~CanStartRecord(i) /\ UNCHANGED <<job, item, rec>>
      /\ Finish(q)
      /\ UNCHANGED <<mealie, file, row>>

-----------------------------------------------------------------------------
(***************************************************************************)
(* The process stops: the requests in flight are lost with their sessions, *)
(* what was committed stays, and nothing is repaired at the next start.    *)
(***************************************************************************)
Crash ==
  /\ "crash" \in Faults
  /\ req' = [q \in Requests |-> IF req[q].op = "reconcile" THEN req[q] ELSE Idle]
  /\ req' # req
  /\ UNCHANGED <<job, item, rec, mealie, file, row>>

JobRequest(q) ==
  \E j \in Jobs : \/ BeginApproveJob(q, j)
                  \/ BeginCancelJob(q, j)
                  \/ BeginRequeue(q, j)
                  \/ BeginAutoImport(q, j)
                  \/ \E op \in ProcessOps : BeginProcess(q, op, j)

ItemRequest(q) ==
  \E i \in Items : \/ \E op \in AllOps : BeginReview(q, op, i)
                   \/ BeginImport(q, i)
                   \/ BeginReconcile(q, i)

ReviewCommit(q) ==
  \/ CommitApproveJob(q) \/ CommitCancelJob(q) \/ CommitRetry(q)
  \/ CommitEdit(q) \/ CommitApprove(q) \/ CommitReject(q) \/ CommitRestore(q)
  \/ CommitRevalidate(q) \/ CommitRevalidateStale(q) \/ CommitReconcile(q)

ProcessStep(q) ==
  \/ ProcessNothing(q) \/ ProcessStale(q) \/ ClaimProcess(q) \/ ClaimLost(q)
  \/ Normalized(q) \/ NextOfBatch(q) \/ NormalizationFailed(q) \/ CommitRequeue(q)

ImportStep(q) ==
  \/ ClaimImport(q) \/ ImportRefused(q)
  \/ CreateBlank(q) \/ CreateFailed(q) \/ CreateReplyLost(q) \/ RecordSlug(q)
  \/ PatchApplied(q) \/ ImportFailed(q) \/ ImportVerified(q)
  \/ DeleteCreated(q) \/ DeleteFailed(q) \/ ImportUndone(q) \/ ImportStranded(q)

AutoImportStep(q) == ChooseNext(q) \/ ApproveChosen(q) \/ StartChosen(q)

(* What the server does by itself once a request is in flight. *)
Progress(q) == \/ ReviewCommit(q) \/ ProcessStep(q)
               \/ ImportStep(q) \/ AutoImportStep(q)

Next ==
  \/ ResetWorkingTree \/ SyncRows \/ Crash
  \/ \E j \in Jobs, selected \in SUBSET Recipes : CreateJob(j, selected)
  \/ \E q \in Requests : JobRequest(q) \/ ItemRequest(q) \/ Progress(q)

Spec == Init /\ [][Next]_vars

(***************************************************************************)
(* Every call a handler awaits has a timeout (httpx, LLM_TIMEOUT_SECONDS)  *)
(* and every await is followed by code that runs to the next one.  A       *)
(* handler whose answer has arrived may find the event loop busy, again    *)
(* and again, which disables its step: the loop resumes its ready tasks in *)
(* the order they became ready, so none waits for ever.  Hence strong      *)
(* fairness.                                                               *)
(***************************************************************************)
Fairness == \A q \in Requests : SF_vars(Progress(q))

FairSpec == Spec /\ Fairness

-----------------------------------------------------------------------------
(* Properties *)

(***************************************************************************)
(* What every request in flight can rely on: its job and its items are     *)
(* those of jobs that exist, and only an import gets past the claim.       *)
(***************************************************************************)
PastClaim == {"create", "created", "patch", "verify", "delete", "undone", "stranded"}

HasTarget(r) ==
  /\ r # Idle => r.job \in Jobs
  /\ r.op \in {"import", "reconcile"} \/ r.pc \in {"llm", "approve", "start"}
     => r.it \in Items
  /\ r.pc \in {"choose", "approve", "start"} => r.op \in {"auto_import", "combined"}
  /\ r.it # None => job[r.it[1]] # "absent"
  /\ \A i \in r.set : job[i[1]] # "absent"
  /\ r.pc \in PastClaim => r.op = "import" /\ rec[r.it].state # "none"

AbsentJobIsEmpty ==
  \A i \in Items : job[i[1]] = "absent" => item[i] = NoRow /\ rec[i].state = "none"

ImportedHasRecord ==
  \A i \in Items :
    item[i].status \in {"importing", "imported"} => rec[i].state # "none"

OneRecordPerRevision ==
  \A i, k \in Items :
    i # k /\ SameKey(i, k) /\ rec[i].state # "none" => rec[k].state = "none"

(***************************************************************************)
(* The inductive invariant: items of one source revision never have two    *)
(* records, and the item of every import past its claim, and every item    *)
(* being imported or imported, has one, whatever stale rows other handlers *)
(* write in the meantime.                                                  *)
(***************************************************************************)
ImportInvariant ==
  /\ \A q \in Requests : HasTarget(req[q])
  /\ AbsentJobIsEmpty
  /\ ImportedHasRecord
  /\ OneRecordPerRevision

(***************************************************************************)
(* Two items of one source revision, in two jobs, are never both importing *)
(* or imported: the application's look-ups race, the unique index *)
(* on the import key decides.                                              *)
(***************************************************************************)
OneItemPerRevision ==
  \A i, k \in Items :
    /\ i # k /\ SameKey(i, k)
    /\ item[i].status \in {"importing", "imported"}
    => item[k].status \notin {"importing", "imported"}

(***************************************************************************)
(* The model is never paid twice at a time for one source revision, unless *)
(* a job was cancelled (its items no longer count) or a reviewer retries   *)
(* an item that looks stale: the claim excludes a second request on the    *)
(* item, and the look-up of active items, which no await separates from    *)
(* the claim, excludes the items of other jobs.                            *)
(***************************************************************************)
OneNormalizationPerRevision ==
  \A p, q \in Requests :
    /\ p # q /\ req[p].pc = "llm" /\ req[q].pc = "llm"
    /\ job[req[p].job] # "cancelled" /\ job[req[q].job] # "cancelled"
    => ~SameKey(req[p].it, req[q].it)

(***************************************************************************)
(* A recipe in Mealie is known: some record names its slug with a state    *)
(* that says it exists, or the handler that created it is still at work,   *)
(* or died before it could store the slug and left the record importing.   *)
(***************************************************************************)
Tracked(s) ==
  \/ \E i \in Items : rec[i].slug = s /\ rec[i].state \in DUPLICATE_IMPORT_STATES
  \/ \E i \in Items : mealie[s].owner = i /\ rec[i] = [state |-> "importing", slug |-> None]
  \/ \E q \in Requests : req[q].slug = s

EveryRecipeTracked == \A s \in Slugs : mealie[s].state # "free" => Tracked(s)

(* An imported item's record says so and names a complete, live recipe. *)
ImportedIsInMealie ==
  \A i \in Items : item[i].status = "imported" =>
    /\ rec[i].state = "imported"
    /\ rec[i].slug # None
    /\ mealie[rec[i].slug].state = "managed"

(* Mealie never holds two recipes of the same source revision. *)
NoDuplicateRecipe ==
  \A s, t \in Slugs : s # t /\ mealie[s].state # "free" /\ mealie[t].state # "free"
    => ~SameKey(mealie[s].owner, mealie[t].owner)

(* What IdempotentImport says of a slug of Mealie. *)
RecipeAt(s) ==
  LET m == mealie[s]
      imported == rec[m.owner] = [state |-> "imported", slug |-> s]
  IN  IF m.state = "free" THEN [stage |-> "free", of |-> None]
      ELSE [stage |-> IF imported THEN "imported" ELSE m.state,
            of |-> <<m.owner[2], item[m.owner].rev>>]

RecipesInMealie == [s \in Slugs |-> RecipeAt(s)]

Idempotent == INSTANCE IdempotentImport WITH
  Contents <- Recipes \X (Revisions \cup {None}), Nothing <- None,
  recipe <- RecipesInMealie

(***************************************************************************)
(* As long as requests do not overlap and no answer of Mealie is lost, the *)
(* queue does to Mealie what IdempotentImport allows: one recipe for each  *)
(* content, and what was imported is never undone, replaced or forgotten.  *)
(***************************************************************************)
ImportsAreIdempotent == Idempotent!Spec

(***************************************************************************)
(* The quality gate: as long as requests do not overlap, an item approved  *)
(* for import or being imported never has a result with blocking problems, *)
(* whatever was edited, revalidated, rejected, restored or retried before. *)
(* (A reconciled item is not held to it: its recipe exists already.)       *)
(***************************************************************************)
BlockedIsNotImported ==
  \A i \in Items :
    item[i].status \in {"approved_for_import", "importing"}
    => item[i].json # "block"

(* All the items of a completed job are in a terminal status. *)
CompletedIsTerminal ==
  \A j \in Jobs : job[j] = "completed" => Present(j, item) \subseteq TerminalStatuses

(* No request brings a cancelled job back. *)
CancelledStaysCancelled ==
  [][\A j \in Jobs : job[j] = "cancelled" => job'[j] = "cancelled"]_vars

(***************************************************************************)
(* Without a crash every import ends: the item leaves "importing", whether *)
(* Mealie, its answers or the clean-up fail.                               *)
(***************************************************************************)
ImportEnds ==
  \A i \in Items : item[i].status = "importing" ~> item[i].status # "importing"

(* Without a crash every normalization ends: the item leaves "processing". *)
NormalizationEnds ==
  \A i \in Items : item[i].status = "processing" ~> item[i].status # "processing"

(***************************************************************************)
(* What the repository says of itself and the code does not do: no run     *)
(* expects these to hold (README, "Known divergences").  A job is at rest  *)
(* when no request is at work on it.                                       *)
(***************************************************************************)
AtRest(j) == \A q \in Requests : req[q].job # j

(***************************************************************************)
(* The comment at the end of _process_import_item: without a flush before  *)
(* the recount "the job may remain stuck at processing".                   *)
(***************************************************************************)
NotStuckProcessing ==
  \A j \in Jobs : AtRest(j) /\ job[j] = "processing"
                 => "processing" \in Present(j, item)

(***************************************************************************)
(* docs/providers.md: after an infrastructure error "batch processing can  *)
(* stop and requeue instead of damaging individual item state": a queued   *)
(* item can be approved or processed, unless its job was cancelled.        *)
(***************************************************************************)
QueuedCanRun ==
  \A j \in Jobs : AtRest(j) /\ Queued(j) # {}
                 => job[j] \in {"draft", "approved", "processing", "cancelled"}

(***************************************************************************)
(* tests/test_reconcile_mealie_import.py: a job whose only item has been   *)
(* reconciled is completed.                                                *)
(***************************************************************************)
ImportedJobIsCompleted ==
  \A j \in Jobs : AtRest(j) /\ Present(j, item) = {"imported"}
                 => job[j] \in {"completed", "cancelled"}
=============================================================================

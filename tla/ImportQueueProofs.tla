-------------------------- MODULE ImportQueueProofs --------------------------
(***************************************************************************)
(* What holds of ImportQueue for any jobs, recipes, revisions, requests    *)
(* and slugs, and whatever operations and faults occur.                    *)
(***************************************************************************)
EXTENDS ImportQueue, TLAPS

(* update_job_status returns a status, and never makes a job disappear. *)
LEMMA JobStatusAfterType ==
  ASSUME NEW current, NEW present
  PROVE  JobStatusAfter(current, present) \in JobStatus \ {"absent"}
BY DEF JobStatusAfter, JobStatus

(* What the ORM leaves in the row of an item is a row of an item. *)
LEMMA OrmRowType ==
  ASSUME NEW stored \in ItemRow, NEW seen \in ItemRow,
         NEW status \in ItemStatus, NEW infra \in BOOLEAN, NEW json \in Verdicts
  PROVE  OrmRow(stored, seen, status, infra, json) \in ItemRow
BY DEF OrmRow, OrmSet, ItemRow

(* The request slot of no handler is a request. *)
LEMMA IdleType == Idle \in Request
BY DEF Idle, Request, NoRow, ItemRow, PCs, JobStatus, ItemStatus, Verdicts

(* WriteJob leaves a status in the row of the job. *)
LEMMA WriteJobType ==
  ASSUME TypeOK, NEW q \in Requests, NEW status \in JobStatus, WriteJob(q, status)
  PROVE  job' \in [Jobs -> JobStatus]
BY DEF TypeOK, WriteJob, OrmSet

(* A recount yields a status of a job. *)
LEMMA RecountedType ==
  ASSUME NEW q \in Requests, NEW rows
  PROVE  Recounted(q, rows) \in JobStatus
BY JobStatusAfterType DEF Recounted

(* Ending a request, and moving it on. *)
LEMMA FinishType ==
  ASSUME TypeOK, NEW q \in Requests, Finish(q)
  PROVE  req' \in [Requests -> Request]
BY IdleType DEF TypeOK, Finish

(* A handler that moves on to its next await stays a request. *)
LEMMA GotoType ==
  ASSUME TypeOK, NEW q \in Requests, NEW pc \in PCs, Goto(q, pc)
  PROVE  req' \in [Requests -> Request]
BY DEF TypeOK, Goto, Request

(* A slot that takes up a request holds a request. *)
LEMMA StartType ==
  ASSUME TypeOK, NEW q \in Requests, NEW r \in Request, Start(q, r)
  PROVE  req' \in [Requests -> Request]
BY DEF TypeOK, Start

(* The commit shared by the review and import handlers is well typed. *)
LEMMA FlushType ==
  ASSUME TypeOK, NEW q \in Requests, NEW status \in ItemStatus, NEW json,
         req[q].it \in Items => json \in Verdicts, Flush(q, status, json)
  PROVE  /\ job' \in [Jobs -> JobStatus]
         /\ item' \in [Items -> ItemRow]
<1> DEFINE i == req[q].it
           rows == [item EXCEPT ![i] = OrmRow(@, req[q].seen, status, FALSE, json)]
<1>1. req[q].seen \in ItemRow
  BY DEF TypeOK, Request
<1>2. i \in Items => OrmRow(item[i], req[q].seen, status, FALSE, json) \in ItemRow
  BY <1>1, OrmRowType DEF TypeOK
<1>3. rows \in [Items -> ItemRow]
  BY <1>2 DEF TypeOK
<1>4. item' = rows /\ WriteJob(q, Recounted(q, rows))
  BY DEF Flush
<1> QED
  BY <1>3, <1>4, RecountedType, WriteJobType

(* So are the handlers that end with it. *)
LEMMA FlushAndRecountType ==
  ASSUME TypeOK, NEW q \in Requests, NEW status \in ItemStatus, NEW json,
         req[q].it \in Items => json \in Verdicts, FlushAndRecount(q, status, json)
  PROVE  /\ job' \in [Jobs -> JobStatus]
         /\ item' \in [Items -> ItemRow]
         /\ req' \in [Requests -> Request]
BY FlushType, FinishType DEF FlushAndRecount

(* An automatic import between two of its items is a request. *)
LEMMA ChoosingType ==
  ASSUME NEW op \in AllOps, NEW j \in Jobs, NEW items \in SUBSET Items
  PROVE  Choosing(op, j, items) \in Request
BY IdleType DEF Choosing, Request, PCs

(* An automatic import that stops, or goes on with the rest. *)
LEMMA GoOnType ==
  ASSUME TypeOK, NEW q \in Requests, NEW rest \in SUBSET Items, req[q].job \in Jobs,
         StopOrGoOn(q, rest) \/ GoOn(q, rest)
  PROVE  req' \in [Requests -> Request]
<1>1. Choosing("auto_import", req[q].job, rest) \in Request
  BY ChoosingType, "auto_import" \in AllOps DEF AllOps
<1> QED
  BY <1>1, FinishType DEF StopOrGoOn, GoOn, TypeOK

-----------------------------------------------------------------------------
(* Type correctness *)

(* What a handler has read of a job makes a request. *)
LEMMA ReadJobType ==
  ASSUME TypeOK, NEW op \in AllOps, NEW j \in Jobs
  PROVE  ReadJob(op, j) \in Request
BY IdleType DEF TypeOK, ReadJob, Request, PCs

(* The choice of the item to normalize makes a request. *)
LEMMA PickItemType ==
  ASSUME TypeOK, NEW q \in Requests, NEW op \in ProcessOps, NEW j \in Jobs,
         NEW sjob \in JobStatus, NEW items \in SUBSET Items,
         PickItem(q, op, j, sjob, items)
  PROVE  req' \in [Requests -> Request]
<1>1. PICK it \in IF Eligible(items) = {} THEN {None} ELSE Eligible(items) :
        req' = [req EXCEPT ![q] =
            [Idle EXCEPT
              !.op = op, !.pc = "claim", !.job = j, !.sjob = sjob, !.it = it,
              !.seen = IF it = None THEN NoRow ELSE item[it],
              !.set = Skipped(IF it = None THEN items ELSE Before(items, it))]]
  BY DEF PickItem
<1>2. it \in Items \cup {None}
  BY DEF Eligible
<1>3. (IF it = None THEN NoRow ELSE item[it]) \in ItemRow
  BY <1>2, IdleType DEF TypeOK, Idle, Request
<1>4. Skipped(IF it = None THEN items ELSE Before(items, it)) \in SUBSET Items
  BY DEF Skipped, Before
<1>5. op \in AllOps
  BY DEF ProcessOps, AllOps
<1> QED
  BY <1>1, <1>2, <1>3, <1>4, <1>5, IdleType DEF TypeOK, Request, PCs

(* SetStatus and the other rewritings of the item table keep its rows rows. *)
LEMMA SetStatusType ==
  ASSUME TypeOK, NEW items, NEW status \in ItemStatus
  PROVE  SetStatus(items, status) \in [Items -> ItemRow]
BY DEF TypeOK, SetStatus, ItemRow

(* Every step of the queue keeps the tables and the requests well typed. *)
LEMMA TypeStep == TypeOK /\ (\A q \in Requests : HasTarget(req[q])) /\ [Next]_vars => TypeOK'
<1> SUFFICES ASSUME TypeOK, \A q \in Requests : HasTarget(req[q]), [Next]_vars
             PROVE  TypeOK'
  OBVIOUS
<1> USE ImportAssumption
<1>1. CASE UNCHANGED vars
  BY <1>1 DEF TypeOK, vars
<1>2. CASE ResetWorkingTree
  BY <1>2 DEF ResetWorkingTree, TypeOK
<1>3. CASE SyncRows
  BY <1>3 DEF SyncRows, TypeOK, SourceRow
<1>4. CASE Crash
  BY <1>4, IdleType DEF Crash, TypeOK
<1>5. ASSUME NEW j \in Jobs, NEW selected \in SUBSET Recipes, CreateJob(j, selected)
      PROVE  TypeOK'
  <2>1. job' \in [Jobs -> JobStatus]
    BY <1>5 DEF CreateJob, TypeOK, JobStatus
  <2>2. \A i \in Items : [NoRow EXCEPT !.status = "queued", !.rev = row[i[2]].rev] \in ItemRow
    BY DEF TypeOK, NoRow, ItemRow, ItemStatus, Verdicts, SourceRow, Items
  <2>3. item' \in [Items -> ItemRow]
    BY <1>5, <2>2 DEF CreateJob, TypeOK
  <2> QED
    BY <1>5, <2>1, <2>3 DEF CreateJob, TypeOK
<1>6. ASSUME NEW q \in Requests, JobRequest(q)
      PROVE  TypeOK'
  <2>1. ASSUME NEW j \in Jobs, BeginApproveJob(q, j) \/ BeginCancelJob(q, j) \/ BeginRequeue(q, j)
        PROVE  TypeOK'
    <3>1. \A op \in AllOps : ReadJob(op, j) \in Request
      BY ReadJobType
    <3>2. "approve_job" \in AllOps /\ "cancel_job" \in AllOps /\ "combined" \in AllOps
      BY DEF AllOps
    <3>3. Cancellable(j) \in SUBSET Items /\ InfraFailures(j, item) \in SUBSET Items
      BY DEF Cancellable, ItemsOf, InfraFailures
    <3>4. [ReadJob("cancel_job", j) EXCEPT !.set = Cancellable(j)] \in Request
      BY <3>1, <3>2, <3>3 DEF Request
    <3>5. [ReadJob("combined", j) EXCEPT !.pc = "requeue",
                                            !.set = InfraFailures(j, item)] \in Request
      BY <3>1, <3>2, <3>3 DEF Request, PCs
    <3> QED
      BY <2>1, <3>1, <3>2, <3>4, <3>5, StartType
      DEF BeginApproveJob, BeginCancelJob, BeginRequeue, TypeOK
  <2>3. ASSUME NEW j \in Jobs, BeginAutoImport(q, j)
        PROVE  TypeOK'
    <3> DEFINE chosen(last) == {i \in CleanReviewed(j) : i[2] <= last[2]}
    <3>1. PICK last \in CleanReviewed(j) :
            Start(q, Choosing("auto_import", j, chosen(last)))
      BY <2>3 DEF BeginAutoImport
    <3>2. chosen(last) \in SUBSET Items /\ "auto_import" \in AllOps
      BY DEF CleanReviewed, ItemsOf, AllOps
    <3> HIDE DEF chosen
    <3> QED
      BY <2>3, <3>1, <3>2, ChoosingType, StartType DEF BeginAutoImport, TypeOK
  <2>2. ASSUME NEW j \in Jobs, NEW op \in ProcessOps, BeginProcess(q, op, j)
        PROVE  TypeOK'
    <3>1. PICK target \in IF op = "process_item" THEN Queued(j) ELSE {None} :
            PickItem(q, op, j, job[j], Candidates(op, j, target))
      BY <2>2 DEF BeginProcess
    <3>2. Candidates(op, j, target) \in SUBSET Items
      BY DEF Candidates, Queued, ItemsOf
    <3>3. job[j] \in JobStatus
      BY DEF TypeOK
    <3> QED
      BY <2>2, <3>1, <3>2, <3>3, PickItemType DEF BeginProcess, TypeOK
  <2> QED
    BY <1>6, <2>1, <2>2, <2>3 DEF JobRequest
<1>7. ASSUME NEW q \in Requests, ItemRequest(q)
      PROVE  TypeOK'
  <2>1. PICK i \in Items : \/ \E op \in AllOps : BeginReview(q, op, i)
                           \/ BeginImport(q, i)
                           \/ BeginReconcile(q, i)
    BY <1>7 DEF ItemRequest
  <2>2. i[1] \in Jobs
    BY DEF Items
  <2>3. \A op \in AllOps : ReadJob(op, i[1]) \in Request
    BY <2>2, ReadJobType
  <2>4. item[i] \in ItemRow
    BY DEF TypeOK
  <2>5. CASE \E op \in AllOps : BeginReview(q, op, i)
    <3>1. \A op \in AllOps :
            [ReadJob(op, i[1]) EXCEPT !.it = i, !.seen = item[i]] \in Request
      BY <2>3, <2>4 DEF Request
    <3> QED
      BY <2>5, <3>1, StartType DEF BeginReview, TypeOK
  <2>6. CASE BeginImport(q, i)
    <3>1. ReadJob("import", i[1]) \in Request /\ "claim" \in PCs
      BY <2>3 DEF AllOps, PCs
    <3>2. [ReadJob("import", i[1]) EXCEPT !.pc = "claim", !.it = i,
                                          !.seen = item[i]] \in Request
      BY <2>4, <3>1 DEF Request
    <3> QED
      BY <2>6, <3>2, StartType DEF BeginImport, TypeOK
  <2>7. CASE BeginReconcile(q, i)
    <3>1. \A s \in Slugs : [ReadJob("reconcile", i[1]) EXCEPT
                               !.it = i, !.seen = item[i], !.slug = s] \in Request
      BY <2>3, <2>4 DEF Request, AllOps
    <3> QED
      BY <2>7, <3>1, StartType DEF BeginReconcile, TypeOK
  <2> QED
    BY <2>1, <2>5, <2>6, <2>7
<1>8. ASSUME NEW q \in Requests, ReviewCommit(q)
      PROVE  TypeOK'
  <2> USE <1>8
  <2>1. /\ {"queued", "cancelled", "review", "approved_for_import", "rejected",
             "imported", "source_updated", "import_failed", "processing", "failed"}
             \subseteq ItemStatus
        /\ {"approved", "cancelled", "processing"} \subseteq JobStatus
        /\ Results \subseteq Verdicts
        /\ req[q].seen \in ItemRow
        /\ req[q].it \in Items => item[req[q].it] \in ItemRow
    BY DEF ItemStatus, JobStatus, Verdicts, TypeOK, Request
  <2>2. \A i \in Items, status \in ItemStatus :
          OrmRow(item[i], req[q].seen, status, FALSE, item[i].json) \in ItemRow
    BY <2>1, OrmRowType DEF TypeOK, ItemRow
  <2>3. CASE CommitApproveJob(q)
    BY <2>3, <2>1, WriteJobType, FinishType DEF CommitApproveJob, TypeOK
  <2>4. CASE CommitCancelJob(q)
    BY <2>4, <2>1, WriteJobType, FinishType, SetStatusType DEF CommitCancelJob, TypeOK
  <2>5. CASE CommitRetry(q)
    BY <2>5, <2>1, <2>2, WriteJobType, FinishType DEF CommitRetry, TypeOK
  <2>6. CASE CommitEdit(q)
    BY <2>6, <2>1, FlushAndRecountType DEF CommitEdit, TypeOK
  <2>7. CASE CommitApprove(q) \/ CommitRestore(q)
    <3>1. req[q].it \in Items => {item[req[q].it].json, req[q].seen.json} \subseteq Verdicts
      BY <2>1 DEF ItemRow
    <3> QED
      BY <2>7, <2>1, <3>1, FlushAndRecountType DEF CommitApprove, CommitRestore, TypeOK
  <2>8. CASE CommitReject(q)
    <3>1. req[q].it \in Items => item[req[q].it].json \in Verdicts
      BY <2>1 DEF ItemRow
    <3> QED
      BY <2>8, <2>1, <3>1, FlushAndRecountType DEF CommitReject, TypeOK
  <2>9. CASE CommitRevalidate(q)
    BY <2>9, <2>1, FlushAndRecountType DEF CommitRevalidate, TypeOK
  <2>10. CASE CommitRevalidateStale(q)
    BY <2>10, <2>1, <2>2, FinishType DEF CommitRevalidateStale, TypeOK
  <2>11. CASE CommitReconcile(q)
    <3>1. [state |-> "imported", slug |-> req[q].slug] \in RecordRow
      BY DEF TypeOK, Request, RecordRow, RecordState
    <3>2. req' \in [Requests -> Request]
      BY <2>11, FinishType DEF CommitReconcile
    <3>3. CASE CanStartRecord(req[q].it)
      <4>1. job' \in [Jobs -> JobStatus]
        BY <2>11, <3>3, RecountedType, WriteJobType DEF CommitReconcile, UpsertReconciledRecord
      <4>2. item' \in [Items -> ItemRow]
        <5>1. item' = [item EXCEPT ![req[q].it] =
                         OrmRow(@, req[q].seen, "imported", FALSE, @.json)]
          BY <2>11, <3>3 DEF CommitReconcile
        <5> QED
          BY <2>1, <2>2, <5>1 DEF TypeOK
      <4>3. rec' \in [Items -> RecordRow]
        BY <2>11, <3>1, <3>3 DEF CommitReconcile, UpsertReconciledRecord, TypeOK
      <4> QED
        BY <2>11, <3>2, <4>1, <4>2, <4>3 DEF CommitReconcile, TypeOK
    <3>4. CASE ~CanStartRecord(req[q].it)
      BY <2>11, <3>2, <3>4 DEF CommitReconcile, UpsertReconciledRecord, TypeOK
    <3> QED
      BY <3>3, <3>4
  <2> QED
    BY <2>3, <2>4, <2>5, <2>6, <2>7, <2>8, <2>9, <2>10, <2>11 DEF ReviewCommit
<1>9. ASSUME NEW q \in Requests, ProcessStep(q)
      PROVE  TypeOK'
  <2> USE <1>9
  <2>1. /\ {"cancelled", "review", "source_updated", "processing", "failed", "queued"}
             \subseteq ItemStatus
        /\ "processing" \in JobStatus
        /\ Results \subseteq Verdicts
        /\ req[q] \in Request /\ req[q].seen \in ItemRow /\ req[q].sjob \in JobStatus
        /\ req[q].it \in Items \cup {None}
        /\ req[q].op \in ProcessOps => req[q].job \in Jobs
        /\ req[q].pc = "llm" => req[q].it \in Items
    BY DEF ItemStatus, JobStatus, Verdicts, TypeOK, Request, HasTarget, ProcessOps, Idle
  <2>2. \A i \in Items, status \in ItemStatus, infra \in BOOLEAN :
          OrmRow(item[i], req[q].seen, status, infra, item[i].json) \in ItemRow
    BY <2>1, OrmRowType DEF TypeOK, ItemRow
  <2>3. SetStatus(req[q].set, "cancelled") \in [Items -> ItemRow]
    BY <2>1, SetStatusType
  <2>4. CASE ProcessNothing(q)
    BY <2>4, <2>3, RecountedType, WriteJobType, FinishType DEF ProcessNothing, TypeOK
  <2>5. CASE ProcessStale(q)
    <3> DEFINE flushed == SetStatus(req[q].set, "cancelled")
               i == req[q].it
    <3>1. \A k \in Items :
            OrmRow(flushed[k], req[q].seen, "source_updated", FALSE, flushed[k].json) \in ItemRow
      BY <2>1, <2>3, OrmRowType DEF ItemRow
    <3>2. item' \in [Items -> ItemRow]
      BY <2>5, <2>3, <3>1 DEF ProcessStale
    <3> QED
      BY <2>5, <3>2, RecountedType, WriteJobType, FinishType DEF ProcessStale, TypeOK
  <2>6. CASE ClaimProcess(q)
    <3> DEFINE i == req[q].it
               rows == [SetStatus(req[q].set, "cancelled") EXCEPT
                          ![i].status = "processing", ![i].infra = FALSE]
    <3>1. rows \in [Items -> ItemRow]
      BY <2>1, <2>3 DEF ItemRow
    <3>2. i \in Items
      BY <2>1, <2>6 DEF ClaimProcess
    <3>3. [req[q] EXCEPT !.pc = "llm", !.seen = rows[i], !.sjob = "processing",
                         !.set = {}] \in Request
      BY <2>1, <3>1, <3>2 DEF Request, PCs
    <3>4. req' \in [Requests -> Request]
      BY <2>6, <3>3 DEF ClaimProcess, TypeOK
    <3>5. job' \in [Jobs -> JobStatus]
      BY <2>6, <2>1, WriteJobType DEF ClaimProcess
    <3>6. item' = rows /\ UNCHANGED <<rec, mealie, file, row>>
      BY <2>6 DEF ClaimProcess
    <3> QED
      BY <3>1, <3>4, <3>5, <3>6 DEF TypeOK
  <2>7. CASE ClaimLost(q)
    BY <2>7, FinishType DEF ClaimLost, TypeOK
  <2>8. CASE Normalized(q)
    <3> DEFINE i == req[q].it
               rows(v) == [item EXCEPT ![i] = OrmRow(@, req[q].seen, "review", FALSE, v)]
               status(v) == Recounted(q, rows(v))
               next(v) == [Idle EXCEPT !.op = "process_batch", !.pc = "next",
                                       !.job = req[q].job, !.sjob = status(v)]
    <3>1. PICK v \in Results :
            /\ item' = rows(v)
            /\ WriteJob(q, status(v))
            /\ \/ Finish(q)
               \/ req[q].op = "process_batch" /\ req' = [req EXCEPT ![q] = next(v)]
               \/ /\ req[q].op = "combined"
                  /\ req' = [req EXCEPT ![q] = Choosing("combined", req[q].job, {i})]
      BY <2>8 DEF Normalized
    <3>2. rows(v) \in [Items -> ItemRow]
      BY <2>1, OrmRowType DEF TypeOK
    <3>3. status(v) \in JobStatus
      BY RecountedType
    <3>4. req[q].op = "process_batch" => next(v) \in Request
      <4> HIDE DEF status
      <4> QED
        BY <2>1, <3>3, IdleType, "process_batch" \in AllOps, "next" \in PCs
        DEF Request, AllOps, PCs
    <3>8. req[q].op = "combined" => Choosing("combined", req[q].job, {i}) \in Request
      BY <2>1, <2>8, ChoosingType, "combined" \in AllOps DEF Normalized, AllOps, ProcessOps
    <3>5. req' \in [Requests -> Request]
      <4> HIDE DEF next
      <4> QED
        BY <3>1, <3>4, <3>8, FinishType DEF TypeOK
    <3>6. job' \in [Jobs -> JobStatus]
      BY <3>1, <3>3, WriteJobType
    <3>7. UNCHANGED <<rec, mealie, file, row>>
      BY <2>8 DEF Normalized
    <3> QED
      BY <3>1, <3>2, <3>5, <3>6, <3>7 DEF TypeOK
  <2>9. CASE NextOfBatch(q)
    <3>1. CASE PickItem(q, "process_batch", req[q].job, req[q].sjob, Queued(req[q].job))
      <4>1. Queued(req[q].job) \in SUBSET Items /\ "process_batch" \in ProcessOps
        BY DEF Queued, ItemsOf, ProcessOps
      <4>2. req[q].job \in Jobs
        BY <2>9 DEF NextOfBatch, HasTarget, Idle
      <4> QED
        BY <2>9, <2>1, <3>1, <4>1, <4>2, PickItemType DEF NextOfBatch, TypeOK
    <3>2. CASE Finish(q)
      BY <2>9, <3>2, FinishType DEF NextOfBatch, TypeOK
    <3> QED
      BY <2>9, <3>1, <3>2 DEF NextOfBatch
  <2>10. CASE NormalizationFailed(q)
    <3> DEFINE i == req[q].it
               j == req[q].job
               status == Recounted(q, item)
               stored == OrmSet(job[j], req[q].sjob, status)
               rows(infra) == [item EXCEPT ![i] = FailedRow(@, req[q].seen, infra)]
               requeues == [Idle EXCEPT !.op = req[q].op, !.pc = "requeue", !.job = j]
               one == [requeues EXCEPT !.sjob = status, !.set = {i}]
               all(infra) == [requeues EXCEPT !.sjob = stored,
                                              !.set = InfraFailures(j, rows(infra))]
    <3>1. PICK infra \in BOOLEAN :
            /\ item' = rows(infra)
            /\ req' = [req EXCEPT ![q] =
                         IF infra /\ req[q].op = "process_item" THEN one
                         ELSE IF infra /\ req[q].op = "combined" THEN all(infra)
                         ELSE Idle]
      BY <2>10 DEF NormalizationFailed
    <3>2. WriteJob(q, status) /\ status \in JobStatus /\ UNCHANGED <<rec, mealie, file, row>>
      BY <2>10, RecountedType DEF NormalizationFailed
    <3>3. i \in Items
      BY <2>1, <2>10 DEF NormalizationFailed
    <3>4. rows(infra) \in [Items -> ItemRow]
      BY <2>1, <2>2, <3>3 DEF FailedRow, TypeOK
    <3>5. req[q].op \in {"process_item", "combined"} =>
            requeues \in Request /\ stored \in JobStatus
      <4>1. req[q].op \in {"process_item", "combined"} => j \in Jobs
        BY <2>1 DEF ProcessOps
      <4>2. req[q].op \in {"process_item", "combined"} => stored \in JobStatus
        BY <3>2, <4>1 DEF OrmSet, TypeOK
      <4>3. requeues \in Request
        BY <2>1, IdleType, "requeue" \in PCs DEF Request, PCs
      <4> QED
        BY <4>2, <4>3
    <3>6. InfraFailures(j, rows(infra)) \in SUBSET Items
      BY DEF InfraFailures
    <3>7. req[q].op \in {"process_item", "combined"} =>
            one \in Request /\ all(infra) \in Request
      <4> HIDE DEF status, stored, requeues, rows
      <4> QED
        BY <3>2, <3>3, <3>5, <3>6 DEF Request
    <3>8. req' \in [Requests -> Request]
      <4> HIDE DEF one, all
      <4> QED
        BY <3>1, <3>7, IdleType DEF TypeOK
    <3>9. job' \in [Jobs -> JobStatus]
      BY <3>2, WriteJobType
    <3> QED
      BY <3>1, <3>2, <3>4, <3>8, <3>9 DEF TypeOK
  <2>11. CASE CommitRequeue(q)
    <3>1. item' \in [Items -> ItemRow]
      BY <2>11, <2>1 DEF CommitRequeue, TypeOK, ItemRow
    <3> QED
      BY <2>11, <3>1, RecountedType, WriteJobType, FinishType DEF CommitRequeue, TypeOK
  <2> QED
    BY <2>4, <2>5, <2>6, <2>7, <2>8, <2>9, <2>10, <2>11 DEF ProcessStep
<1>10. ASSUME NEW q \in Requests, ImportStep(q)
       PROVE  TypeOK'
  <2> USE <1>10
  <2>16. req[q].op = "import"
    BY DEF ImportStep, ClaimImport, ImportRefused, CreateBlank, CreateFailed, CreateReplyLost,
           RecordSlug, PatchApplied, ImportFailed, ImportVerified, DeleteCreated, DeleteFailed,
           ImportUndone, ImportStranded, Created, Importing
  <2>1. /\ req[q] \in Request /\ req[q].it \in Items \cup {None}
        /\ req[q].slug \in Slugs \cup {None}
        /\ req[q].job \in Jobs /\ req[q].set \in SUBSET Items
        /\ {"importing", "imported", "import_failed", "approved_for_import"} \subseteq ItemStatus
        /\ {"importing", "imported", "rolled_back", "orphaned"} \subseteq RecordState
        /\ {"create", "created", "patch", "verify", "delete", "undone", "stranded"}
             \subseteq PCs
    BY <2>16 DEF TypeOK, Request, ItemStatus, RecordState, PCs, HasTarget, Idle
  <2>2. ASSUME NEW status \in ItemStatus, NEW record, SettleImport(q, status),
               rec' = [rec EXCEPT ![req[q].it] = record],
               req[q].it \in Items => record \in RecordRow,
               StopOrGoOn(q, req[q].set) \/ GoOn(q, req[q].set)
        PROVE  TypeOK'
    <3>1. req[q].it \in Items => item[req[q].it].json \in Verdicts
      BY DEF TypeOK, ItemRow
    <3>2. rec' \in [Items -> RecordRow]
      BY <2>2 DEF TypeOK
    <3> QED
      BY <2>1, <2>2, <3>1, <3>2, FlushType, GoOnType DEF SettleImport, TypeOK
  <2>3. CASE ClaimImport(q)
    <3> DEFINE i == req[q].it
               claimed == [item[i] EXCEPT !.status = "importing", !.infra = FALSE]
    <3>1. i \in Items
      BY <2>3 DEF ClaimImport, Importing, HasTarget
    <3>2. claimed \in ItemRow
      BY <2>1, <3>1 DEF TypeOK, ItemRow
    <3>3. [claimed EXCEPT !.json = req[q].seen.json] \in ItemRow
      BY <2>1, <3>2 DEF ItemRow, Request
    <3>4. [req[q] EXCEPT !.pc = "create",
                         !.seen = [claimed EXCEPT !.json = req[q].seen.json]] \in Request
      <4> HIDE DEF claimed
      <4> QED
        BY <2>1, <3>3 DEF Request
    <3>5. [state |-> "importing", slug |-> None] \in RecordRow
      BY <2>1 DEF RecordRow
    <3>6. /\ item' = [item EXCEPT ![i] = claimed]
          /\ rec' = [rec EXCEPT ![i] = [state |-> "importing", slug |-> None]]
          /\ req' = [req EXCEPT ![q] = [req[q] EXCEPT !.pc = "create",
                         !.seen = [claimed EXCEPT !.json = req[q].seen.json]]]
          /\ UNCHANGED <<job, mealie, file, row>>
      BY <2>3 DEF ClaimImport, TypeOK
    <3> HIDE DEF claimed
    <3> QED
      BY <3>2, <3>4, <3>5, <3>6 DEF TypeOK
  <2>4. CASE ImportRefused(q)
    BY <2>1, <2>4, GoOnType DEF ImportRefused, TypeOK
  <2>5. ASSUME NEW s \in Slugs, Created(q, s)
        PROVE  mealie' \in [Slugs -> MealieRow]
    BY <2>1, <2>5 DEF Created, TypeOK, MealieRow
  <2>6. CASE CreateBlank(q)
    <3>1. PICK s \in Slugs :
            /\ Created(q, s)
            /\ req' = [req EXCEPT ![q].pc = "created", ![q].slug = s]
      BY <2>6 DEF CreateBlank
    <3>2. [req[q] EXCEPT !.pc = "created", !.slug = s] \in Request
      BY <2>1 DEF Request
    <3>3. req' \in [Requests -> Request]
      BY <3>1, <3>2 DEF TypeOK
    <3> QED
      BY <2>5, <2>6, <3>1, <3>3 DEF CreateBlank, TypeOK
  <2>7. CASE CreateFailed(q)
    BY <2>1, <2>7, GotoType DEF CreateFailed, TypeOK
  <2>8. CASE CreateReplyLost(q)
    BY <2>1, <2>5, <2>8, GotoType DEF CreateReplyLost, TypeOK
  <2>9. CASE RecordSlug(q)
    <3>1. rec' \in [Items -> RecordRow]
      BY <2>1, <2>9 DEF RecordSlug, TypeOK, RecordRow
    <3> QED
      BY <2>1, <2>9, <3>1, GotoType DEF RecordSlug, TypeOK
  <2>10. CASE PatchApplied(q)
    <3>1. mealie' \in [Slugs -> MealieRow]
      BY <2>10 DEF PatchApplied, TypeOK, MealieRow
    <3> QED
      BY <2>1, <2>10, <3>1, GotoType DEF PatchApplied, TypeOK
  <2>11. CASE ImportFailed(q)
    BY <2>1, <2>11, GotoType DEF ImportFailed, TypeOK
  <2>12. CASE DeleteCreated(q)
    <3>1. FreeSlug \in MealieRow
      BY DEF FreeSlug, MealieRow
    <3> QED
      BY <2>1, <2>12, <3>1, GotoType DEF DeleteCreated, TypeOK
  <2>13. CASE DeleteFailed(q)
    BY <2>1, <2>13, GotoType DEF DeleteFailed, TypeOK
  <2>14. req[q].it \in Items =>
           /\ [state |-> "imported", slug |-> req[q].slug] \in RecordRow
           /\ [rec[req[q].it] EXCEPT !.state = "rolled_back"] \in RecordRow
           /\ [rec[req[q].it] EXCEPT !.state = "orphaned"] \in RecordRow
    BY <2>1 DEF TypeOK, RecordRow
  <2>15. CASE ImportVerified(q) \/ ImportUndone(q) \/ ImportStranded(q)
    BY <2>1, <2>2, <2>14, <2>15
    DEF ImportVerified, ImportUndone, ImportStranded, MarkRecordImported, MarkRecordFailed
  <2> QED
    BY <2>3, <2>4, <2>6, <2>7, <2>8, <2>9, <2>10, <2>11, <2>12, <2>13, <2>15 DEF ImportStep
<1>11. ASSUME NEW q \in Requests, AutoImportStep(q)
       PROVE  TypeOK'
  <2> USE <1>11
  <2>1. /\ req[q] \in Request /\ req[q].job \in Jobs /\ req[q].set \in SUBSET Items
        /\ req[q].op \in AllOps
        /\ "approved_for_import" \in ItemStatus /\ "import" \in AllOps
        /\ {"approve", "start", "claim"} \subseteq PCs
    <3>1. req[q].pc \in {"choose", "approve", "start"}
      BY DEF AutoImportStep, ChooseNext, ApproveChosen, StartChosen
    <3>2. req[q] \in Request /\ HasTarget(req[q]) /\ req[q] # Idle
      BY <3>1 DEF TypeOK, Idle
    <3>3. req[q].op \in {"auto_import", "combined"}
      BY <3>1, <3>2 DEF HasTarget
    <3> QED
      BY <3>2, <3>3 DEF HasTarget, Request, ItemStatus, AllOps, PCs
  <2>2. ASSUME NEW op \in AllOps, NEW pc \in PCs, NEW i \in Items, NEW rest \in SUBSET Items
        PROVE  [ReadJob(op, req[q].job) EXCEPT !.pc = pc, !.it = i, !.seen = item[i],
                                               !.set = rest] \in Request
    <3>1. ReadJob(op, req[q].job) \in Request /\ item[i] \in ItemRow
      BY <2>1, ReadJobType DEF TypeOK
    <3> QED
      BY <3>1 DEF Request
  <2>3. CASE ChooseNext(q)
    <3> DEFINE rest(i) == req[q].set \ {i}
               next(i, pc) == [ReadJob(req[q].op, req[q].job) EXCEPT
                                 !.pc = pc, !.it = i, !.seen = item[i], !.set = rest(i)]
    <3>1. PICK i \in req[q].set, pc \in {"approve", "start"} :
            req' = [req EXCEPT ![q] = next(i, pc)] \/ StopOrGoOn(q, rest(i))
      BY <2>3 DEF ChooseNext
    <3>2. rest(i) \in SUBSET Items /\ i \in Items
      BY <2>1
    <3>3. next(i, pc) \in Request
      BY <2>1, <2>2, <3>2
    <3>4. req' \in [Requests -> Request]
      <4> HIDE DEF next, rest
      <4> QED
        BY <2>1, <3>1, <3>2, <3>3, GoOnType DEF TypeOK
    <3> QED
      BY <2>3, <3>4 DEF ChooseNext, TypeOK
  <2>4. CASE ApproveChosen(q)
    <3>1. req[q].it \in Items
      BY <2>4 DEF ApproveChosen, HasTarget
    <3>2. job' \in [Jobs -> JobStatus] /\ item' \in [Items -> ItemRow]
      BY <2>1, <2>4, <3>1, FlushType DEF ApproveChosen, TypeOK, ItemRow
    <3>3. job'[req[q].job] \in JobStatus /\ item'[req[q].it] \in ItemRow
      BY <2>1, <3>1, <3>2
    <3>4. [req[q] EXCEPT !.pc = "start", !.seen = item'[req[q].it],
                         !.sjob = job'[req[q].job]] \in Request
      BY <2>1, <3>3 DEF Request
    <3>5. req' \in [Requests -> Request]
      BY <2>4, <3>4 DEF ApproveChosen, TypeOK
    <3> QED
      BY <2>4, <3>2, <3>5 DEF ApproveChosen, TypeOK
  <2>5. CASE StartChosen(q)
    <3> DEFINE i == req[q].it
               next == [ReadJob("import", req[q].job) EXCEPT
                          !.pc = "claim", !.it = i, !.seen = item[i], !.set = req[q].set]
    <3>1. i \in Items
      BY <2>5 DEF StartChosen, HasTarget
    <3>2. next \in Request
      BY <2>1, <2>2, <3>1
    <3>3. req' = [req EXCEPT ![q] = next] \/ StopOrGoOn(q, req[q].set)
      BY <2>5 DEF StartChosen
    <3>4. req' \in [Requests -> Request]
      <4> HIDE DEF next
      <4> QED
        BY <2>1, <3>2, <3>3, GoOnType DEF TypeOK
    <3> QED
      BY <2>5, <3>4 DEF StartChosen, TypeOK
  <2> QED
    BY <2>3, <2>4, <2>5 DEF AutoImportStep
<1> QED
  BY <1>1, <1>2, <1>3, <1>4, <1>5, <1>6, <1>7, <1>8, <1>9, <1>10, <1>11 DEF Next, Progress

-----------------------------------------------------------------------------
(* One record per source revision *)

(* An item whose recipe is, or is about to be, in Mealie. *)
Live == {"importing", "imported"}

(***************************************************************************)
(* What the steps of the handlers have in common: they change no item of a *)
(* job that does not exist and no revision, they leave an item live only   *)
(* with a record, and they start at most one record, one that the unique   *)
(* index allows.                                                           *)
(***************************************************************************)
SafeStep ==
  /\ \A j \in Jobs : job[j] # "absent" => job'[j] # "absent"
  /\ \A i \in Items : item'[i] # item[i] =>
       job[i[1]] # "absent" /\ item'[i].rev = item[i].rev
  /\ \A i \in Items : item'[i].status \in Live =>
       item[i].status \in Live \/ rec'[i].state # "none"
  /\ \A i \in Items : rec'[i] # rec[i] =>
       job[i[1]] # "absent" /\ rec'[i].state # "none" /\ CanStartRecord(i)
  /\ \A i, k \in Items : rec'[i] # rec[i] /\ rec'[k] # rec[k] => i = k
  /\ \A p \in Requests : req'[p] = req[p] \/ HasTarget(req[p])'

(* An idle slot relies on nothing. *)
LEMMA IdleHasTarget == ASSUME NEW r, r = Idle PROVE HasTarget(r) /\ HasTarget(r)'
BY ImportAssumption DEF HasTarget, Idle, PastClaim

(* A step that only ever adds jobs and records keeps the invariant. *)
LEMMA SafeStepKeepsInvariant ==
  ASSUME TypeOK, ImportInvariant, SafeStep
  PROVE  ImportInvariant'
<1>1. \A i \in Items : i[1] \in Jobs
  BY DEF Items
<1>2. ASSUME NEW q \in Requests
      PROVE  HasTarget(req[q])'
  <2>1. CASE req'[q] = req[q]
    <3>1. HasTarget(req[q]) /\ req[q] \in Request
      BY DEF ImportInvariant, TypeOK
    <3>2. req[q].it # None => req[q].it \in Items
      BY <3>1 DEF Request
    <3>3. req[q].pc \in PastClaim => req[q].it \in Items
      BY <3>1 DEF HasTarget
    <3>4. \A i \in req[q].set : i \in Items
      BY <3>1 DEF Request
    <3> QED
      BY <2>1, <1>1, <3>1, <3>2, <3>3, <3>4 DEF HasTarget, SafeStep
  <2> QED
    BY <2>1 DEF SafeStep
<1>3. AbsentJobIsEmpty'
  BY <1>1 DEF ImportInvariant, AbsentJobIsEmpty, SafeStep
<1>4. ImportedHasRecord'
  BY DEF ImportInvariant, ImportedHasRecord, SafeStep, Live
<1>5. OneRecordPerRevision'
  <2> SUFFICES ASSUME NEW i \in Items, NEW k \in Items, i # k, SameKey(i, k)',
                      rec'[i].state # "none", rec'[k].state # "none"
               PROVE  FALSE
    BY DEF OneRecordPerRevision
  <2>1. SameKey(i, k) /\ SameKey(k, i)
    BY DEF SameKey, SafeStep
  <2>2. CASE rec'[i] = rec[i] /\ rec'[k] = rec[k]
    BY <2>1, <2>2 DEF ImportInvariant, OneRecordPerRevision
  <2>3. CASE rec'[i] # rec[i]
    <3>1. rec'[k] = rec[k] /\ CanStartRecord(i)
      BY <2>3 DEF SafeStep
    <3> QED
      BY <2>1, <3>1 DEF CanStartRecord, KeyTaken, ImportInvariant, OneRecordPerRevision
  <2>4. CASE rec'[k] # rec[k]
    <3>1. rec'[i] = rec[i] /\ CanStartRecord(k)
      BY <2>4 DEF SafeStep
    <3> QED
      BY <2>1, <3>1 DEF CanStartRecord, KeyTaken, ImportInvariant, OneRecordPerRevision
  <2> QED
    BY <2>2, <2>3, <2>4
<1> QED
  BY <1>2, <1>3, <1>4, <1>5 DEF ImportInvariant

(* A recount never makes a job disappear. *)
LEMMA WriteJobKeepsJobs ==
  ASSUME TypeOK, NEW q \in Requests, NEW status, status # "absent", WriteJob(q, status)
  PROVE  \A j \in Jobs : job[j] # "absent" => job'[j] # "absent"
BY DEF WriteJob, OrmSet, TypeOK

(* A recount of a job that exists never makes it disappear. *)
LEMMA RecountedIsNotAbsent ==
  ASSUME NEW q \in Requests, NEW rows
  PROVE  Recounted(q, rows) # "absent"
BY JobStatusAfterType DEF Recounted

(* An ended request has no target, and the others are left alone. *)
LEMMA FinishHasTarget ==
  ASSUME TypeOK, NEW q \in Requests, Finish(q)
  PROVE  \A p \in Requests : req'[p] = req[p] \/ HasTarget(req[p])'
BY IdleHasTarget DEF TypeOK, Finish

(* An automatic import keeps the items it has yet to look at. *)
LEMMA ChoosingHasTarget ==
  ASSUME TypeOK, NEW q \in Requests, NEW op \in {"auto_import", "combined"},
         NEW j \in Jobs, NEW items, \A i \in items : job'[i[1]] # "absent",
         req' = [req EXCEPT ![q] = Choosing(op, j, items)]
  PROVE  \A p \in Requests : req'[p] = req[p] \/ HasTarget(req[p])'
<1>1. req'[q] = Choosing(op, j, items) /\ \A p \in Requests \ {q} : req'[p] = req[p]
  BY DEF TypeOK
<1>2. CASE items = {}
  BY <1>1, <1>2, IdleHasTarget DEF Choosing
<1>3. CASE items # {}
  <2> DEFINE r == [Idle EXCEPT !.op = op, !.pc = "choose", !.job = j, !.set = items]
  <2>1. r.op = op /\ r.pc = "choose" /\ r.job = j /\ r.it = None /\ r.set = items
    BY DEF Idle
  <2>3. req'[q] = r
    BY <1>1, <1>3 DEF Choosing
  <2> HIDE DEF r
  <2>2. HasTarget(req[q])'
    BY <2>1, <2>3 DEF HasTarget, PastClaim
  <2> QED
    BY <1>1, <2>2
<1> QED
  BY <1>2, <1>3

(* An automatic import that stops, or goes on with the rest, keeps its target. *)
LEMMA GoOnHasTarget ==
  ASSUME TypeOK, NEW q \in Requests, NEW rest, req[q].job \in Jobs,
         \A i \in rest : job'[i[1]] # "absent",
         StopOrGoOn(q, rest) \/ GoOn(q, rest)
  PROVE  \A p \in Requests : req'[p] = req[p] \/ HasTarget(req[p])'
<1>1. CASE Finish(q)
  BY <1>1, FinishHasTarget
<1>2. CASE GoOn(q, rest)
  BY <1>2, ChoosingHasTarget DEF GoOn
<1> QED
  BY <1>1, <1>2 DEF StopOrGoOn

(***************************************************************************)
(* The commits that flush the item: `status` is not live, or the target    *)
(* has a record afterwards.                                                *)
(***************************************************************************)
LEMMA FlushSafe ==
  ASSUME TypeOK, ImportInvariant, NEW q \in Requests, NEW status, NEW json,
         Flush(q, status, json),
         status \notin Live \/ rec'[req[q].it].state # "none"
  PROVE  /\ \A j \in Jobs : job[j] # "absent" => job'[j] # "absent"
         /\ \A i \in Items : item'[i] # item[i] =>
              job[i[1]] # "absent" /\ item'[i].rev = item[i].rev
         /\ \A i \in Items : item'[i].status \in Live =>
              item[i].status \in Live \/ rec'[i].state # "none"
<1> DEFINE t == req[q].it
           rows == [item EXCEPT ![t] = OrmRow(@, req[q].seen, status, FALSE, json)]
<1>1. item' = rows /\ WriteJob(q, Recounted(q, rows))
  BY DEF Flush
<1>2. \A i \in Items : item'[i] # item[i] => i = t /\ t # None
  BY <1>1, ImportAssumption DEF TypeOK, Items
<1>3. \A i \in Items :
        /\ item'[i].rev = item[i].rev
        /\ item'[i].status = item[i].status \/ (i = t /\ item'[i].status = status)
  <2> TAKE i \in Items
  <2>1. CASE i # t
    BY <1>1, <2>1 DEF TypeOK
  <2>2. CASE i = t
    <3>1. item'[i] = OrmRow(item[i], req[q].seen, status, FALSE, json)
      BY <1>1, <2>2 DEF TypeOK
    <3> QED
      BY <2>2, <3>1 DEF OrmRow, OrmSet
  <2> QED
    BY <2>1, <2>2
<1>4. t # None => job[t[1]] # "absent"
  <2>1. HasTarget(req[q])
    BY DEF ImportInvariant
  <2> QED
    BY <2>1 DEF HasTarget
<1>5. \A i \in Items : item'[i].status \in Live =>
        item[i].status \in Live \/ (i = t /\ status \in Live)
  BY <1>3
<1>6. \A j \in Jobs : job[j] # "absent" => job'[j] # "absent"
  BY <1>1, RecountedIsNotAbsent, WriteJobKeepsJobs
<1> QED
  BY <1>2, <1>3, <1>4, <1>5, <1>6

(* The commit of a review handler or of reconcile_import is safe. *)
LEMMA SafeReviewCommit ==
  ASSUME TypeOK, ImportInvariant, NEW q \in Requests, ReviewCommit(q)
  PROVE  SafeStep
<1>1. /\ HasTarget(req[q]) /\ req[q] \in Request
      /\ req[q].it # None => job[req[q].it[1]] # "absent"
      /\ \A i \in req[q].set : job[i[1]] # "absent"
  BY DEF ImportInvariant, TypeOK, HasTarget
<1>2. None \notin Items
  BY ImportAssumption DEF Items
<1>3. CASE CommitApproveJob(q)
  BY <1>3, FinishHasTarget, WriteJobKeepsJobs DEF CommitApproveJob, SafeStep
<1>4. CASE CommitCancelJob(q)
  <2>1. \A i \in Items : \/ item'[i] = item[i]
                         \/ i \in req[q].set /\ item'[i] = [item[i] EXCEPT !.status = "cancelled"]
    BY <1>4 DEF CommitCancelJob, SetStatus
  <2>2. \A i \in Items : item'[i].rev = item[i].rev
                        /\ item'[i].status \in {item[i].status, "cancelled"}
    BY <2>1 DEF TypeOK, ItemRow
  <2> QED
    BY <1>1, <1>4, <2>1, <2>2, FinishHasTarget, WriteJobKeepsJobs
    DEF CommitCancelJob, SafeStep, Live
<1>5. ASSUME NEW status \in {"queued", "source_updated", "imported"},
             item' = [item EXCEPT ![req[q].it] =
                        OrmRow(@, req[q].seen, status, FALSE, @.json)]
      PROVE  /\ \A i \in Items : item'[i] # item[i] =>
                   job[i[1]] # "absent" /\ item'[i].rev = item[i].rev
             /\ \A i \in Items : item'[i].status \in Live =>
                   item[i].status \in Live \/ (i = req[q].it /\ status = "imported")
  <2>1. \A i \in Items : \/ item'[i] = item[i]
                         \/ /\ i = req[q].it
                            /\ item'[i] = OrmRow(item[i], req[q].seen, status, FALSE, item[i].json)
    BY <1>5 DEF TypeOK
  <2>2. \A i \in Items : /\ item'[i].rev = item[i].rev
                        /\ \/ item'[i].status = item[i].status
                           \/ i = req[q].it /\ item'[i].status = status
    <3> TAKE i \in Items
    <3>1. CASE item'[i] = item[i]
      BY <3>1
    <3>2. CASE i = req[q].it /\ item'[i] = OrmRow(item[i], req[q].seen, status, FALSE, item[i].json)
      BY <3>2 DEF OrmRow, OrmSet
    <3> QED
      BY <2>1, <3>1, <3>2
  <2>3. \A i \in Items : item'[i] # item[i] => job[i[1]] # "absent"
    BY <1>1, <1>2, <2>1
  <2>4. \A i \in Items : item'[i].status \in Live =>
          item[i].status \in Live \/ (i = req[q].it /\ status = "imported")
    BY <2>2 DEF Live
  <2> QED
    BY <2>2, <2>3, <2>4
<1>6. CASE CommitRetry(q)
  BY <1>5, <1>6, FinishHasTarget, WriteJobKeepsJobs DEF CommitRetry, SafeStep
<1>7. CASE CommitEdit(q) \/ CommitApprove(q) \/ CommitReject(q) \/ CommitRestore(q)
             \/ CommitRevalidate(q)
  <2>1. PICK status, json :
          /\ status \in {"review", "approved_for_import", "rejected"}
          /\ FlushAndRecount(q, status, json) /\ UNCHANGED rec
    BY <1>7 DEF CommitEdit, CommitApprove, CommitReject, CommitRestore, CommitRevalidate
  <2>2. status \notin Live
    BY <2>1 DEF Live
  <2> QED
    BY <2>1, <2>2, FlushSafe, FinishHasTarget DEF SafeStep, FlushAndRecount
<1>8. CASE CommitRevalidateStale(q)
  BY <1>5, <1>8, FinishHasTarget DEF CommitRevalidateStale, SafeStep
<1>9. CASE CommitReconcile(q)
  <2>1. req[q].it \in Items
    BY <1>1, <1>9 DEF CommitReconcile, Committing, HasTarget
  <2>2. CASE CanStartRecord(req[q].it)
    <3>1. /\ item' = [item EXCEPT ![req[q].it] =
                        OrmRow(@, req[q].seen, "imported", FALSE, @.json)]
          /\ rec' = [rec EXCEPT ![req[q].it] =
                       [state |-> "imported", slug |-> req[q].slug]]
          /\ WriteJob(q, Recounted(q, item)) /\ Finish(q)
      BY <1>9, <2>2 DEF CommitReconcile, UpsertReconciledRecord
    <3>2. \A i \in Items : rec'[i] # rec[i] => i = req[q].it
      BY <3>1 DEF TypeOK
    <3>3. rec'[req[q].it].state # "none"
      BY <2>1, <3>1 DEF TypeOK
    <3> QED
      BY <1>1, <1>2, <1>5, <2>1, <2>2, <3>1, <3>2, <3>3, FinishHasTarget,
         RecountedIsNotAbsent, WriteJobKeepsJobs
      DEF SafeStep
  <2>3. CASE ~CanStartRecord(req[q].it)
    BY <1>9, <2>3, FinishHasTarget DEF CommitReconcile, UpsertReconciledRecord, SafeStep
  <2> QED
    BY <2>2, <2>3
<1> QED
  BY <1>3, <1>4, <1>6, <1>7, <1>8, <1>9 DEF ReviewCommit

(***************************************************************************)
(* The steps of a normalization leave the records alone and never set an   *)
(* item to a live status; a request that goes on keeps a target that       *)
(* exists.                                                                 *)
(***************************************************************************)
LEMMA QuietStep ==
  ASSUME TypeOK, ImportInvariant, UNCHANGED rec,
         \A j \in Jobs : job[j] # "absent" => job'[j] # "absent",
         \A i \in Items : item'[i] # item[i] =>
           /\ job[i[1]] # "absent"
           /\ item'[i].rev = item[i].rev
           /\ item'[i].status \in Live => item[i].status \in Live,
         \A p \in Requests : req'[p] = req[p] \/ HasTarget(req[p])'
  PROVE  SafeStep
BY DEF SafeStep

(* The item chosen for normalization, and those skipped, belong to the job. *)
LEMMA PickItemHasTarget ==
  ASSUME TypeOK, ImportInvariant, NEW q \in Requests, NEW op \in ProcessOps, NEW j \in Jobs,
         NEW sjob, NEW items \in SUBSET Items, \A i \in items : job[i[1]] # "absent",
         PickItem(q, op, j, sjob, items), UNCHANGED <<job, rec>>
  PROVE  \A p \in Requests : req'[p] = req[p] \/ HasTarget(req[p])'
<1>1. PICK it \in IF Eligible(items) = {} THEN {None} ELSE Eligible(items) :
        req' = [req EXCEPT ![q] =
            [Idle EXCEPT
              !.op = op, !.pc = "claim", !.job = j, !.sjob = sjob, !.it = it,
              !.seen = IF it = None THEN NoRow ELSE item[it],
              !.set = Skipped(IF it = None THEN items ELSE Before(items, it))]]
  BY DEF PickItem
<1>2. it # None => job[it[1]] # "absent"
  BY DEF Eligible
<1>3. \A i \in Skipped(IF it = None THEN items ELSE Before(items, it)) : job[i[1]] # "absent"
  BY DEF Skipped, Before
<1>4. req'[q].op = op /\ req'[q].pc = "claim" /\ req'[q].job = j /\ req'[q].it = it
      /\ req'[q].set = Skipped(IF it = None THEN items ELSE Before(items, it))
  BY <1>1 DEF TypeOK, Idle
<1>5. HasTarget(req[q])'
  BY <1>2, <1>3, <1>4 DEF HasTarget, ProcessOps, PastClaim
<1> QED
  BY <1>1, <1>5 DEF TypeOK

(* Every step of a normalization is safe. *)
LEMMA SafeProcessStep ==
  ASSUME TypeOK, ImportInvariant, NEW q \in Requests, ProcessStep(q)
  PROVE  SafeStep
<1>1. /\ HasTarget(req[q]) /\ req[q] \in Request
      /\ req[q] # Idle => req[q].job \in Jobs
      /\ req[q].it # None => job[req[q].it[1]] # "absent"
      /\ \A i \in req[q].set : job[i[1]] # "absent"
      /\ req[q].it \in Items \cup {None} /\ req[q].set \in SUBSET Items
      /\ req[q].pc = "llm" => req[q].it \in Items
  BY DEF ImportInvariant, TypeOK, HasTarget, Request
<1>2. None \notin Items
  BY ImportAssumption DEF Items
<1> DEFINE t == req[q].it
           flushed == SetStatus(req[q].set, "cancelled")
<1>3. /\ \A i \in Items : flushed[i] # item[i] => job[i[1]] # "absent"
      /\ \A i \in Items : flushed[i].rev = item[i].rev
                         /\ flushed[i].status \in {item[i].status, "cancelled"}
      /\ DOMAIN flushed = Items
  BY <1>1 DEF SetStatus, TypeOK, ItemRow
<1>4. ASSUME NEW rows, DOMAIN rows = Items,
             \A i \in Items : rows[i] # item[i] => job[i[1]] # "absent",
             \A i \in Items : rows[i].rev = item[i].rev
                           /\ (rows[i].status \in Live => item[i].status \in Live),
             NEW r, t \in Items => r.rev = rows[t].rev,
             t \in Items => r.status \in {rows[t].status, "processing", "review", "failed",
                                          "source_updated"},
             item' = [rows EXCEPT ![t] = r]
      PROVE  \A i \in Items : item'[i] # item[i] =>
               /\ job[i[1]] # "absent"
               /\ item'[i].rev = item[i].rev
               /\ item'[i].status \in Live => item[i].status \in Live
  <2> SUFFICES ASSUME NEW i \in Items, item'[i] # item[i]
               PROVE  /\ job[i[1]] # "absent"
                      /\ item'[i].rev = item[i].rev
                      /\ item'[i].status \in Live => item[i].status \in Live
    OBVIOUS
  <2>1. CASE i # t
    BY <1>4, <2>1
  <2>2. CASE i = t
    <3>1. item'[i] = r
      BY <1>4, <2>2
    <3> QED
      BY <1>1, <1>2, <1>4, <2>2, <3>1 DEF Live
  <2> QED
    BY <2>1, <2>2
<1>5. CASE ProcessNothing(q)
  <2>1. item' = flushed /\ WriteJob(q, Recounted(q, flushed)) /\ Finish(q) /\ UNCHANGED rec
    BY <1>5 DEF ProcessNothing
  <2> QED
    BY <1>3, <2>1, QuietStep, FinishHasTarget, RecountedIsNotAbsent, WriteJobKeepsJobs DEF Live
<1>6. CASE ProcessStale(q)
  <2> DEFINE r == OrmRow(flushed[t], req[q].seen, "source_updated", FALSE, flushed[t].json)
  <2>1. /\ item' = [flushed EXCEPT ![t] = r]
        /\ WriteJob(q, Recounted(q, flushed)) /\ Finish(q) /\ UNCHANGED rec
    BY <1>6 DEF ProcessStale
  <2>2. r.rev = flushed[t].rev /\ r.status \in {flushed[t].status, "source_updated"}
    BY DEF OrmRow, OrmSet
  <2>3. \A i \in Items : item'[i] # item[i] =>
          /\ job[i[1]] # "absent"
          /\ item'[i].rev = item[i].rev
          /\ item'[i].status \in Live => item[i].status \in Live
    <3> HIDE DEF r, flushed, t
    <3>1. \A i \in Items : flushed[i].status \in Live => item[i].status \in Live
      BY <1>3 DEF Live
    <3> QED
      BY <1>3, <1>4, <2>1, <2>2, <3>1
  <2> QED
    BY <2>1, <2>3, QuietStep, FinishHasTarget, RecountedIsNotAbsent, WriteJobKeepsJobs
<1>7. CASE ClaimProcess(q)
  <2> DEFINE r == [flushed[t] EXCEPT !.status = "processing", !.infra = FALSE]
  <2>1. t \in Items /\ flushed[t] \in ItemRow
    BY <1>1, <1>7, SetStatusType DEF ClaimProcess, ItemStatus
  <2>2. /\ item' = [flushed EXCEPT ![t] = r]
        /\ WriteJob(q, "processing") /\ UNCHANGED rec
        /\ req' = [req EXCEPT ![q].pc = "llm", ![q].seen = item'[t],
                              ![q].sjob = "processing", ![q].set = {}]
        /\ AtClaim(q)
    BY <1>7 DEF ClaimProcess
  <2>3. r.rev = flushed[t].rev /\ r.status = "processing"
    BY <2>1 DEF ItemRow
  <2>4. \A i \in Items : item'[i] # item[i] =>
          /\ job[i[1]] # "absent"
          /\ item'[i].rev = item[i].rev
          /\ item'[i].status \in Live => item[i].status \in Live
    <3> HIDE DEF r, flushed, t
    <3>1. \A i \in Items : flushed[i].status \in Live => item[i].status \in Live
      BY <1>3 DEF Live
    <3> QED
      BY <1>3, <1>4, <2>2, <2>3, <3>1
  <2>5. \A j \in Jobs : job[j] # "absent" => job'[j] # "absent"
    BY <2>2, WriteJobKeepsJobs
  <2>6. \A p \in Requests : req'[p] = req[p] \/ HasTarget(req[p])'
    <3>1. /\ req'[q].op = req[q].op /\ req'[q].pc = "llm" /\ req'[q].job = req[q].job
          /\ req'[q].it = t /\ req'[q].set = {}
          /\ \A p \in Requests \ {q} : req'[p] = req[p]
      BY <1>1, <2>2 DEF TypeOK, Request
    <3>2. req[q] # Idle /\ req[q].op \in ProcessOps
      BY <2>2 DEF AtClaim, Idle
    <3>3. t[1] \in Jobs
      BY <2>1 DEF Items
    <3>4. HasTarget(req[q])'
      BY <1>1, <2>1, <2>5, <3>1, <3>2, <3>3 DEF HasTarget, PastClaim, ProcessOps
    <3> QED
      BY <3>1, <3>4
  <2> QED
    BY <2>2, <2>4, <2>5, <2>6, QuietStep
<1>8. CASE ClaimLost(q)
  BY <1>8, QuietStep, FinishHasTarget DEF ClaimLost
<1>9. ASSUME NEW r, t \in Items => r.rev = item[t].rev,
             t \in Items => r.status \in {item[t].status, "review", "failed"},
             item' = [item EXCEPT ![t] = r]
      PROVE  \A i \in Items : item'[i] # item[i] =>
               /\ job[i[1]] # "absent"
               /\ item'[i].rev = item[i].rev
               /\ item'[i].status \in Live => item[i].status \in Live
  BY <1>4, <1>9 DEF TypeOK
<1>10. CASE Normalized(q)
  <2> DEFINE r(v) == OrmRow(item[t], req[q].seen, "review", FALSE, v)
             rows(v) == [item EXCEPT ![t] = r(v)]
             next(v) == [Idle EXCEPT !.op = "process_batch", !.pc = "next",
                                     !.job = req[q].job, !.sjob = Recounted(q, rows(v))]
  <2>1. PICK v \in Results :
          /\ item' = rows(v)
          /\ WriteJob(q, Recounted(q, rows(v)))
          /\ \/ Finish(q)
             \/ req' = [req EXCEPT ![q] = next(v)]
             \/ req' = [req EXCEPT ![q] = Choosing("combined", req[q].job, {t})]
    BY <1>10 DEF Normalized
  <2>2. r(v).rev = item[t].rev /\ r(v).status \in {item[t].status, "review"}
    BY DEF OrmRow, OrmSet
  <2>3. \A i \in Items : item'[i] # item[i] =>
          /\ job[i[1]] # "absent"
          /\ item'[i].rev = item[i].rev
          /\ item'[i].status \in Live => item[i].status \in Live
    <3> HIDE DEF r, t
    <3> QED
      BY <1>9, <2>1, <2>2
  <2>4. \A j \in Jobs : job[j] # "absent" => job'[j] # "absent"
    BY <2>1, WriteJobKeepsJobs, RecountedIsNotAbsent
  <2>5. \A p \in Requests : req'[p] = req[p] \/ HasTarget(req[p])'
    <3>1. req[q].job \in Jobs
      BY <1>1, <1>10 DEF Normalized, Idle
    <3>2. /\ next(v).op = "process_batch" /\ next(v).pc = "next" /\ next(v).it = None
          /\ next(v).set = {} /\ next(v).job = req[q].job
      BY DEF Idle
    <3>3. CASE req' = [req EXCEPT ![q] = next(v)]
      <4> HIDE DEF next
      <4>1. req'[q] = next(v) /\ \A p \in Requests \ {q} : req'[p] = req[p]
        BY <3>3 DEF TypeOK
      <4>2. HasTarget(req[q])'
        BY <3>1, <3>2, <4>1 DEF HasTarget, PastClaim
      <4> QED
        BY <4>1, <4>2
    <3>4. CASE req' = [req EXCEPT ![q] = Choosing("combined", req[q].job, {t})]
      <4> DEFINE items == {t}
      <4>1. \A i \in items : job'[i[1]] # "absent"
        BY <1>1, <1>2, <1>10, <2>4 DEF Normalized, Items
      <4>2. req' = [req EXCEPT ![q] = Choosing("combined", req[q].job, items)]
        BY <3>4
      <4> HIDE DEF items
      <4> QED
        BY <3>1, <4>1, <4>2, ChoosingHasTarget
    <3> QED
      BY <2>1, <3>3, <3>4, FinishHasTarget
  <2> QED
    BY <1>10, <2>3, <2>4, <2>5, QuietStep DEF Normalized
<1>11. CASE NextOfBatch(q)
  <2>1. UNCHANGED <<job, item, rec>>
    BY <1>11 DEF NextOfBatch
  <2>2. CASE PickItem(q, "process_batch", req[q].job, req[q].sjob, Queued(req[q].job))
    <3>1. Queued(req[q].job) \in SUBSET Items /\ "process_batch" \in ProcessOps
      BY DEF Queued, ItemsOf, ProcessOps
    <3>2. \A i \in Queued(req[q].job) : job[i[1]] # "absent"
      BY DEF Queued, ItemsOf, ImportInvariant, AbsentJobIsEmpty, NoRow
    <3>3. req[q].job \in Jobs
      BY <1>1, <1>11 DEF NextOfBatch, Idle
    <3> QED
      BY <2>1, <2>2, <3>1, <3>2, <3>3, PickItemHasTarget, QuietStep
  <2> QED
    BY <1>11, <2>1, <2>2, QuietStep, FinishHasTarget DEF NextOfBatch
<1>12. CASE NormalizationFailed(q)
  <2> DEFINE j == req[q].job
             r(infra) == OrmRow(item[t], req[q].seen, "failed", infra, item[t].json)
             rows(infra) == [item EXCEPT ![t] = r(infra)]
             stored == OrmSet(job[j], req[q].sjob, Recounted(q, item))
             requeues == [Idle EXCEPT !.op = req[q].op, !.pc = "requeue", !.job = j]
             one == [requeues EXCEPT !.sjob = Recounted(q, item), !.set = {t}]
             all(infra) == [requeues EXCEPT !.sjob = stored,
                                            !.set = InfraFailures(j, rows(infra))]
  <2>1. PICK infra \in BOOLEAN :
          /\ item' = rows(infra)
          /\ req' = [req EXCEPT ![q] =
                       IF infra /\ req[q].op = "process_item" THEN one
                       ELSE IF infra /\ req[q].op = "combined" THEN all(infra)
                       ELSE Idle]
    BY <1>12 DEF NormalizationFailed, FailedRow
  <2>2. WriteJob(q, Recounted(q, item)) /\ UNCHANGED rec /\ t \in Items /\ j \in Jobs
    BY <1>1, <1>12 DEF NormalizationFailed, Idle
  <2>3. r(infra).rev = item[t].rev /\ r(infra).status \in {item[t].status, "failed"}
    BY DEF OrmRow, OrmSet
  <2>4. \A i \in Items : item'[i] # item[i] =>
          /\ job[i[1]] # "absent"
          /\ item'[i].rev = item[i].rev
          /\ item'[i].status \in Live => item[i].status \in Live
    <3> HIDE DEF r, t
    <3> QED
      BY <1>9, <2>1, <2>3
  <2>5. \A k \in Jobs : job[k] # "absent" => job'[k] # "absent"
    BY <2>2, WriteJobKeepsJobs, RecountedIsNotAbsent
  <2>6. \A i \in InfraFailures(j, rows(infra)) : job'[i[1]] # "absent"
    <3> HIDE DEF r, t
    <3>1. \A i \in InfraFailures(j, rows(infra)) : i \in Items /\ item'[i].status = "failed"
      BY <2>1 DEF InfraFailures
    <3>2. \A i \in Items : job[i[1]] = "absent" => item[i].status = "absent"
      BY DEF ImportInvariant, AbsentJobIsEmpty, NoRow
    <3>3. \A i \in InfraFailures(j, rows(infra)) : job[i[1]] # "absent" /\ i[1] \in Jobs
      BY <2>4, <3>1, <3>2 DEF Items
    <3> QED
      BY <2>5, <3>3
  <2>7. job'[t[1]] # "absent"
    BY <1>1, <1>2, <2>2, <2>5 DEF Items
  <2>8. \A x \in {one, all(infra)} :
          /\ x.op = req[q].op /\ x.pc = "requeue" /\ x.it = None /\ x.job = j
          /\ x.set \in {{t}, InfraFailures(j, rows(infra))}
    <3> HIDE DEF t, rows, stored
    <3> QED
      BY DEF Idle
  <2>9. ASSUME req[q].op \in {"process_item", "combined"}, NEW x \in {one, all(infra)},
               req'[q] = x
        PROVE  HasTarget(req[q])'
    <3> HIDE DEF one, all, rows
    <3> QED
      BY <2>2, <2>6, <2>7, <2>8, <2>9 DEF HasTarget, PastClaim
  <2>10. HasTarget(req[q])' /\ \A p \in Requests \ {q} : req'[p] = req[p]
    <3> HIDE DEF one, all
    <3> QED
      BY <2>1, <2>9, IdleHasTarget DEF TypeOK
  <2> QED
    BY <2>2, <2>4, <2>5, <2>10, QuietStep
<1>13. CASE CommitRequeue(q)
  <2>1. \A i \in Items : \/ item'[i] = item[i]
                         \/ /\ i \in req[q].set
                            /\ item'[i] = [item[i] EXCEPT !.status = "queued", !.infra = FALSE]
    BY <1>13 DEF CommitRequeue
  <2>2. \A i \in Items : item'[i] # item[i] =>
          /\ job[i[1]] # "absent"
          /\ item'[i].rev = item[i].rev
          /\ item'[i].status \in Live => item[i].status \in Live
    <3> TAKE i \in Items
    <3>1. item[i] \in ItemRow
      BY DEF TypeOK
    <3>2. CASE i \in req[q].set
               /\ item'[i] = [item[i] EXCEPT !.status = "queued", !.infra = FALSE]
      <4>1. item'[i].rev = item[i].rev /\ item'[i].status = "queued"
        BY <3>1, <3>2 DEF ItemRow
      <4> QED
        BY <1>1, <3>2, <4>1 DEF Live
    <3> QED
      BY <2>1, <3>2
  <2> QED
    BY <1>13, <2>2, QuietStep, FinishHasTarget, RecountedIsNotAbsent, WriteJobKeepsJobs
    DEF CommitRequeue
<1> QED
  BY <1>5, <1>6, <1>7, <1>8, <1>10, <1>11, <1>12, <1>13 DEF ProcessStep

(***************************************************************************)
(* The steps of an import: past the claim they find the record the claim   *)
(* started.                                                                *)
(***************************************************************************)
LEMMA SafeImportStep ==
  ASSUME TypeOK, ImportInvariant, NEW q \in Requests, ImportStep(q)
  PROVE  SafeStep
<1> DEFINE t == req[q].it
<1>1. req[q].op = "import"
  BY DEF ImportStep, ClaimImport, ImportRefused, CreateBlank, CreateFailed, CreateReplyLost,
         RecordSlug, PatchApplied, ImportFailed, ImportVerified, DeleteCreated, DeleteFailed,
         ImportUndone, ImportStranded, Created, Importing
<1>2. /\ HasTarget(req[q]) /\ req[q] \in Request /\ req[q] # Idle
      /\ t \in Items /\ job[t[1]] # "absent" /\ req[q].job \in Jobs
      /\ req[q].pc \in PastClaim => rec[t].state # "none"
  <2>1. HasTarget(req[q]) /\ req[q] \in Request /\ req[q] # Idle
    BY <1>1 DEF ImportInvariant, TypeOK, Idle
  <2>2. t \in Items
    BY <1>1, <2>1 DEF HasTarget
  <2> QED
    BY <2>1, <2>2, ImportAssumption DEF HasTarget, Items
<1>3. ASSUME req[q].pc \in PastClaim, UNCHANGED <<job, item>>,
             rec' = rec \/ \E s : rec' = [rec EXCEPT ![t].slug = s],
             NEW pc \in PastClaim, NEW s,
             req' = [req EXCEPT ![q].pc = pc, ![q].slug = s] \/ Goto(q, pc)
      PROVE  SafeStep
  <2>1. \A i \in Items : (rec'[i] = rec[i] \/ i = t) /\ rec'[i].state = rec[i].state
    <3> TAKE i \in Items
    <3>1. rec[i] \in RecordRow
      BY DEF TypeOK
    <3>2. ASSUME NEW x, rec' = [rec EXCEPT ![t].slug = x]
          PROVE  (rec'[i] = rec[i] \/ i = t) /\ rec'[i].state = rec[i].state
      BY <3>1, <3>2 DEF TypeOK, RecordRow
    <3> QED
      BY <1>3, <3>2
  <2>2. /\ \A p \in Requests \ {q} : req'[p] = req[p]
        /\ req'[q].op = req[q].op /\ req'[q].it = t /\ req'[q].set = req[q].set
        /\ req'[q].job = req[q].job /\ req'[q].pc = pc
    BY <1>2, <1>3 DEF TypeOK, Request, Goto
  <2>3. HasTarget(req[q])'
    BY <1>1, <1>2, <1>3, <2>1, <2>2 DEF HasTarget, PastClaim
  <2> QED
    BY <1>2, <1>3, <2>1, <2>2, <2>3 DEF SafeStep, CanStartRecord
<1>4. {"create", "created", "patch", "verify", "delete", "undone", "stranded"} \subseteq PCs
      /\ {"create", "created", "patch", "verify", "delete", "undone", "stranded"} = PastClaim
  BY DEF PCs, PastClaim
<1>5. CASE ClaimImport(q)
  <2> DEFINE claimed == [item[t] EXCEPT !.status = "importing", !.infra = FALSE]
  <2>1. /\ CanStartRecord(t)
        /\ item' = [item EXCEPT ![t] = claimed]
        /\ rec' = [rec EXCEPT ![t] = [state |-> "importing", slug |-> None]]
        /\ req' = [req EXCEPT ![q].pc = "create",
                              ![q].seen = [claimed EXCEPT !.json = req[q].seen.json]]
        /\ UNCHANGED job
    BY <1>5 DEF ClaimImport
  <2>2. claimed.rev = item[t].rev
    BY <1>2 DEF TypeOK, ItemRow
  <2>3. \A i \in Items : (i # t => item'[i] = item[i] /\ rec'[i] = rec[i])
    BY <2>1 DEF TypeOK
  <2>4. item'[t].rev = item[t].rev /\ rec'[t].state = "importing"
    BY <1>2, <2>1, <2>2 DEF TypeOK
  <2>5. /\ \A p \in Requests \ {q} : req'[p] = req[p]
        /\ req'[q].op = req[q].op /\ req'[q].it = t /\ req'[q].set = req[q].set
        /\ req'[q].job = req[q].job /\ req'[q].pc = "create"
    BY <1>2, <2>1 DEF TypeOK, Request
  <2>6. HasTarget(req[q])'
    BY <1>1, <1>2, <2>1, <2>4, <2>5 DEF HasTarget
  <2>7. /\ \A i \in Items : item'[i] # item[i] =>
             job[i[1]] # "absent" /\ item'[i].rev = item[i].rev
        /\ \A i \in Items : item'[i].status \in Live =>
             item[i].status \in Live \/ rec'[i].state # "none"
    <3> HIDE DEF t, claimed
    <3> QED
      BY <1>2, <2>3, <2>4
  <2>8. /\ \A i \in Items : rec'[i] # rec[i] =>
             job[i[1]] # "absent" /\ rec'[i].state # "none" /\ CanStartRecord(i)
        /\ \A i, k \in Items : rec'[i] # rec[i] /\ rec'[k] # rec[k] => i = k
    <3> HIDE DEF t, claimed
    <3> QED
      BY <1>2, <2>1, <2>3, <2>4
  <2> QED
    BY <2>1, <2>5, <2>6, <2>7, <2>8 DEF SafeStep
<1>10. \A i \in req[q].set : i \in Items /\ i[1] \in Jobs /\ job[i[1]] # "absent"
  BY <1>2 DEF HasTarget, Request, Items
<1>6. CASE ImportRefused(q)
  BY <1>2, <1>6, <1>10, GoOnHasTarget DEF ImportRefused, SafeStep
<1>7. CASE CreateBlank(q)
  BY <1>3, <1>4, <1>7 DEF CreateBlank, Created, Importing
<1>8. CASE \/ CreateFailed(q) \/ CreateReplyLost(q) \/ RecordSlug(q) \/ PatchApplied(q)
           \/ ImportFailed(q) \/ DeleteCreated(q) \/ DeleteFailed(q)
  <2>1. /\ req[q].pc \in PastClaim /\ UNCHANGED <<job, item>>
        /\ rec' = rec \/ \E s : rec' = [rec EXCEPT ![t].slug = s]
        /\ \E pc \in PastClaim : Goto(q, pc)
    BY <1>4, <1>8 DEF CreateFailed, CreateReplyLost, RecordSlug, PatchApplied, ImportFailed,
                      DeleteCreated, DeleteFailed, Created, Importing
  <2> QED
    BY <1>3, <1>4, <2>1
<1>9. CASE ImportVerified(q) \/ ImportUndone(q) \/ ImportStranded(q)
  <2>1. req[q].pc \in PastClaim
    BY <1>4, <1>9 DEF ImportVerified, ImportUndone, ImportStranded, Importing
  <2>2. PICK status, record :
          /\ SettleImport(q, status)
          /\ rec' = [rec EXCEPT ![t] = record]
          /\ StopOrGoOn(q, req[q].set) \/ GoOn(q, req[q].set)
          /\ record.state \in {"imported", "rolled_back", "orphaned"}
    <3>1. rec[t] \in RecordRow
      BY <1>2 DEF TypeOK
    <3>2. /\ [rec[t] EXCEPT !.state = "rolled_back"].state = "rolled_back"
          /\ [rec[t] EXCEPT !.state = "orphaned"].state = "orphaned"
      BY <3>1 DEF RecordRow
    <3>3. CASE ImportVerified(q)
      <4> DEFINE record == [state |-> "imported", slug |-> req[q].slug]
      <4>1. SettleImport(q, "imported") /\ rec' = [rec EXCEPT ![t] = record]
            /\ GoOn(q, req[q].set) /\ record.state = "imported"
        BY <3>3 DEF ImportVerified, MarkRecordImported
      <4> HIDE DEF record
      <4> QED
        BY <4>1
    <3>4. CASE ImportUndone(q)
      BY <3>2, <3>4 DEF ImportUndone, MarkRecordFailed
    <3>5. CASE ImportStranded(q)
      BY <3>2, <3>5 DEF ImportStranded, MarkRecordFailed
    <3> QED
      BY <1>9, <3>3, <3>4, <3>5
  <2>3. rec' = [rec EXCEPT ![t] = record]
        /\ Flush(q, status, item[t].json)
    BY <2>2 DEF SettleImport
  <2>4. rec'[t].state # "none" /\ \A i \in Items : i # t => rec'[i] = rec[i]
    BY <1>2, <2>2, <2>3 DEF TypeOK
  <2>5. /\ \A j \in Jobs : job[j] # "absent" => job'[j] # "absent"
        /\ \A i \in Items : item'[i] # item[i] =>
             job[i[1]] # "absent" /\ item'[i].rev = item[i].rev
        /\ \A i \in Items : item'[i].status \in Live =>
             item[i].status \in Live \/ rec'[i].state # "none"
    BY <2>3, <2>4, FlushSafe
  <2>6. \A p \in Requests : req'[p] = req[p] \/ HasTarget(req[p])'
    BY <1>2, <1>10, <2>2, <2>5, GoOnHasTarget
  <2> QED
    BY <1>2, <2>1, <2>4, <2>5, <2>6 DEF SafeStep, CanStartRecord
<1> QED
  BY <1>5, <1>6, <1>7, <1>8, <1>9 DEF ImportStep

(* The steps of an automatic import between two imports. *)
LEMMA SafeAutoImportStep ==
  ASSUME TypeOK, ImportInvariant, NEW q \in Requests, AutoImportStep(q)
  PROVE  SafeStep
<1> DEFINE t == req[q].it
<1>1. /\ req[q] \in Request /\ HasTarget(req[q]) /\ req[q].job \in Jobs
      /\ req[q].op \in {"auto_import", "combined"}
      /\ \A i \in req[q].set : i \in Items /\ i[1] \in Jobs /\ job[i[1]] # "absent"
  <2>1. req[q].pc \in {"choose", "approve", "start"}
    BY DEF AutoImportStep, ChooseNext, ApproveChosen, StartChosen
  <2>2. req[q] \in Request /\ HasTarget(req[q]) /\ req[q] # Idle
    BY <2>1 DEF ImportInvariant, TypeOK, Idle
  <2> QED
    BY <2>1, <2>2 DEF HasTarget, Request, Items
<1>2. ASSUME NEW r, req' = [req EXCEPT ![q] = r], UNCHANGED <<job, rec>>,
             r.job \in Jobs, r.it \in Items, job[r.it[1]] # "absent", r.set \subseteq req[q].set,
             \/ r.pc \in {"approve", "start"} /\ r.op = req[q].op
             \/ r.pc = "claim" /\ r.op = "import"
      PROVE  \A p \in Requests : req'[p] = req[p] \/ HasTarget(req[p])'
  <2>1. req'[q] = r /\ \A p \in Requests \ {q} : req'[p] = req[p]
    BY <1>2 DEF TypeOK
  <2>2. HasTarget(req[q])'
    BY <1>1, <1>2, <2>1 DEF HasTarget, PastClaim
  <2> QED
    BY <2>1, <2>2
<1>3. CASE ChooseNext(q)
  <2> DEFINE rest(i) == req[q].set \ {i}
             next(i, pc) == [ReadJob(req[q].op, req[q].job) EXCEPT
                               !.pc = pc, !.it = i, !.seen = item[i], !.set = rest(i)]
  <2>1. PICK i \in req[q].set, pc \in {"approve", "start"} :
          req' = [req EXCEPT ![q] = next(i, pc)] \/ StopOrGoOn(q, rest(i))
    BY <1>3 DEF ChooseNext
  <2>2. UNCHANGED <<job, item, rec>>
    BY <1>3 DEF ChooseNext
  <2>3. /\ next(i, pc).job = req[q].job /\ next(i, pc).it = i /\ next(i, pc).pc = pc
        /\ next(i, pc).set = rest(i) /\ next(i, pc).op = req[q].op
    BY DEF ReadJob, Idle
  <2>4. CASE req' = [req EXCEPT ![q] = next(i, pc)]
    <3> HIDE DEF next
    <3> QED
      BY <1>1, <1>2, <2>1, <2>2, <2>3, <2>4, QuietStep
  <2>5. CASE StopOrGoOn(q, rest(i))
    <3>1. \A k \in rest(i) : job'[k[1]] # "absent"
      BY <1>1, <2>2
    <3> HIDE DEF rest
    <3> QED
      BY <1>1, <2>2, <2>5, <3>1, GoOnHasTarget, QuietStep
  <2> QED
    BY <2>1, <2>4, <2>5
<1>4. CASE ApproveChosen(q)
  <2>1. /\ Flush(q, "approved_for_import", item[t].json) /\ UNCHANGED rec
        /\ req' = [req EXCEPT ![q].pc = "start", ![q].seen = item'[t],
                              ![q].sjob = job'[req[q].job]]
        /\ req[q].pc = "approve"
    BY <1>4 DEF ApproveChosen
  <2>2. /\ \A j \in Jobs : job[j] # "absent" => job'[j] # "absent"
        /\ \A i \in Items : item'[i] # item[i] =>
             job[i[1]] # "absent" /\ item'[i].rev = item[i].rev
        /\ \A i \in Items : item'[i].status \in Live =>
             item[i].status \in Live \/ rec'[i].state # "none"
    BY <2>1, FlushSafe DEF Live
  <2>3. t \in Items /\ t # None /\ job[t[1]] # "absent" /\ t[1] \in Jobs
    BY <1>1, <2>1, ImportAssumption DEF HasTarget, Items
  <2>4. /\ req'[q].op = req[q].op /\ req'[q].pc = "start" /\ req'[q].it = t
        /\ req'[q].set = req[q].set /\ req'[q].job = req[q].job
        /\ \A p \in Requests \ {q} : req'[p] = req[p]
    BY <1>1, <2>1 DEF TypeOK, Request
  <2>5. HasTarget(req[q])'
    BY <1>1, <2>2, <2>3, <2>4 DEF HasTarget, PastClaim
  <2> QED
    BY <2>1, <2>2, <2>4, <2>5 DEF SafeStep
<1>5. CASE StartChosen(q)
  <2> DEFINE next == [ReadJob("import", req[q].job) EXCEPT
                        !.pc = "claim", !.it = t, !.seen = item[t], !.set = req[q].set]
  <2>1. /\ req' = [req EXCEPT ![q] = next] \/ StopOrGoOn(q, req[q].set)
        /\ UNCHANGED <<job, item, rec>> /\ req[q].pc = "start"
    BY <1>5 DEF StartChosen
  <2>2. t \in Items /\ t # None /\ job[t[1]] # "absent"
    BY <1>1, <2>1, ImportAssumption DEF HasTarget, Items
  <2>3. /\ next.job = req[q].job /\ next.it = t /\ next.pc = "claim"
        /\ next.set = req[q].set /\ next.op = "import"
    BY DEF ReadJob, Idle
  <2>4. CASE req' = [req EXCEPT ![q] = next]
    <3> HIDE DEF next
    <3> QED
      BY <1>1, <1>2, <2>1, <2>2, <2>3, <2>4, QuietStep
  <2>5. CASE StopOrGoOn(q, req[q].set)
    BY <1>1, <2>1, <2>5, GoOnHasTarget, QuietStep
  <2> QED
    BY <2>1, <2>4, <2>5
<1> QED
  BY <1>3, <1>4, <1>5 DEF AutoImportStep

(* A request that starts has the target its first reads found. *)
LEMMA StartedIsSafe ==
  ASSUME TypeOK, ImportInvariant, NEW q \in Requests, NEW r, Start(q, r), HasTarget(r)',
         UNCHANGED <<job, item, rec>>
  PROVE  SafeStep
BY DEF SafeStep, Start, TypeOK

(* A request on a job starts safely. *)
LEMMA SafeJobRequest ==
  ASSUME TypeOK, ImportInvariant, NEW q \in Requests, JobRequest(q)
  PROVE  SafeStep
<1>1. \A i \in Items : item[i].status # "absent" => job[i[1]] # "absent"
  BY DEF ImportInvariant, AbsentJobIsEmpty, NoRow
<1>2. ASSUME NEW j \in Jobs, BeginApproveJob(q, j) \/ BeginCancelJob(q, j) \/ BeginRequeue(q, j)
      PROVE  SafeStep
  <2>1. ASSUME NEW r, Start(q, r), r.op \in {"approve_job", "cancel_job", "combined"},
               r.pc \in {"commit", "requeue"}, r.job = j, r.it = None,
               \A i \in r.set : job[i[1]] # "absent"
        PROVE  SafeStep
    <3>1. UNCHANGED <<job, item, rec>>
      BY <1>2 DEF BeginApproveJob, BeginCancelJob, BeginRequeue
    <3>2. HasTarget(r)'
      BY <2>1, <3>1 DEF HasTarget, PastClaim
    <3> QED
      BY <2>1, <3>1, <3>2, StartedIsSafe
  <2>2. CASE BeginApproveJob(q, j)
    <3> DEFINE r == ReadJob("approve_job", j)
    <3>1. Start(q, r)
      BY <2>2 DEF BeginApproveJob
    <3>2. r.op = "approve_job" /\ r.pc = "commit" /\ r.job = j /\ r.it = None /\ r.set = {}
      BY DEF ReadJob, Idle
    <3> HIDE DEF r
    <3> QED
      BY <2>1, <3>1, <3>2
  <2>3. CASE BeginCancelJob(q, j)
    <3> DEFINE r == [ReadJob("cancel_job", j) EXCEPT !.set = Cancellable(j)]
    <3>1. Start(q, r)
      BY <2>3 DEF BeginCancelJob
    <3>2. r.op = "cancel_job" /\ r.pc = "commit" /\ r.job = j /\ r.it = None
          /\ r.set = Cancellable(j)
      BY DEF ReadJob, Idle
    <3>3. \A i \in Cancellable(j) : job[i[1]] # "absent"
      BY <1>1 DEF Cancellable, ItemsOf
    <3> HIDE DEF r
    <3> QED
      BY <2>1, <3>1, <3>2, <3>3
  <2>4. CASE BeginRequeue(q, j)
    <3> DEFINE r == [ReadJob("combined", j) EXCEPT !.pc = "requeue",
                                                   !.set = InfraFailures(j, item)]
    <3>1. Start(q, r)
      BY <2>4 DEF BeginRequeue
    <3>2. r.op = "combined" /\ r.pc = "requeue" /\ r.job = j /\ r.it = None
          /\ r.set = InfraFailures(j, item)
      BY DEF ReadJob, Idle
    <3>3. \A i \in InfraFailures(j, item) : job[i[1]] # "absent"
      BY <1>1 DEF InfraFailures
    <3> HIDE DEF r
    <3> QED
      BY <2>1, <3>1, <3>2, <3>3
  <2> QED
    BY <1>2, <2>2, <2>3, <2>4
<1>3. ASSUME NEW j \in Jobs, NEW op \in ProcessOps, BeginProcess(q, op, j)
      PROVE  SafeStep
  <2>1. PICK target \in IF op = "process_item" THEN Queued(j) ELSE {None} :
          PickItem(q, op, j, job[j], Candidates(op, j, target))
    BY <1>3 DEF BeginProcess
  <2>2. Candidates(op, j, target) \subseteq Queued(j)
    BY DEF Candidates
  <2>3. Queued(j) \subseteq Items /\ \A i \in Queued(j) : job[i[1]] # "absent"
    BY <1>1 DEF Queued, ItemsOf
  <2>4. UNCHANGED <<job, item, rec>>
    BY <1>3 DEF BeginProcess
  <2> QED
    BY <2>1, <2>2, <2>3, <2>4, PickItemHasTarget, QuietStep
<1>4. ASSUME NEW j \in Jobs, BeginAutoImport(q, j)
      PROVE  SafeStep
  <2> DEFINE chosen(last) == {i \in CleanReviewed(j) : i[2] <= last[2]}
  <2>1. PICK last \in CleanReviewed(j) :
          Start(q, Choosing("auto_import", j, chosen(last)))
    BY <1>4 DEF BeginAutoImport
  <2>2. UNCHANGED <<job, item, rec>>
    BY <1>4 DEF BeginAutoImport
  <2>3. \A i \in chosen(last) : job'[i[1]] # "absent"
    BY <1>1, <2>2 DEF CleanReviewed, ItemsOf
  <2>6. \A p \in Requests : req'[p] = req[p] \/ HasTarget(req[p])'
    <3> HIDE DEF chosen
    <3> QED
      BY <2>1, <2>3, ChoosingHasTarget DEF Start
  <2> QED
    BY <2>2, <2>6, QuietStep
<1> QED
  BY <1>2, <1>3, <1>4 DEF JobRequest

(* A request on an item starts safely. *)
LEMMA SafeItemRequest ==
  ASSUME TypeOK, ImportInvariant, NEW q \in Requests, ItemRequest(q)
  PROVE  SafeStep
<1>1. PICK i \in Items : \/ \E op \in AllOps : BeginReview(q, op, i)
                         \/ BeginImport(q, i)
                         \/ BeginReconcile(q, i)
  BY DEF ItemRequest
<1>2. item[i].status # "absent" \/ item[i].json # "none" => job[i[1]] # "absent"
  BY DEF ImportInvariant, AbsentJobIsEmpty, NoRow
<1>3. i[1] \in Jobs
  BY DEF Items
<1>4. ASSUME NEW r, Start(q, r), r.job = i[1], r.it = i, r.set = {},
             r.pc \in {"commit", "claim"}, job[i[1]] # "absent", UNCHANGED <<job, item, rec>>
      PROVE  SafeStep
  <2>1. HasTarget(r)'
    BY <1>3, <1>4 DEF HasTarget, PastClaim
  <2> QED
    BY <1>4, <2>1, StartedIsSafe
<1>5. ASSUME NEW op \in AllOps, BeginReview(q, op, i)
      PROVE  SafeStep
  <2> DEFINE r == [ReadJob(op, i[1]) EXCEPT !.it = i, !.seen = item[i]]
  <2>1. Start(q, r) /\ UNCHANGED <<job, item, rec>> /\ CanRead(op, i)
    BY <1>5 DEF BeginReview
  <2>2. r.job = i[1] /\ r.it = i /\ r.set = {} /\ r.pc = "commit"
    BY DEF ReadJob, Idle
  <2>3. item[i].status # "absent"
    BY <2>1 DEF CanRead
  <2> HIDE DEF r
  <2> QED
    BY <1>2, <1>4, <2>1, <2>2, <2>3
<1>6. CASE BeginImport(q, i)
  <2> DEFINE r == [ReadJob("import", i[1]) EXCEPT !.pc = "claim", !.it = i, !.seen = item[i]]
  <2>1. Start(q, r) /\ UNCHANGED <<job, item, rec>> /\ item[i].json # "none"
    BY <1>6 DEF BeginImport, CanImport
  <2>2. r.job = i[1] /\ r.it = i /\ r.set = {} /\ r.pc = "claim"
    BY DEF ReadJob, Idle
  <2> HIDE DEF r
  <2> QED
    BY <1>2, <1>4, <2>1, <2>2
<1>7. CASE BeginReconcile(q, i)
  <2> DEFINE r(s) == [ReadJob("reconcile", i[1]) EXCEPT !.it = i, !.seen = item[i], !.slug = s]
  <2>1. PICK s \in Slugs : Start(q, r(s))
    BY <1>7 DEF BeginReconcile
  <2>2. UNCHANGED <<job, item, rec>> /\ item[i].json # "none"
    BY <1>7 DEF BeginReconcile
  <2>3. r(s).job = i[1] /\ r(s).it = i /\ r(s).set = {} /\ r(s).pc = "commit"
    BY DEF ReadJob, Idle
  <2> HIDE DEF r
  <2> QED
    BY <1>2, <1>4, <2>1, <2>2, <2>3
<1> QED
  BY <1>1, <1>5, <1>6, <1>7

-----------------------------------------------------------------------------
(* The invariant and what follows from it *)

(* Every step of the queue keeps the invariant. *)
LEMMA InvariantStep == TypeOK /\ ImportInvariant /\ [Next]_vars => ImportInvariant'
<1> SUFFICES ASSUME TypeOK, ImportInvariant, [Next]_vars
             PROVE  ImportInvariant'
  OBVIOUS
<1>1. CASE UNCHANGED vars
  BY <1>1 DEF vars, ImportInvariant, HasTarget, AbsentJobIsEmpty, ImportedHasRecord,
              OneRecordPerRevision, SameKey
<1>2. CASE ResetWorkingTree \/ SyncRows
  <2>1. SafeStep
    BY <1>2 DEF ResetWorkingTree, SyncRows, SafeStep
  <2> QED
    BY <2>1, SafeStepKeepsInvariant
<1>3. CASE Crash
  <2>1. SafeStep
    BY <1>3, IdleHasTarget DEF Crash, SafeStep
  <2> QED
    BY <2>1, SafeStepKeepsInvariant
<1>4. ASSUME NEW j \in Jobs, NEW selected \in SUBSET Recipes, CreateJob(j, selected)
      PROVE  ImportInvariant'
  <2>1. /\ job[j] = "absent" /\ job' = [job EXCEPT ![j] = "draft"] /\ UNCHANGED <<rec, req>>
        /\ \A i \in Items : /\ i[1] # j => item'[i] = item[i]
                            /\ item'[i].status \in {item[i].status, "queued"}
    <3>1. \A i \in Items : [NoRow EXCEPT !.status = "queued", !.rev = row[i[2]].rev].status = "queued"
      BY DEF NoRow
    <3> QED
      BY <1>4, <3>1 DEF CreateJob
  <2>2. \A k \in Jobs : job'[k] = "absent" => job[k] = "absent" /\ k # j
    BY <2>1 DEF TypeOK
  <2>3. \A i \in Items : i[1] \in Jobs
    BY DEF Items
  <2>4. \A i \in Items : i[1] = j => rec[i].state = "none"
    BY <2>1 DEF ImportInvariant, AbsentJobIsEmpty
  <2>5. ASSUME NEW q \in Requests
        PROVE  HasTarget(req[q])'
    <3>1. HasTarget(req[q]) /\ req[q].it \in Items \cup {None} /\ req[q].set \subseteq Items
      BY DEF ImportInvariant, TypeOK, Request
    <3> QED
      BY <2>1, <2>2, <2>3, <3>1 DEF HasTarget
  <2>6. AbsentJobIsEmpty'
    BY <2>1, <2>2, <2>3 DEF ImportInvariant, AbsentJobIsEmpty
  <2>7. ImportedHasRecord'
    BY <2>1 DEF ImportInvariant, ImportedHasRecord
  <2>8. OneRecordPerRevision'
    BY <2>1, <2>4 DEF ImportInvariant, OneRecordPerRevision, SameKey
  <2> QED
    BY <2>5, <2>6, <2>7, <2>8 DEF ImportInvariant
<1>5. ASSUME NEW q \in Requests, JobRequest(q) \/ ItemRequest(q) \/ Progress(q)
      PROVE  ImportInvariant'
  <2>1. SafeStep
    BY <1>5, SafeJobRequest, SafeItemRequest, SafeReviewCommit, SafeProcessStep, SafeImportStep,
       SafeAutoImportStep
    DEF Progress
  <2> QED
    BY <2>1, SafeStepKeepsInvariant
<1> QED
  BY <1>1, <1>2, <1>3, <1>4, <1>5 DEF Next

(* The empty queue satisfies the invariant. *)
LEMMA InitHolds == Init => TypeOK /\ ImportInvariant
<1> SUFFICES ASSUME Init PROVE TypeOK /\ ImportInvariant
  OBVIOUS
<1>1. TypeOK
  BY IdleType DEF Init, TypeOK, JobStatus, NoRow, ItemRow, ItemStatus, Verdicts, NoRecord,
                  RecordRow, RecordState, FreeSlug, MealieRow, SourceRow
<1>2. \A q \in Requests : HasTarget(req[q])
  BY IdleHasTarget DEF Init
<1>3. \A i \in Items : item[i] = NoRow /\ rec[i].state = "none"
  BY DEF Init, NoRecord
<1>4. NoRow.status = "absent"
  BY DEF NoRow
<1>5. AbsentJobIsEmpty /\ ImportedHasRecord /\ OneRecordPerRevision
  BY <1>3, <1>4 DEF AbsentJobIsEmpty, ImportedHasRecord, OneRecordPerRevision
<1> QED
  BY <1>1, <1>2, <1>5 DEF ImportInvariant

(***************************************************************************)
(* Type correctness, and the inductive invariant: whatever requests, of    *)
(* any number, interleave, crash and work on stale rows, the queue keeps   *)
(* one record per source revision.                                         *)
(***************************************************************************)
THEOREM TypeAndInvariant == Spec => [](TypeOK /\ ImportInvariant)
<1>1. TypeOK /\ ImportInvariant /\ [Next]_vars => (TypeOK /\ ImportInvariant)'
  BY TypeStep, InvariantStep DEF ImportInvariant
<1> QED
  BY InitHolds, <1>1, PTL DEF Spec

(* The tables and the requests of the queue stay well typed. *)
THEOREM ImportTypeOK == Spec => []TypeOK
BY TypeAndInvariant, PTL

(***************************************************************************)
(* Two items of one source revision are never both being imported or       *)
(* imported: start_import_record refuses the second key.                   *)
(***************************************************************************)
THEOREM ImportsAreExclusive == Spec => []OneItemPerRevision
<1>1. ImportInvariant => OneItemPerRevision
  BY DEF ImportInvariant, ImportedHasRecord, OneRecordPerRevision, OneItemPerRevision, SameKey
<1> QED
  BY TypeAndInvariant, <1>1, PTL

-----------------------------------------------------------------------------
(* One normalization of a source revision at a time *)

(***************************************************************************)
(* Nothing takes an item out of the hands of the handler that normalizes   *)
(* it: no reviewer cancels its job or retries it, no infrastructure error  *)
(* puts it back in the queue, and its source does not change.              *)
(***************************************************************************)
Undisturbed ==
  /\ {"cancel_job", "retry"} \cap Ops = {}
  /\ "source" \notin Faults
  /\ "llm_infra" \notin Faults \/ {"process_item", "combined"} \cap Ops = {}

(* The statuses of an item that has no result yet. *)
Waiting == {"absent", "queued", "processing"}

(* A processing handler that has picked its item and has not claimed it. *)
Claiming(r) == r.op \in ProcessOps /\ r.pc = "claim"

(***************************************************************************)
(* What a request knows of its items: the one it is about to normalize is  *)
(* still queued and no other item of the recipe is being normalized, the   *)
(* one it normalizes still says so, any other has left the queue.          *)
(***************************************************************************)
Works(r) ==
  /\ r.it # None /\ r.pc # "llm" /\ ~Claiming(r) => item[r.it].status \notin Waiting
  /\ Claiming(r) =>
       /\ \A i \in r.set : item[i].status = "queued"
       /\ r.it # None =>
            /\ item[r.it].status = "queued"
            /\ \A k \in Items \ {r.it} : k[2] = r.it[2] => item[k].status # "processing"
  /\ r.pc = "llm" =>
       /\ r.op \in ProcessOps
       /\ item[r.it].status = "processing" /\ r.seen.status = "processing"

(* What no operation or fault disturbs. *)
Calm(r) ==
  /\ r.sjob # "cancelled" /\ r.op \notin {"cancel_job", "retry"} /\ r.pc # "requeue"
  /\ "llm_infra" \in Faults => r.op \notin {"process_item", "combined"}

(* Without source changes the files, their rows and the items say the same. *)
RevisionsStay ==
  /\ \A r \in Recipes : file[r] = row[r].rev
  /\ \A i \in Items : item[i].status # "absent" => item[i].rev = row[i[2]].rev

(* Nothing is stored of an item before its normalization. *)
WaitingHasNoResult == \A i \in Items : item[i].status \in Waiting => item[i].json = "none"

(* Only infrastructure errors leave an item that a requeue would pick. *)
NothingRequeued == "llm_infra" \notin Faults => \A i \in Items : ~item[i].infra

(* A cancelled job would take its items out of the look-up of active ones. *)
NothingCancelled == \A j \in Jobs : job[j] # "cancelled"

(* The event loop runs one handler at a time. *)
OneHoldsTheLoop ==
  \A p, q \in Requests : p # q /\ req[p].pc \in LoopHeld => req[q].pc \notin LoopHeld

(* The items of one recipe are normalized one at a time. *)
OneProcessing ==
  \A i, k \in Items :
    i # k /\ i[2] = k[2] /\ item[i].status = "processing" => item[k].status # "processing"

(* Two handlers that await the model work on different items. *)
OneNormalizesEach ==
  \A p, q \in Requests :
    p # q /\ req[p].pc = "llm" /\ req[q].pc = "llm" => req[p].it # req[q].it

(***************************************************************************)
(* The inductive invariant.  A processing request holds the event loop     *)
(* from its look-up of other active items to its claim, and whoever may    *)
(* run meanwhile works on items that have left the queue.                  *)
(***************************************************************************)
NormalizationInvariant ==
  /\ RevisionsStay
  /\ WaitingHasNoResult
  /\ NothingRequeued
  /\ NothingCancelled
  /\ \A q \in Requests : Calm(req[q])
  /\ OneHoldsTheLoop
  /\ \A q \in Requests : Works(req[q])
  /\ OneProcessing
  /\ OneNormalizesEach

(* What holds before a step, where nothing takes items away. *)
Quiet == /\ TypeOK /\ ImportInvariant /\ NormalizationInvariant
         /\ Undisturbed

(***************************************************************************)
(* How a step of request q may change item i: out of the queue if q claims,*)
(* out of its normalization if q awaits the model, else only if it is past *)
(* both already.                                                           *)
(***************************************************************************)
Settles(q, i) ==
  \/ item'[i] = item[i]
  \/ /\ item'[i].rev = item[i].rev /\ item'[i].status \notin Waiting
     /\ "llm_infra" \notin Faults => ~item'[i].infra
     /\ item[i].status # "absent"
     /\ item[i].status = "queued" => Claiming(req[q])
     /\ item[i].status = "processing" => req[q].pc = "llm" /\ req[q].it = i

(* A job that is not cancelled is not cancelled by a recount. *)
LEMMA RecountGoesOn ==
  ASSUME Quiet, NEW q \in Requests, NEW rows
  PROVE  Recounted(q, rows) # "cancelled"
<1>1. req[q].sjob # "cancelled"
  BY DEF Quiet, NormalizationInvariant, Calm
<1> QED
  BY <1>1 DEF Recounted, JobStatusAfter

(* Writing another status cancels no job. *)
LEMMA WriteJobGoesOn ==
  ASSUME Quiet, NEW q \in Requests, NEW status, status # "cancelled", WriteJob(q, status)
  PROVE  \A j \in Jobs : job'[j] # "cancelled"
BY DEF Quiet, NormalizationInvariant, NothingCancelled, WriteJob, OrmSet, TypeOK

(* A step of a request that is not the claim of an item. *)
LEMMA StepStaysQuiet ==
  ASSUME Quiet, NEW q \in Requests, UNCHANGED <<file, row>>,
         \A j \in Jobs : job'[j] # "cancelled",
         \A i \in Items : Settles(q, i),
         \A p \in Requests \ {q} : req'[p] = req[p],
         Calm(req'[q]), Works(req[q])', req'[q].pc # "llm",
         req'[q].pc \in LoopHeld => req[q].pc \in LoopHeld \/ LoopFree(q)
  PROVE  NormalizationInvariant'
<1>1. RevisionsStay' /\ WaitingHasNoResult' /\ NothingRequeued' /\ NothingCancelled'
  BY DEF Quiet, NormalizationInvariant, RevisionsStay, WaitingHasNoResult, NothingRequeued,
         NothingCancelled, Settles
<1>2. \A p \in Requests : Calm(req[p])'
  BY DEF Quiet, NormalizationInvariant, Calm
<1>3. OneHoldsTheLoop'
  BY DEF Quiet, NormalizationInvariant, OneHoldsTheLoop, LoopFree
<1>4. OneProcessing'
  BY DEF Quiet, NormalizationInvariant, OneProcessing, Settles, Waiting
<1>5. OneNormalizesEach'
  BY DEF Quiet, NormalizationInvariant, OneNormalizesEach
<1>6. ASSUME NEW p \in Requests \ {q}
      PROVE  Works(req[p])'
  <2>1. req'[p] = req[p] /\ Works(req[p]) /\ req[p] \in Request
    BY <1>6 DEF Quiet, NormalizationInvariant, TypeOK
  <2>2. req[p].it \in Items \cup {None} /\ req[p].set \subseteq Items
        /\ (req[p].pc = "llm" => req[p].it \in Items)
    BY <2>1 DEF Request, Quiet, ImportInvariant, HasTarget
  <2>3. ASSUME NEW i \in Items, item[i].status \notin Waiting
        PROVE  item'[i].status \notin Waiting
    BY <2>3 DEF Settles
  <2>4. ASSUME NEW i \in Items, item[i].status = "queued", Claiming(req[p])
        PROVE  item'[i].status = "queued"
    <3>1. ~Claiming(req[q])
      BY <2>4, <1>6 DEF Claiming, LoopHeld, Quiet, NormalizationInvariant, OneHoldsTheLoop
    <3> QED
      BY <2>4, <3>1 DEF Settles
  <2>5. ASSUME NEW i \in Items, item[i].status # "processing"
        PROVE  item'[i].status # "processing"
    BY <2>5 DEF Settles, Waiting
  <2>6. ASSUME req[p].pc = "llm"
        PROVE  item'[req[p].it].status = "processing"
    <3>1. item[req[p].it].status = "processing" /\ req[p].it \in Items
      BY <2>1, <2>2, <2>6 DEF Works
    <3>2. ~(req[q].pc = "llm" /\ req[q].it = req[p].it)
      BY <1>6, <2>6 DEF Quiet, NormalizationInvariant, OneNormalizesEach
    <3> QED
      BY <3>1, <3>2 DEF Settles
  <2> QED
    BY <2>1, <2>2, <2>3, <2>4, <2>5, <2>6 DEF Works, Claiming
<1> QED
  BY <1>1, <1>2, <1>3, <1>4, <1>5, <1>6 DEF NormalizationInvariant

(* A step by which the request ends. *)
LEMMA FinishStaysQuiet ==
  ASSUME Quiet, NEW q \in Requests, Finish(q), UNCHANGED <<file, row>>,
         \A j \in Jobs : job'[j] # "cancelled", \A i \in Items : Settles(q, i)
  PROVE  NormalizationInvariant'
<1>1. req'[q] = Idle /\ \A p \in Requests \ {q} : req'[p] = req[p]
  BY DEF Finish, Quiet, TypeOK
<1>2. Calm(Idle) /\ Idle.pc \notin LoopHeld \cup {"llm"}
  BY DEF Calm, Idle, LoopHeld
<1>3. Works(req[q])'
  BY <1>1 DEF Works, Claiming, Idle, ProcessOps
<1> QED
  BY <1>1, <1>2, <1>3, StepStaysQuiet

(* A step by which an automatic import gets to its next items. *)
LEMMA ChoosingStaysQuiet ==
  ASSUME Quiet, NEW q \in Requests, NEW op \in {"auto_import", "combined"}, NEW j, NEW items,
         op = req[q].op \/ op = "auto_import",
         req' = [req EXCEPT ![q] = Choosing(op, j, items)], UNCHANGED <<file, row>>,
         \A k \in Jobs : job'[k] # "cancelled", \A i \in Items : Settles(q, i),
         req[q].pc \in LoopHeld \/ LoopFree(q)
  PROVE  NormalizationInvariant'
<1>1. CASE items = {}
  BY <1>1, FinishStaysQuiet DEF Choosing, Finish
<1>2. CASE items # {}
  <2> DEFINE r == [Idle EXCEPT !.op = op, !.pc = "choose", !.job = j, !.set = items]
  <2>1. r.op = op /\ r.pc = "choose" /\ r.it = None /\ r.sjob = "absent"
    BY DEF Idle
  <2>2. req'[q] = r /\ \A p \in Requests \ {q} : req'[p] = req[p]
    BY <1>2 DEF Choosing, Quiet, TypeOK
  <2>3. Calm(req[q])
    BY DEF Quiet, NormalizationInvariant
  <2> HIDE DEF r
  <2>4. Calm(req'[q]) /\ Works(req[q])'
    BY <2>1, <2>2, <2>3 DEF Calm, Works, Claiming
  <2>5. req'[q].pc # "llm"
    BY <2>1, <2>2
  <2> QED
    BY <2>2, <2>4, <2>5, StepStaysQuiet
<1> QED
  BY <1>1, <1>2

(* A step by which an automatic import stops or goes on. *)
LEMMA GoOnStaysQuiet ==
  ASSUME Quiet, NEW q \in Requests, NEW rest, StopOrGoOn(q, rest) \/ GoOn(q, rest),
         UNCHANGED <<file, row>>,
         \A j \in Jobs : job'[j] # "cancelled", \A i \in Items : Settles(q, i),
         req[q].pc \in LoopHeld \/ LoopFree(q)
  PROVE  NormalizationInvariant'
<1>1. CASE Finish(q)
  BY <1>1, FinishStaysQuiet
<1>2. CASE GoOn(q, rest)
  BY <1>2, ChoosingStaysQuiet DEF GoOn
<1> QED
  BY <1>1, <1>2 DEF StopOrGoOn

(***************************************************************************)
(* A step by which a request takes up, or keeps, an item that has left the *)
(* queue.                                                                  *)
(***************************************************************************)
LEMMA MovesOnQuietly ==
  ASSUME Quiet, NEW q \in Requests, UNCHANGED <<file, row>>,
         \A j \in Jobs : job'[j] # "cancelled", \A i \in Items : Settles(q, i),
         \A p \in Requests \ {q} : req'[p] = req[p],
         Calm(req'[q]), ~Claiming(req'[q]), req'[q].pc # "llm",
         req'[q].it \in Items => item'[req'[q].it].status \notin Waiting,
         req'[q].it \in Items \cup {None},
         req'[q].pc \in LoopHeld => req[q].pc \in LoopHeld \/ LoopFree(q)
  PROVE  NormalizationInvariant'
<1>1. Works(req[q])'
  BY DEF Works, Claiming
<1> QED
  BY <1>1, StepStaysQuiet

(* A handler past the queue works on an item past the queue. *)
LEMMA HandledItem ==
  ASSUME Quiet, NEW q \in Requests
  PROVE  /\ req[q] \in Request /\ Calm(req[q]) /\ Works(req[q]) /\ HasTarget(req[q])
         /\ req[q].it \in Items \cup {None} /\ None \notin Items
         /\ req[q].it \in Items /\ ~Claiming(req[q]) /\ req[q].pc # "llm"
              => item[req[q].it].status \notin Waiting
<1>1. None \notin Items
  BY ImportAssumption DEF Items
<1> QED
  BY <1>1 DEF Quiet, NormalizationInvariant, ImportInvariant, TypeOK, Request, Works

(* What the ORM leaves of a row past the queue is past the queue. *)
LEMMA OrmRowSettles ==
  ASSUME Quiet, NEW q \in Requests, NEW i \in Items, item[i].status \notin Waiting,
         NEW seen, NEW status, status \notin Waiting, NEW json,
         NEW infra, "llm_infra" \notin Faults => ~infra,
         item'[i] = OrmRow(item[i], seen, status, infra, json)
  PROVE  Settles(q, i) /\ item'[i].status \notin Waiting
<1>1. /\ item'[i].rev = item[i].rev
      /\ item'[i].status \in {item[i].status, status}
      /\ item'[i].infra \in {item[i].infra, infra}
  BY DEF OrmRow, OrmSet
<1>2. "llm_infra" \notin Faults => ~item[i].infra
  BY DEF Quiet, NormalizationInvariant, NothingRequeued
<1>3. "llm_infra" \notin Faults => ~item'[i].infra
  BY <1>1, <1>2
<1> QED
  BY <1>1, <1>3 DEF Settles, Waiting

(* The commits that flush an item past the queue. *)
LEMMA FlushSettles ==
  ASSUME Quiet, NEW q \in Requests, NEW status, status \notin Waiting, NEW json,
         Flush(q, status, json),
         req[q].it \in Items => item[req[q].it].status \notin Waiting
  PROVE  /\ \A i \in Items : Settles(q, i)
         /\ \A j \in Jobs : job'[j] # "cancelled"
         /\ req[q].it \in Items => item'[req[q].it].status \notin Waiting
<1> DEFINE t == req[q].it
<1>1. /\ item' = [item EXCEPT ![t] = OrmRow(@, req[q].seen, status, FALSE, json)]
      /\ \E rows : WriteJob(q, Recounted(q, rows))
  BY DEF Flush
<1>2. \A j \in Jobs : job'[j] # "cancelled"
  BY <1>1, RecountGoesOn, WriteJobGoesOn
<1>3. DOMAIN item = Items
  BY DEF Quiet, TypeOK
<1>4. ASSUME NEW i \in Items, i # t
      PROVE  Settles(q, i)
  BY <1>1, <1>3, <1>4 DEF Settles
<1>5. ASSUME t \in Items
      PROVE  Settles(q, t) /\ item'[t].status \notin Waiting
  <2>1. item'[t] = OrmRow(item[t], req[q].seen, status, FALSE, json)
    BY <1>1, <1>3, <1>5
  <2> QED
    BY <1>5, <2>1, OrmRowSettles
<1> QED
  BY <1>2, <1>4, <1>5

(* The commits of the review handlers and of reconcile_import. *)
LEMMA ReviewCommitQuiet ==
  ASSUME Quiet, NEW q \in Requests, ReviewCommit(q)
  PROVE  NormalizationInvariant'
<1> DEFINE t == req[q].it
<1>1. /\ Calm(req[q])
      /\ t \in Items /\ req[q].pc = "commit" => item[t].status \notin Waiting
      /\ DOMAIN item = Items
  BY HandledItem DEF Claiming, Quiet, TypeOK
<1>2. ASSUME NEW status \in {"review", "approved_for_import", "rejected"}, NEW json,
             req[q].pc = "commit", FlushAndRecount(q, status, json), UNCHANGED <<file, row>>
      PROVE  NormalizationInvariant'
  <2>1. Flush(q, status, json) /\ Finish(q)
    BY <1>2 DEF FlushAndRecount
  <2>2. status \notin Waiting
    BY DEF Waiting
  <2> QED
    BY <1>1, <1>2, <2>1, <2>2, FlushSettles, FinishStaysQuiet
<1>3. ASSUME NEW status \in {"source_updated", "imported"}, req[q].pc = "commit",
             item' = [item EXCEPT ![t] = OrmRow(@, req[q].seen, status, FALSE, @.json)]
      PROVE  \A i \in Items : Settles(q, i)
  <2> TAKE i \in Items
  <2>1. CASE i # t
    BY <1>1, <1>3, <2>1 DEF Settles
  <2>2. CASE i = t
    <3>1. item'[t] = OrmRow(item[t], req[q].seen, status, FALSE, item[t].json)
      BY <1>1, <1>3, <2>2
    <3>2. status \notin Waiting
      BY DEF Waiting
    <3> QED
      BY <1>1, <1>3, <2>2, <3>1, <3>2, OrmRowSettles
  <2> QED
    BY <2>1, <2>2
<1>4. CASE CommitApproveJob(q)
  <2>1. \A i \in Items : Settles(q, i)
    BY <1>4 DEF CommitApproveJob, Settles
  <2>2. \A j \in Jobs : job'[j] # "cancelled"
    BY <1>4, WriteJobGoesOn DEF CommitApproveJob
  <2> QED
    BY <1>4, <2>1, <2>2, FinishStaysQuiet DEF CommitApproveJob
<1>5. CASE CommitCancelJob(q) \/ CommitRetry(q)
  BY <1>1, <1>5 DEF CommitCancelJob, CommitRetry, Committing, Calm
<1>6. CASE CommitEdit(q) \/ CommitApprove(q) \/ CommitReject(q) \/ CommitRestore(q)
           \/ CommitRevalidate(q)
  BY <1>2, <1>6 DEF CommitEdit, CommitApprove, CommitReject, CommitRestore, CommitRevalidate,
                    Committing
<1>7. CASE CommitRevalidateStale(q)
  <2>1. \A i \in Items : Settles(q, i)
    BY <1>3, <1>7 DEF CommitRevalidateStale, Committing
  <2>2. \A j \in Jobs : job'[j] # "cancelled"
    BY <1>7 DEF CommitRevalidateStale, Quiet, NormalizationInvariant, NothingCancelled
  <2> QED
    BY <1>7, <2>1, <2>2, FinishStaysQuiet DEF CommitRevalidateStale
<1>8. CASE CommitReconcile(q)
  <2>1. (\A i \in Items : Settles(q, i)) /\ (\A j \in Jobs : job'[j] # "cancelled")
    <3>1. CASE CanStartRecord(t)
      <4>1. /\ item' = [item EXCEPT ![t] = OrmRow(@, req[q].seen, "imported", FALSE, @.json)]
            /\ WriteJob(q, Recounted(q, item))
        BY <1>8, <3>1 DEF CommitReconcile
      <4> QED
        BY <1>3, <1>8, <4>1, RecountGoesOn, WriteJobGoesOn DEF CommitReconcile, Committing
    <3>2. CASE ~CanStartRecord(t)
      <4>1. UNCHANGED <<job, item>>
        BY <1>8, <3>2 DEF CommitReconcile, UpsertReconciledRecord
      <4> QED
        BY <4>1 DEF Settles, Quiet, NormalizationInvariant, NothingCancelled
    <3> QED
      BY <3>1, <3>2
  <2> QED
    BY <1>8, <2>1, FinishStaysQuiet DEF CommitReconcile
<1> QED
  BY <1>4, <1>5, <1>6, <1>7, <1>8 DEF ReviewCommit

(* An item that can be picked has no other item of its recipe at the model. *)
LEMMA PickItemQuiet ==
  ASSUME Quiet, NEW q \in Requests, NEW op \in ProcessOps, NEW j, NEW sjob, NEW items,
         PickItem(q, op, j, sjob, items), UNCHANGED <<job, item, file, row>>,
         "llm_infra" \in Faults => op \notin {"process_item", "combined"},
         \A i \in items : i \in Items /\ item[i].status = "queued",
         req[q].pc \in LoopHeld \/ LoopFree(q)
  PROVE  NormalizationInvariant'
<1>1. sjob # "cancelled"
  BY DEF PickItem
<1>2. PICK it \in IF Eligible(items) = {} THEN {None} ELSE Eligible(items) :
        req' = [req EXCEPT ![q] =
          [Idle EXCEPT
            !.op = op, !.pc = "claim", !.job = j, !.sjob = sjob, !.it = it,
            !.seen = IF it = None THEN NoRow ELSE item[it],
            !.set = Skipped(IF it = None THEN items ELSE Before(items, it))]]
  BY DEF PickItem
<1>3. /\ req'[q].op = op /\ req'[q].pc = "claim" /\ req'[q].sjob = sjob /\ req'[q].it = it
      /\ req'[q].set = Skipped(IF it = None THEN items ELSE Before(items, it))
      /\ \A p \in Requests \ {q} : req'[p] = req[p]
  BY <1>2 DEF Idle, Quiet, TypeOK
<1>4. \A i \in req'[q].set : item'[i].status = "queued"
  BY <1>3 DEF Skipped, Before
<1>5. ASSUME it # None
      PROVE  /\ item'[it].status = "queued"
             /\ \A k \in Items \ {it} : k[2] = it[2] => item'[k].status # "processing"
  <2>1. it \in Eligible(items)
    BY <1>2, <1>5
  <2>2. it \in items /\ ~ActiveItem(it[2], {it})
    BY <2>1 DEF Eligible
  <2>3. ASSUME NEW k \in Items \ {it}, k[2] = it[2], item[k].status = "processing"
        PROVE  FALSE
    <3>1. k[1] \in Jobs
      BY DEF Items
    <3>2. item[k].rev = row[it[2]].rev /\ job[k[1]] # "cancelled"
      BY <2>3, <3>1 DEF Quiet, NormalizationInvariant, RevisionsStay, NothingCancelled
    <3> QED
      BY <2>2, <2>3, <3>2 DEF ActiveItem, DUPLICATE_ACTIVE_ITEM_STATUSES
  <2> QED
    BY <2>2, <2>3
<1>6. Works(req[q])'
  BY <1>3, <1>4, <1>5 DEF Works, Claiming
<1>7. Calm(req'[q])
  BY <1>1, <1>3 DEF Calm, ProcessOps
<1>8. \A i \in Items : Settles(q, i)
  BY DEF Settles
<1>9. \A k \in Jobs : job'[k] # "cancelled"
  BY DEF Quiet, NormalizationInvariant, NothingCancelled
<1>10. req'[q].pc # "llm"
  BY <1>3
<1> QED
  BY <1>3, <1>6, <1>7, <1>8, <1>9, <1>10, StepStaysQuiet

(* The items skipped by a processing request leave the queue. *)
LEMMA SkippedSettles ==
  ASSUME Quiet, NEW q \in Requests, AtClaim(q), NEW i \in Items,
         item'[i] = SetStatus(req[q].set, "cancelled")[i]
  PROVE  Settles(q, i)
<1>1. Claiming(req[q])
  BY DEF AtClaim, Claiming
<1>2. i \in req[q].set => item[i].status = "queued"
  BY <1>1, HandledItem DEF Works
<1>3. item'[i] = IF i \in req[q].set THEN [item[i] EXCEPT !.status = "cancelled"] ELSE item[i]
  BY DEF SetStatus
<1>4. item[i] \in ItemRow
  BY DEF Quiet, TypeOK
<1>5. CASE i \in req[q].set
  <2>1. item'[i].status = "cancelled" /\ item'[i].rev = item[i].rev
        /\ item'[i].infra = item[i].infra
    BY <1>3, <1>4, <1>5 DEF ItemRow
  <2>2. "llm_infra" \notin Faults => ~item'[i].infra
    BY <2>1 DEF Quiet, NormalizationInvariant, NothingRequeued
  <2> QED
    BY <1>1, <1>2, <1>5, <2>1, <2>2 DEF Settles, Waiting
<1>6. CASE i \notin req[q].set
  BY <1>3, <1>6 DEF Settles
<1> QED
  BY <1>5, <1>6

(* The file of an item that has left its job's creation is unchanged. *)
LEMMA SourceUnchanged ==
  ASSUME Quiet, NEW i \in Items, item[i].status # "absent"
  PROVE  SourceMatches(i)
<1>1. i[2] \in Recipes
  BY DEF Items
<1> QED
  BY <1>1 DEF Quiet, NormalizationInvariant, RevisionsStay, SourceMatches

(* The claim of an item: no other item of its recipe is being normalized. *)
LEMMA ClaimQuiet ==
  ASSUME Quiet, NEW q \in Requests, ClaimProcess(q)
  PROVE  NormalizationInvariant'
<1> DEFINE t == req[q].it
<1>1. /\ AtClaim(q) /\ Claiming(req[q]) /\ t \in Items /\ item[t].status = "queued"
      /\ req[q].pc = "claim" /\ UNCHANGED <<file, row>>
  BY HandledItem DEF ClaimProcess, AtClaim, Claiming, ClaimableForProcessing
<1>2. item' = [SetStatus(req[q].set, "cancelled") EXCEPT
                 ![t].status = "processing", ![t].infra = FALSE]
  BY DEF ClaimProcess
<1>3. /\ SetStatus(req[q].set, "cancelled")[t].rev = item[t].rev
      /\ SetStatus(req[q].set, "cancelled")[t].json = item[t].json
      /\ SetStatus(req[q].set, "cancelled")[t] \in ItemRow
      /\ DOMAIN SetStatus(req[q].set, "cancelled") = Items
  <2>1. item[t] \in ItemRow
    BY <1>1 DEF Quiet, TypeOK
  <2> QED
    BY <1>1, <2>1 DEF SetStatus, ItemRow, ItemStatus
<1>4. /\ item'[t].status = "processing" /\ item'[t].rev = item[t].rev
      /\ item'[t].json = item[t].json /\ item'[t].infra = FALSE
  <2> DEFINE rows == SetStatus(req[q].set, "cancelled")
  <2> HIDE DEF rows
  <2>1. item' = [rows EXCEPT ![t].status = "processing", ![t].infra = FALSE]
    BY <1>2 DEF rows
  <2>2. rows[t].rev = item[t].rev /\ rows[t].json = item[t].json /\ rows[t] \in ItemRow
        /\ DOMAIN rows = Items
    BY <1>3 DEF rows
  <2> QED
    BY <1>1, <2>1, <2>2 DEF ItemRow
<1>5. ASSUME NEW k \in Items, k # t
      PROVE  Settles(q, k)
  <2>1. item'[k] = SetStatus(req[q].set, "cancelled")[k]
    BY <1>1, <1>2, <1>3, <1>5
  <2> QED
    BY <1>1, <2>1, SkippedSettles
<1>6. /\ req'[q].pc = "llm" /\ req'[q].it = t /\ req'[q].sjob = "processing"
      /\ req'[q].op = req[q].op /\ req'[q].seen = item'[t]
      /\ \A p \in Requests \ {q} : req'[p] = req[p]
  BY DEF ClaimProcess, Quiet, TypeOK, Request
<1>7. \A k \in Items \ {t} : k[2] = t[2] => item[k].status # "processing"
  BY <1>1, HandledItem DEF Works
<1>8. \A j \in Jobs : job'[j] # "cancelled"
  BY WriteJobGoesOn DEF ClaimProcess
<1>9. RevisionsStay' /\ NothingRequeued' /\ NothingCancelled' /\ WaitingHasNoResult'
  BY <1>1, <1>4, <1>5, <1>8
  DEF Quiet, NormalizationInvariant, RevisionsStay, WaitingHasNoResult, NothingRequeued,
      NothingCancelled, Settles, Waiting
<1>10. \A p \in Requests : Calm(req[p])'
  BY <1>6 DEF Quiet, NormalizationInvariant, Calm
<1>11. OneHoldsTheLoop'
  BY <1>6 DEF Quiet, NormalizationInvariant, OneHoldsTheLoop, LoopHeld
<1>12. \A k \in Items \ {t} : item[k].status # "processing" => item'[k].status # "processing"
  BY <1>5 DEF Settles, Waiting
<1>13. OneProcessing'
  BY <1>4, <1>7, <1>12 DEF Quiet, NormalizationInvariant, OneProcessing
<1>14. ASSUME NEW p \in Requests \ {q}
       PROVE  Works(req[p])' /\ (req[p].pc = "llm" => req[p].it # t)
  <2>1. /\ req'[p] = req[p] /\ Works(req[p]) /\ req[p].it \in Items \cup {None}
        /\ (req[p].pc = "llm" => req[p].it \in Items) /\ None \notin Items
    BY <1>6, <1>14, HandledItem DEF HasTarget
  <2>2. ~Claiming(req[p])
    BY <1>1, <1>14 DEF Claiming, LoopHeld, Quiet, NormalizationInvariant, OneHoldsTheLoop
  <2>3. ASSUME NEW i \in Items, item[i].status \notin Waiting
        PROVE  item'[i].status \notin Waiting
    <3>1. i # t
      BY <1>1, <2>3 DEF Waiting
    <3> QED
      BY <1>5, <2>3, <3>1 DEF Settles
  <2>4. ASSUME req[p].pc = "llm"
        PROVE  req[p].it # t /\ item'[req[p].it].status = "processing"
               /\ req[p].seen.status = "processing"
    <3>1. req[p].it \in Items /\ item[req[p].it].status = "processing"
          /\ req[p].seen.status = "processing"
      BY <2>1, <2>4 DEF Works
    <3>2. req[p].it # t
      BY <1>1, <3>1
    <3> QED
      BY <1>1, <1>5, <3>1, <3>2 DEF Settles
  <2> QED
    BY <2>1, <2>2, <2>3, <2>4 DEF Works, Claiming
<1>15. Works(req[q])'
  BY <1>1, <1>4, <1>6 DEF Works, Claiming
<1>16. OneNormalizesEach'
  BY <1>6, <1>14 DEF Quiet, NormalizationInvariant, OneNormalizesEach
<1>17. \A p \in Requests : Works(req[p])'
  BY <1>14, <1>15
<1> QED
  BY <1>9, <1>10, <1>11, <1>13, <1>16, <1>17 DEF NormalizationInvariant

(* The steps of the handlers that process an item. *)
LEMMA ProcessStepQuiet ==
  ASSUME Quiet, NEW q \in Requests, ProcessStep(q)
  PROVE  NormalizationInvariant'
<1> DEFINE t == req[q].it
<1>1. Calm(req[q]) /\ Works(req[q]) /\ (req[q].pc = "llm" => t \in Items) /\ DOMAIN item = Items
  BY HandledItem DEF HasTarget, Quiet, TypeOK
<1>2. UNCHANGED job => \A j \in Jobs : job'[j] # "cancelled"
  BY DEF Quiet, NormalizationInvariant, NothingCancelled
<1>3. CASE ProcessNothing(q)
  <2>1. \A i \in Items : Settles(q, i)
    BY <1>3, SkippedSettles DEF ProcessNothing
  <2>2. \A j \in Jobs : job'[j] # "cancelled"
    BY <1>3, RecountGoesOn, WriteJobGoesOn DEF ProcessNothing
  <2> QED
    BY <1>3, <2>1, <2>2, FinishStaysQuiet DEF ProcessNothing
<1>4. CASE ProcessStale(q)
  <2>1. t \in Items /\ item[t].status = "queued" /\ ~SourceMatches(t)
    BY <1>4, HandledItem DEF ProcessStale, AtClaim, Claiming, Works
  <2> QED
    BY <2>1, SourceUnchanged
<1>5. CASE ClaimProcess(q)
  BY <1>5, ClaimQuiet
<1>6. CASE ClaimLost(q)
  <2>1. \A i \in Items : Settles(q, i)
    BY <1>6 DEF ClaimLost, Settles
  <2> QED
    BY <1>2, <1>6, <2>1, FinishStaysQuiet DEF ClaimLost
<1>7. ASSUME NEW status \in {"review", "failed"}, NEW infra \in BOOLEAN, NEW json,
             "llm_infra" \notin Faults => ~infra, req[q].pc = "llm",
             item' = [item EXCEPT ![t] = OrmRow(@, req[q].seen, status, infra, json)]
      PROVE  (\A i \in Items : Settles(q, i)) /\ item'[t].status = status
  <2>1. item'[t] = OrmRow(item[t], req[q].seen, status, infra, json)
    BY <1>1, <1>7
  <2>2. /\ item'[t].rev = item[t].rev /\ item'[t].status = status
        /\ item'[t].infra \in {item[t].infra, infra}
    BY <1>1, <1>7, <2>1 DEF Works, OrmRow, OrmSet
  <2>3. Settles(q, t)
    BY <1>1, <1>7, <2>2
    DEF Works, Settles, Waiting, Quiet, NormalizationInvariant, NothingRequeued
  <2>4. \A i \in Items \ {t} : Settles(q, i)
    BY <1>7 DEF Settles
  <2> QED
    BY <2>2, <2>3, <2>4
<1>8. CASE Normalized(q)
  <2> DEFINE rows(v) == [item EXCEPT ![t] = OrmRow(@, req[q].seen, "review", FALSE, v)]
             after(v) ==
               [Idle EXCEPT !.op = "process_batch", !.pc = "next", !.job = req[q].job,
                            !.sjob = Recounted(q, rows(v))]
  <2>1. PICK v \in Results :
          /\ item' = rows(v)
          /\ WriteJob(q, Recounted(q, rows(v)))
          /\ \/ Finish(q)
             \/ req' = [req EXCEPT ![q] = after(v)]
             \/ /\ req[q].op = "combined"
                /\ req' = [req EXCEPT ![q] = Choosing("combined", req[q].job, {t})]
    BY <1>8 DEF Normalized
  <2>2. req[q].pc = "llm" /\ LoopFree(q) /\ UNCHANGED <<file, row>>
    BY <1>8 DEF Normalized
  <2>3. (\A i \in Items : Settles(q, i))
    BY <1>7, <2>1, <2>2
  <2>4. \A j \in Jobs : job'[j] # "cancelled"
    BY <2>1, RecountGoesOn, WriteJobGoesOn
  <2>5. after(v).op = "process_batch" /\ after(v).pc = "next" /\ after(v).it = None
        /\ after(v).sjob = Recounted(q, rows(v))
    BY DEF Idle
  <2> HIDE DEF after, rows
  <2>6. CASE req' = [req EXCEPT ![q] = after(v)]
    <3>1. req'[q] = after(v) /\ \A p \in Requests \ {q} : req'[p] = req[p]
      BY <2>6 DEF Quiet, TypeOK
    <3>2. Calm(req'[q]) /\ ~Claiming(req'[q]) /\ req'[q].pc # "llm" /\ req'[q].it = None
      BY <2>5, <3>1, RecountGoesOn DEF Calm, Claiming
    <3>3. None \notin Items
      BY HandledItem
    <3> QED
      BY <2>2, <2>3, <2>4, <3>1, <3>2, <3>3, MovesOnQuietly
  <2>7. CASE Finish(q)
    BY <2>2, <2>3, <2>4, <2>7, FinishStaysQuiet
  <2>8. CASE /\ req[q].op = "combined"
             /\ req' = [req EXCEPT ![q] = Choosing("combined", req[q].job, {t})]
    BY <2>2, <2>3, <2>4, <2>8, ChoosingStaysQuiet
  <2> QED
    BY <2>1, <2>6, <2>7, <2>8
<1>9. CASE NextOfBatch(q)
  <2>1. CASE PickItem(q, "process_batch", req[q].job, req[q].sjob, Queued(req[q].job))
    <3>1. \A i \in Queued(req[q].job) : i \in Items /\ item[i].status = "queued"
      BY DEF Queued, ItemsOf
    <3>2. "process_batch" \in ProcessOps /\ req[q].pc \in LoopHeld
      BY <1>9 DEF ProcessOps, NextOfBatch, LoopHeld
    <3> QED
      BY <1>9, <2>1, <3>1, <3>2, PickItemQuiet DEF NextOfBatch
  <2>2. CASE Finish(q)
    <3>1. \A i \in Items : Settles(q, i)
      BY <1>9 DEF NextOfBatch, Settles
    <3> QED
      BY <1>2, <1>9, <2>2, <3>1, FinishStaysQuiet DEF NextOfBatch
  <2> QED
    BY <1>9, <2>1, <2>2 DEF NextOfBatch
<1>10. CASE NormalizationFailed(q)
  <2>1. PICK infra \in {b \in BOOLEAN : (IF b THEN "llm_infra" ELSE "llm") \in Faults} :
          /\ item' = [item EXCEPT ![t] = FailedRow(@, req[q].seen, infra)]
          /\ Finish(q) \/ (infra /\ req[q].op \in {"process_item", "combined"})
    BY <1>10 DEF NormalizationFailed, Finish
  <2>2. WriteJob(q, Recounted(q, item)) /\ req[q].pc = "llm" /\ UNCHANGED <<file, row>>
    BY <1>10 DEF NormalizationFailed
  <2>3. Finish(q)
    BY <1>1, <2>1 DEF Calm
  <2>4. item' = [item EXCEPT ![t] = OrmRow(@, req[q].seen, "failed", infra, item[t].json)]
    BY <2>1 DEF FailedRow
  <2>5. \A i \in Items : Settles(q, i)
    BY <1>7, <2>1, <2>2, <2>4
  <2>6. \A j \in Jobs : job'[j] # "cancelled"
    BY <2>2, RecountGoesOn, WriteJobGoesOn
  <2> QED
    BY <2>2, <2>3, <2>5, <2>6, FinishStaysQuiet
<1>11. CASE CommitRequeue(q)
  BY <1>1, <1>11 DEF CommitRequeue, Calm
<1> QED
  BY <1>3, <1>4, <1>5, <1>6, <1>8, <1>9, <1>10, <1>11 DEF ProcessStep

(* The steps of an import. *)
LEMMA ImportStepQuiet ==
  ASSUME Quiet, NEW q \in Requests, ImportStep(q)
  PROVE  NormalizationInvariant'
<1> DEFINE t == req[q].it
<1>1. /\ Calm(req[q]) /\ req[q] \in Request /\ DOMAIN item = Items
      /\ req[q].op = "import" => t \in Items /\ item[t].status \notin Waiting
  BY HandledItem DEF HasTarget, Quiet, TypeOK, Claiming, ProcessOps, Request, Works, Waiting
<1>2. UNCHANGED job => \A j \in Jobs : job'[j] # "cancelled"
  BY DEF Quiet, NormalizationInvariant, NothingCancelled
<1>3. UNCHANGED item => \A i \in Items : Settles(q, i)
  BY DEF Settles
<1>4. ASSUME NEW pc \in PastClaim, req[q].op = "import",
             req'[q].pc = pc, req'[q].it = t, req'[q].op = "import",
             req'[q].sjob = req[q].sjob, \A p \in Requests \ {q} : req'[p] = req[p],
             UNCHANGED <<job, file, row>>, \A i \in Items : Settles(q, i),
             item'[t].status \notin Waiting
      PROVE  NormalizationInvariant'
  <2>1. Calm(req'[q]) /\ ~Claiming(req'[q])
    BY <1>1, <1>4 DEF Calm, Claiming, PastClaim
  <2>2. pc # "llm" /\ pc \notin LoopHeld
    BY <1>4 DEF PastClaim, LoopHeld
  <2> QED
    BY <1>1, <1>2, <1>4, <2>1, <2>2, MovesOnQuietly
<1>5. ASSUME NEW pc \in PastClaim, req[q].op = "import", Goto(q, pc), UNCHANGED <<job, item, file, row>>
      PROVE  NormalizationInvariant'
  <2>1. /\ req'[q].pc = pc /\ req'[q].it = t /\ req'[q].op = "import"
        /\ req'[q].sjob = req[q].sjob /\ \A p \in Requests \ {q} : req'[p] = req[p]
    BY <1>1, <1>5 DEF Goto, Quiet, TypeOK, Request
  <2> QED
    BY <1>1, <1>3, <1>4, <1>5, <2>1
<1>6. CASE ClaimImport(q)
  <2> DEFINE claimed == [item[t] EXCEPT !.status = "importing", !.infra = FALSE]
             seen == [claimed EXCEPT !.json = req[q].seen.json]
  <2>1. req[q].op = "import" /\ item[t] \in ItemRow
    BY <1>1, <1>6 DEF ClaimImport, Importing, Quiet, TypeOK
  <2>2. claimed.status = "importing" /\ claimed.rev = item[t].rev /\ claimed.infra = FALSE
    BY <2>1 DEF ItemRow
  <2>3. /\ item' = [item EXCEPT ![t] = claimed]
        /\ req' = [req EXCEPT ![q].pc = "create", ![q].seen = seen]
        /\ UNCHANGED <<job, file, row>>
    BY <1>6 DEF ClaimImport
  <2> HIDE DEF claimed, seen
  <2>4. /\ req'[q].pc = "create" /\ req'[q].it = t /\ req'[q].op = "import"
        /\ req'[q].sjob = req[q].sjob /\ \A p \in Requests \ {q} : req'[p] = req[p]
    BY <1>1, <2>1, <2>3 DEF Quiet, TypeOK, Request
  <2>5. item'[t].status \notin Waiting /\ \A i \in Items : Settles(q, i)
    BY <1>1, <2>1, <2>2, <2>3 DEF Settles, Waiting
  <2> QED
    BY <1>4, <2>1, <2>3, <2>4, <2>5 DEF PastClaim
<1>7. CASE ImportRefused(q)
  <2>1. req[q].pc \in LoopHeld
    BY <1>7 DEF ImportRefused, Importing, LoopHeld
  <2> QED
    BY <1>2, <1>3, <1>7, <2>1, GoOnStaysQuiet DEF ImportRefused
<1>8. CASE CreateBlank(q)
  <2>1. PICK s \in Slugs :
          Created(q, s) /\ req' = [req EXCEPT ![q].pc = "created", ![q].slug = s]
    BY <1>8 DEF CreateBlank
  <2>2. req[q].op = "import" /\ UNCHANGED <<job, item, file, row>>
    BY <1>8, <2>1 DEF CreateBlank, Created, Importing
  <2>3. /\ req'[q].pc = "created" /\ req'[q].it = t /\ req'[q].op = "import"
        /\ req'[q].sjob = req[q].sjob /\ \A p \in Requests \ {q} : req'[p] = req[p]
    BY <1>1, <2>1, <2>2 DEF Quiet, TypeOK, Request
  <2> QED
    BY <1>1, <1>3, <1>4, <2>2, <2>3 DEF PastClaim
<1>9. CASE CreateFailed(q) \/ CreateReplyLost(q) \/ RecordSlug(q) \/ PatchApplied(q)
           \/ ImportFailed(q) \/ DeleteCreated(q) \/ DeleteFailed(q)
  <2>1. \E pc \in PastClaim : Goto(q, pc)
    BY <1>9 DEF CreateFailed, CreateReplyLost, RecordSlug, PatchApplied, ImportFailed,
                DeleteCreated, DeleteFailed, PastClaim
  <2>2. req[q].op = "import" /\ UNCHANGED <<job, item, file, row>>
    BY <1>9 DEF CreateFailed, CreateReplyLost, RecordSlug, PatchApplied, ImportFailed,
                DeleteCreated, DeleteFailed, Created, Importing
  <2> QED
    BY <1>5, <2>1, <2>2
<1>10. CASE ImportVerified(q) \/ ImportUndone(q) \/ ImportStranded(q)
  <2>1. PICK status \in {"imported", "approved_for_import", "import_failed"} :
          SettleImport(q, status)
    BY <1>10 DEF ImportVerified, ImportUndone, ImportStranded
  <2>2. req[q].op = "import" /\ StopOrGoOn(q, req[q].set)
    BY <1>10 DEF ImportVerified, ImportUndone, ImportStranded, Importing, StopOrGoOn
  <2>3. LoopFree(q) /\ Flush(q, status, item[t].json) /\ UNCHANGED <<file, row>>
    BY <2>1 DEF SettleImport
  <2>4. status \notin Waiting
    BY DEF Waiting
  <2>5. (\A i \in Items : Settles(q, i)) /\ \A j \in Jobs : job'[j] # "cancelled"
    BY <1>1, <2>2, <2>3, <2>4, FlushSettles
  <2> QED
    BY <2>2, <2>3, <2>5, GoOnStaysQuiet
<1> QED
  BY <1>6, <1>7, <1>8, <1>9, <1>10 DEF ImportStep

(* The steps of an automatic import between its imports. *)
LEMMA AutoImportStepQuiet ==
  ASSUME Quiet, NEW q \in Requests, AutoImportStep(q)
  PROVE  NormalizationInvariant'
<1> DEFINE t == req[q].it
<1>1. /\ Calm(req[q]) /\ req[q] \in Request /\ DOMAIN item = Items /\ None \notin Items
      /\ req[q].pc \in {"approve", "start"} => t \in Items /\ item[t].status \notin Waiting
      /\ req[q].pc \in {"choose", "approve", "start"} => req[q].op \in {"auto_import", "combined"}
  BY HandledItem DEF HasTarget, Quiet, TypeOK, Claiming
<1>2. UNCHANGED job => \A j \in Jobs : job'[j] # "cancelled"
  BY DEF Quiet, NormalizationInvariant, NothingCancelled
<1>3. UNCHANGED item => \A i \in Items : Settles(q, i)
  BY DEF Settles
<1>4. job[req[q].job] # "cancelled"
  <2>1. req[q].pc \in {"choose", "approve", "start"} => req[q].job \in Jobs
    BY HandledItem DEF HasTarget, Idle
  <2> QED
    BY <2>1 DEF AutoImportStep, ChooseNext, ApproveChosen, StartChosen, Quiet,
                NormalizationInvariant, NothingCancelled
<1>5. req[q].pc \in LoopHeld
  BY DEF AutoImportStep, ChooseNext, ApproveChosen, StartChosen, LoopHeld
<1>6. ASSUME NEW op \in {req[q].op, "import"}, NEW pc \in {"approve", "start", "claim"},
             op = "import" \/ pc # "claim",
             NEW i \in Items, item[i].status \notin Waiting, NEW rest,
             req' = [req EXCEPT ![q] = [ReadJob(op, req[q].job) EXCEPT
                       !.pc = pc, !.it = i, !.seen = item[i], !.set = rest]],
             UNCHANGED <<job, item, file, row>>, AutoImportStep(q)
      PROVE  NormalizationInvariant'
  <2> DEFINE r == [ReadJob(op, req[q].job) EXCEPT
                    !.pc = pc, !.it = i, !.seen = item[i], !.set = rest]
  <2>1. r.op = op /\ r.pc = pc /\ r.it = i /\ r.sjob = job[req[q].job]
    BY DEF ReadJob, Idle
  <2> HIDE DEF r
  <2>2. req'[q] = r /\ \A p \in Requests \ {q} : req'[p] = req[p]
    BY <1>6 DEF Quiet, TypeOK, r
  <2>3. req[q].op \in {"auto_import", "combined"}
    BY <1>1 DEF AutoImportStep, ChooseNext, ApproveChosen, StartChosen
  <2>4. Calm(req'[q])
    BY <1>1, <1>4, <1>6, <2>1, <2>2, <2>3 DEF Calm
  <2>5. ~Claiming(req'[q])
    BY <1>6, <2>1, <2>2, <2>3 DEF Claiming, ProcessOps
  <2>6. req'[q].pc # "llm" /\ req'[q].it = i
    BY <2>1, <2>2
  <2> QED
    BY <1>2, <1>3, <1>5, <1>6, <2>2, <2>4, <2>5, <2>6, MovesOnQuietly
<1>7. CASE ChooseNext(q)
  <2>1. PICK i \in req[q].set :
          IF item[i].json = "clean" /\ (item[i].status = "review" \/ req[q].op = "auto_import")
          THEN req' = [req EXCEPT ![q] =
                 [ReadJob(req[q].op, req[q].job) EXCEPT
                    !.pc = IF item[i].status = "review" THEN "approve" ELSE "start",
                    !.it = i, !.seen = item[i], !.set = req[q].set \ {i}]]
          ELSE StopOrGoOn(q, req[q].set \ {i})
    BY <1>7 DEF ChooseNext
  <2>2. i \in Items /\ UNCHANGED <<job, item, file, row>>
    BY <1>1, <1>7, <2>1 DEF Request, ChooseNext
  <2>3. CASE StopOrGoOn(q, req[q].set \ {i})
    BY <1>2, <1>3, <1>5, <2>2, <2>3, GoOnStaysQuiet
  <2>4. CASE item[i].json = "clean" /\ (item[i].status = "review" \/ req[q].op = "auto_import")
    <3>1. item[i].status \notin Waiting
      BY <2>2, <2>4 DEF Quiet, NormalizationInvariant, WaitingHasNoResult
    <3> DEFINE pc == IF item[i].status = "review" THEN "approve" ELSE "start"
    <3>2. pc \in {"approve", "start", "claim"} /\ pc # "claim"
      OBVIOUS
    <3>3. req' = [req EXCEPT ![q] = [ReadJob(req[q].op, req[q].job) EXCEPT
                    !.pc = pc, !.it = i, !.seen = item[i], !.set = req[q].set \ {i}]]
      BY <2>1, <2>4
    <3> HIDE DEF pc
    <3> QED
      BY <1>6, <2>2, <3>1, <3>2, <3>3
  <2> QED
    BY <2>1, <2>3, <2>4
<1>8. CASE ApproveChosen(q)
  <2>1. /\ Flush(q, "approved_for_import", item[t].json) /\ req[q].pc = "approve"
        /\ req' = [req EXCEPT ![q].pc = "start", ![q].seen = item'[t],
                              ![q].sjob = job'[req[q].job]]
        /\ UNCHANGED <<file, row>>
    BY <1>8 DEF ApproveChosen
  <2>2. /\ \A i \in Items : Settles(q, i)
        /\ \A j \in Jobs : job'[j] # "cancelled"
        /\ item'[t].status \notin Waiting
    <3>1. "approved_for_import" \notin Waiting
      BY DEF Waiting
    <3> QED
      BY <1>1, <2>1, <3>1, FlushSettles
  <2>3. /\ req'[q].pc = "start" /\ req'[q].it = t /\ req'[q].op = req[q].op
        /\ req'[q].sjob = job'[req[q].job]
        /\ \A p \in Requests \ {q} : req'[p] = req[p]
    BY <1>1, <2>1 DEF Quiet, TypeOK, Request
  <2>4. req[q].job \in Jobs
    BY <2>1, HandledItem DEF HasTarget, Idle
  <2>5. Calm(req'[q]) /\ ~Claiming(req'[q])
    BY <1>1, <2>1, <2>2, <2>3, <2>4 DEF Calm, Claiming
  <2> QED
    BY <1>1, <1>5, <2>1, <2>2, <2>3, <2>5, MovesOnQuietly
<1>9. CASE StartChosen(q)
  <2>1. CASE StopOrGoOn(q, req[q].set)
    BY <1>2, <1>3, <1>5, <1>9, <2>1, GoOnStaysQuiet DEF StartChosen
  <2>2. CASE req' = [req EXCEPT ![q] =
               [ReadJob("import", req[q].job) EXCEPT
                  !.pc = "claim", !.it = t, !.seen = item[t], !.set = req[q].set]]
    <3>1. req[q].pc = "start" /\ UNCHANGED <<job, item, file, row>>
      BY <1>9 DEF StartChosen
    <3> QED
      BY <1>1, <1>6, <2>2, <3>1
  <2> QED
    BY <1>9, <2>1, <2>2 DEF StartChosen
<1> QED
  BY <1>7, <1>8, <1>9 DEF AutoImportStep

(* A request that starts, on no item or on one past the queue. *)
LEMMA StartQuiet ==
  ASSUME Quiet, NEW q \in Requests, NEW r, Start(q, r), UNCHANGED <<job, item, file, row>>,
         Calm(r), ~Claiming(r), r.pc # "llm",
         r.it = None \/ (r.it \in Items /\ item[r.it].status \notin Waiting),
         r.pc \in LoopHeld => LoopFree(q)
  PROVE  NormalizationInvariant'
<1>1. req'[q] = r /\ \A p \in Requests \ {q} : req'[p] = req[p]
  BY DEF Start, Quiet, TypeOK
<1>2. None \notin Items
  BY HandledItem
<1>3. (\A i \in Items : Settles(q, i)) /\ (\A j \in Jobs : job'[j] # "cancelled")
  BY DEF Settles, Quiet, NormalizationInvariant, NothingCancelled
<1> QED
  BY <1>1, <1>2, <1>3, MovesOnQuietly

(* The requests on a job. *)
LEMMA JobRequestQuiet ==
  ASSUME Quiet, NEW q \in Requests, JobRequest(q)
  PROVE  NormalizationInvariant'
<1>1. \A j \in Jobs : job[j] # "cancelled"
  BY DEF Quiet, NormalizationInvariant, NothingCancelled
<1>2. UNCHANGED item => \A i \in Items : Settles(q, i)
  BY DEF Settles
<1>3. ASSUME NEW j \in Jobs, BeginApproveJob(q, j)
      PROVE  NormalizationInvariant'
  <2> DEFINE r == ReadJob("approve_job", j)
  <2>1. Start(q, r) /\ UNCHANGED <<job, item, file, row>>
    BY <1>3 DEF BeginApproveJob
  <2>2. r.op = "approve_job" /\ r.pc = "commit" /\ r.it = None /\ r.sjob = job[j]
    BY DEF ReadJob, Idle
  <2> HIDE DEF r
  <2>3. Calm(r) /\ ~Claiming(r) /\ r.pc \notin LoopHeld /\ r.pc # "llm" /\ r.it = None
    BY <1>1, <2>2 DEF Calm, Claiming, LoopHeld
  <2> QED
    BY <2>1, <2>3, StartQuiet
<1>4. ASSUME NEW j \in Jobs, BeginCancelJob(q, j)
      PROVE  NormalizationInvariant'
  BY <1>4 DEF BeginCancelJob, Quiet, Undisturbed
<1>5. ASSUME NEW j \in Jobs, BeginRequeue(q, j)
      PROVE  NormalizationInvariant'
  BY <1>5 DEF BeginRequeue, InfraFailures, Quiet, Undisturbed, NormalizationInvariant,
              NothingRequeued
<1>6. ASSUME NEW j \in Jobs, BeginAutoImport(q, j)
      PROVE  NormalizationInvariant'
  <2> DEFINE chosen(last) == {i \in CleanReviewed(j) : i[2] <= last[2]}
  <2>1. PICK last \in CleanReviewed(j) :
          Start(q, Choosing("auto_import", j, chosen(last)))
    BY <1>6 DEF BeginAutoImport
  <2>2. UNCHANGED <<job, item, file, row>> /\ LoopFree(q)
    BY <1>6 DEF BeginAutoImport
  <2> HIDE DEF chosen
  <2>3. req' = [req EXCEPT ![q] = Choosing("auto_import", j, chosen(last))]
    BY <2>1 DEF Start
  <2> QED
    BY <1>1, <1>2, <2>2, <2>3, ChoosingStaysQuiet
<1>7. ASSUME NEW j \in Jobs, NEW op \in ProcessOps, BeginProcess(q, op, j)
      PROVE  NormalizationInvariant'
  <2>1. PICK target \in IF op = "process_item" THEN Queued(j) ELSE {None} :
          PickItem(q, op, j, job[j], Candidates(op, j, target))
    BY <1>7 DEF BeginProcess
  <2>2. \A i \in Candidates(op, j, target) : i \in Items /\ item[i].status = "queued"
    BY <2>1 DEF Candidates, Queued, ItemsOf
  <2>3. op \in Ops /\ LoopFree(q) /\ UNCHANGED <<job, item, file, row>>
    BY <1>7 DEF BeginProcess
  <2>4. "llm_infra" \in Faults => op \notin {"process_item", "combined"}
    BY <2>3 DEF Quiet, Undisturbed
  <2> QED
    BY <2>1, <2>2, <2>3, <2>4, PickItemQuiet
<1> QED
  BY <1>3, <1>4, <1>5, <1>6, <1>7 DEF JobRequest

(* The requests on an item: none of them accepts one that waits. *)
LEMMA ItemRequestQuiet ==
  ASSUME Quiet, NEW q \in Requests, ItemRequest(q)
  PROVE  NormalizationInvariant'
<1>1. PICK i \in Items : \/ \E op \in AllOps : BeginReview(q, op, i)
                         \/ BeginImport(q, i)
                         \/ BeginReconcile(q, i)
  BY DEF ItemRequest
<1>2. UNCHANGED <<job, item, file, row>>
  BY <1>1 DEF BeginReview, BeginImport, BeginReconcile
<1>3. item[i].json # "none" => item[i].status \notin Waiting
  BY DEF Quiet, NormalizationInvariant, WaitingHasNoResult
<1>4. job[i[1]] # "cancelled"
  <2>1. i[1] \in Jobs
    BY DEF Items
  <2> QED
    BY <2>1 DEF Quiet, NormalizationInvariant, NothingCancelled
<1>5. ASSUME NEW r, Start(q, r), r.it = i, r.sjob = job[i[1]], item[i].status \notin Waiting,
             r.op \notin {"cancel_job", "retry"} \cup ProcessOps,
             r.pc = "commit" \/ (r.pc = "claim" /\ LoopFree(q))
      PROVE  NormalizationInvariant'
  <2>1. Calm(r) /\ ~Claiming(r) /\ r.pc # "llm"
    BY <1>4, <1>5 DEF Calm, Claiming, ProcessOps
  <2>2. r.pc \in LoopHeld => LoopFree(q)
    BY <1>5 DEF LoopHeld
  <2> QED
    BY <1>2, <1>5, <2>1, <2>2, StartQuiet
<1>6. ASSUME NEW op \in AllOps, BeginReview(q, op, i)
      PROVE  NormalizationInvariant'
  <2> DEFINE r == [ReadJob(op, i[1]) EXCEPT !.it = i, !.seen = item[i]]
  <2>1. Start(q, r) /\ CanRead(op, i) /\ op \in Ops
    BY <1>6 DEF BeginReview
  <2>2. r.op = op /\ r.it = i /\ r.pc = "commit" /\ r.sjob = job[i[1]]
    BY DEF ReadJob, Idle
  <2>3. op \in {"retry", "edit", "approve", "reject", "restore", "revalidate"}
    BY <2>1 DEF CanRead
  <2>4. op # "retry" => item[i].status \notin Waiting
    BY <1>3, <2>1 DEF CanRead, Waiting
  <2>5. op # "retry"
    BY <2>1 DEF Quiet, Undisturbed
  <2> HIDE DEF r
  <2> QED
    BY <1>5, <2>1, <2>2, <2>3, <2>4, <2>5 DEF ProcessOps
<1>7. CASE BeginImport(q, i)
  <2> DEFINE r == [ReadJob("import", i[1]) EXCEPT !.pc = "claim", !.it = i, !.seen = item[i]]
  <2>1. Start(q, r) /\ LoopFree(q) /\ item[i].status = "approved_for_import"
    BY <1>7 DEF BeginImport, CanImport
  <2>2. r.op = "import" /\ r.it = i /\ r.pc = "claim" /\ r.sjob = job[i[1]]
    BY DEF ReadJob, Idle
  <2> HIDE DEF r
  <2> QED
    BY <1>5, <2>1, <2>2 DEF ProcessOps, Waiting
<1>8. CASE BeginReconcile(q, i)
  <2> DEFINE r(s) == [ReadJob("reconcile", i[1]) EXCEPT !.it = i, !.seen = item[i], !.slug = s]
  <2>1. PICK s \in Slugs : Start(q, r(s))
    BY <1>8 DEF BeginReconcile
  <2>2. item[i].status \notin Waiting
    BY <1>3, <1>8 DEF BeginReconcile
  <2>3. r(s).op = "reconcile" /\ r(s).it = i /\ r(s).pc = "commit" /\ r(s).sjob = job[i[1]]
    BY DEF ReadJob, Idle
  <2> HIDE DEF r
  <2> QED
    BY <1>5, <2>1, <2>2, <2>3 DEF ProcessOps
<1> QED
  BY <1>1, <1>6, <1>7, <1>8

(* A job is created: its items are queued, the others stay as they are. *)
LEMMA CreateJobQuiet ==
  ASSUME Quiet, NEW j \in Jobs, NEW selected \in SUBSET Recipes, CreateJob(j, selected)
  PROVE  NormalizationInvariant'
<1> DEFINE fresh(i) == [NoRow EXCEPT !.status = "queued", !.rev = row[i[2]].rev]
<1>1. \A i \in Items : /\ fresh(i).status = "queued" /\ fresh(i).rev = row[i[2]].rev
                       /\ fresh(i).json = "none" /\ fresh(i).infra = FALSE
  BY DEF NoRow
<1> HIDE DEF fresh
<1>2. /\ job[j] = "absent" /\ job' = [job EXCEPT ![j] = "draft"]
      /\ UNCHANGED <<file, row, req>>
  BY DEF CreateJob
<1>3. \A i \in Items : item'[i] = item[i] \/ (i[1] = j /\ item'[i] = fresh(i))
  BY DEF CreateJob, fresh
<1>4. RevisionsStay' /\ WaitingHasNoResult' /\ NothingRequeued' /\ NothingCancelled'
  BY <1>1, <1>2, <1>3
  DEF Quiet, TypeOK, NormalizationInvariant, RevisionsStay, WaitingHasNoResult,
      NothingRequeued, NothingCancelled
<1>5. OneProcessing'
  BY <1>1, <1>3 DEF Quiet, NormalizationInvariant, OneProcessing
<1>6. /\ OneHoldsTheLoop' /\ OneNormalizesEach'
      /\ \A q \in Requests : Calm(req[q])'
  BY <1>2 DEF Quiet, NormalizationInvariant, OneHoldsTheLoop, OneNormalizesEach, Calm
<1>7. ASSUME NEW q \in Requests
      PROVE  Works(req[q])'
  <2>1. /\ Works(req[q]) /\ HasTarget(req[q]) /\ req[q].it \in Items \cup {None}
        /\ req[q].set \subseteq Items /\ None \notin Items
    BY HandledItem DEF Request
  <2>2. req[q].it # None => item'[req[q].it] = item[req[q].it]
    BY <1>2, <1>3, <2>1 DEF HasTarget
  <2>3. \A i \in req[q].set : item'[i] = item[i]
    BY <1>2, <1>3, <2>1 DEF HasTarget
  <2>4. \A k \in Items : item[k].status # "processing" => item'[k].status # "processing"
    BY <1>1, <1>3
  <2>5. req[q].pc = "llm" => req[q].it # None
    BY <2>1 DEF HasTarget
  <2> QED
    BY <1>2, <2>1, <2>2, <2>3, <2>4, <2>5 DEF Works, Claiming
<1> QED
  BY <1>4, <1>5, <1>6, <1>7 DEF NormalizationInvariant

(* Every step keeps the invariant. *)
LEMMA NormalizationStep == Quiet /\ [Next]_vars => NormalizationInvariant'
<1> SUFFICES ASSUME Quiet, [Next]_vars
             PROVE  NormalizationInvariant'
  OBVIOUS
<1>1. CASE UNCHANGED vars
  BY <1>1 DEF vars, Quiet, NormalizationInvariant, RevisionsStay, WaitingHasNoResult,
              NothingRequeued, NothingCancelled, Calm, OneHoldsTheLoop, Works, Claiming,
              OneProcessing, OneNormalizesEach
<1>2. CASE ResetWorkingTree \/ SyncRows
  BY <1>2 DEF ResetWorkingTree, SyncRows, Quiet, Undisturbed
<1>3. CASE Crash
  <2>1. /\ UNCHANGED <<job, item, file, row>>
        /\ \A q \in Requests : req'[q] = req[q] \/ req'[q] = Idle
    BY <1>3 DEF Crash
  <2>2. RevisionsStay' /\ WaitingHasNoResult' /\ NothingRequeued' /\ NothingCancelled'
        /\ OneProcessing'
    BY <2>1 DEF Quiet, NormalizationInvariant, RevisionsStay, WaitingHasNoResult,
                NothingRequeued, NothingCancelled, OneProcessing
  <2>3. Calm(Idle) /\ Idle.pc \notin LoopHeld \cup {"llm"}
    BY DEF Calm, Idle, LoopHeld
  <2>4. OneHoldsTheLoop' /\ OneNormalizesEach'
    BY <2>1, <2>3 DEF Quiet, NormalizationInvariant, OneHoldsTheLoop, OneNormalizesEach
  <2>5. ASSUME NEW q \in Requests
        PROVE  Calm(req[q])' /\ Works(req[q])'
    <3>1. CASE req'[q] = Idle
      BY <3>1 DEF Works, Claiming, Calm, Idle, ProcessOps
    <3>2. CASE req'[q] = req[q]
      BY <2>1, <3>2 DEF Works, Claiming, Calm, Quiet, NormalizationInvariant
    <3> QED
      BY <2>1, <3>1, <3>2
  <2> QED
    BY <2>2, <2>4, <2>5 DEF NormalizationInvariant
<1>4. ASSUME NEW q \in Requests, JobRequest(q) \/ ItemRequest(q) \/ Progress(q)
      PROVE  NormalizationInvariant'
  BY <1>4, JobRequestQuiet, ItemRequestQuiet, ReviewCommitQuiet, ProcessStepQuiet,
     ImportStepQuiet, AutoImportStepQuiet
  DEF Progress
<1> QED
  BY <1>1, <1>2, <1>3, <1>4, CreateJobQuiet DEF Next

(* No request is in flight at first, and the rows follow the files. *)
LEMMA InitQuiet == Init => NormalizationInvariant
<1> SUFFICES ASSUME Init PROVE NormalizationInvariant
  OBVIOUS
<1>1. \A i \in Items : /\ item[i].status = "absent" /\ item[i].json = "none"
                       /\ item[i].infra = FALSE
  BY DEF Init, NoRow
<1>2. /\ \A r \in Recipes : row[r].rev = file[r]
      /\ \A j \in Jobs : job[j] = "absent"
      /\ \A q \in Requests : req[q] = Idle
  BY DEF Init
<1>3. \A q \in Requests : Calm(req[q]) /\ Works(req[q]) /\ req[q].pc = "idle"
  BY <1>2 DEF Calm, Works, Claiming, Idle, ProcessOps
<1>4. RevisionsStay /\ WaitingHasNoResult /\ NothingRequeued /\ NothingCancelled /\ OneProcessing
  BY <1>1, <1>2 DEF RevisionsStay, WaitingHasNoResult, NothingRequeued, NothingCancelled,
                    OneProcessing
<1>5. OneHoldsTheLoop /\ OneNormalizesEach
  BY <1>3 DEF OneHoldsTheLoop, OneNormalizesEach, LoopHeld
<1> QED
  BY <1>3, <1>4, <1>5 DEF NormalizationInvariant

(***************************************************************************)
(* However many handlers interleave and whenever the process stops, the    *)
(* model never works on one source revision twice at a time: each awaited  *)
(* normalization is of an item of its own, and no two items of a recipe    *)
(* are in normalization.                                                   *)
(***************************************************************************)
THEOREM NormalizationInvariantHolds == Undisturbed => (Spec => []NormalizationInvariant)
<1> SUFFICES ASSUME Undisturbed PROVE Spec => []NormalizationInvariant
  OBVIOUS
<1>1. TypeOK /\ ImportInvariant /\ NormalizationInvariant /\ [Next]_vars
      => NormalizationInvariant'
  BY NormalizationStep DEF Quiet
<1> QED
  BY InitQuiet, TypeAndInvariant, <1>1, PTL DEF Spec

(* The invariant excludes a second normalization of a source revision. *)
THEOREM OneNormalizationPerRevisionHolds ==
  Undisturbed => (Spec => []OneNormalizationPerRevision)
<1> SUFFICES ASSUME Undisturbed PROVE Spec => []OneNormalizationPerRevision
  OBVIOUS
<1>1. ImportInvariant /\ NormalizationInvariant => OneNormalizationPerRevision
  <2> SUFFICES ASSUME ImportInvariant, NormalizationInvariant,
                      NEW p \in Requests, NEW q \in Requests,
                      p # q, req[p].pc = "llm", req[q].pc = "llm"
               PROVE  ~SameKey(req[p].it, req[q].it)
    BY DEF OneNormalizationPerRevision
  <2>1. req[p].it \in Items /\ req[q].it \in Items
    BY DEF ImportInvariant, HasTarget
  <2>2. req[p].it # req[q].it
    BY DEF NormalizationInvariant, OneNormalizesEach
  <2>3. item[req[p].it].status = "processing" /\ item[req[q].it].status = "processing"
    BY DEF NormalizationInvariant, Works
  <2> QED
    BY <2>1, <2>2, <2>3 DEF NormalizationInvariant, OneProcessing, SameKey
<1> QED
  BY NormalizationInvariantHolds, TypeAndInvariant, <1>1, PTL
===============================================================================

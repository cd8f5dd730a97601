------------------------- MODULE ImportSingleProofs -------------------------
(***************************************************************************)
(* Proofs about ImportQueue with one request slot: the application as one  *)
(* person uses it, one call at a time, with the source, crashes and the    *)
(* faults of Mealie and of the model still at work.  What a handler has    *)
(* read then holds when it writes, and the properties that overlapping     *)
(* handlers can break are theorems.                                        *)
(***************************************************************************)
EXTENDS ImportQueueProofs

-----------------------------------------------------------------------------
(* One request at a time *)

(* One request slot: the application as one person uses it, one call at a time. *)
OneAtATime == \A p, q \in Requests : p = q

(* From the POST to the DELETE an import has a recipe of its own in Mealie. *)
HasRecipe == {"created", "patch", "verify", "delete"}

(***************************************************************************)
(* What a request has read still holds when it writes: the rows, what its  *)
(* guards asked of them, and the recipe it created or found.               *)
(***************************************************************************)
UpToDate(r) ==
  /\ r.it # None => r.seen = item[r.it]
  /\ r.job # None => /\ job[r.job] # "absent"
                     /\ r.pc # "choose" => r.sjob = job[r.job]
  /\ r.op \in {"approve", "import"} \/ r.pc = "approve" => r.seen.json # "block"
  /\ (r.op \in {"approve_job", "retry"} \/ (r.op \in ProcessOps /\ r.pc = "claim"))
     => r.sjob # "cancelled"
  /\ r.pc \in PastClaim => r.seen.status = "importing"
  /\ r.pc \in HasRecipe =>
       /\ r.slug \in Slugs /\ mealie[r.slug].state # "free"
       /\ \A i \in Items : item[i].status = "imported" => rec[i].slug # r.slug
  /\ (r.pc = "verify" \/ r.op = "reconcile") =>
       r.slug \in Slugs /\ mealie[r.slug].state = "managed"

(***************************************************************************)
(* The inductive invariant of single requests.  The two properties need    *)
(* UpToDate (an approval rests on a verdict read earlier, an import on a   *)
(* recipe created earlier), and UpToDate needs them in turn (what is       *)
(* approved is not blocked; a slug Mealie gives out names no import).      *)
(***************************************************************************)
AloneInvariant ==
  /\ \A q \in Requests : UpToDate(req[q])
  /\ BlockedIsNotImported
  /\ ImportedIsInMealie

(* This step brings no cancelled job back. *)
CancelledStays == \A j \in Jobs : job[j] = "cancelled" => job'[j] = "cancelled"

(* What holds of the tables now and of the requests at work on them. *)
Alone == /\ TypeOK /\ ImportInvariant /\ AloneInvariant
         /\ OneAtATime

(* An idle slot has seen nothing. *)
LEMMA IdleUpToDate == ASSUME NEW r, r = Idle PROVE UpToDate(r) /\ UpToDate(r)'
BY ImportAssumption DEF UpToDate, Idle, NoRow, PastClaim, HasRecipe, ProcessOps

(* The one request ends. *)
LEMMA FinishUpToDate ==
  ASSUME Alone, NEW q \in Requests, Finish(q)
  PROVE  \A p \in Requests : UpToDate(req[p])'
BY IdleUpToDate DEF Alone, TypeOK, OneAtATime, Finish

(* An automatic import between two of its items relies on its job only. *)
LEMMA ChoosingUpToDate ==
  ASSUME Alone, NEW q \in Requests, NEW op \in {"auto_import", "combined"},
         NEW j \in Jobs, NEW items, job'[j] # "absent",
         req' = [req EXCEPT ![q] = Choosing(op, j, items)]
  PROVE  \A p \in Requests : UpToDate(req[p])'
<1>1. CASE items = {}
  BY <1>1, FinishUpToDate DEF Choosing, Finish
<1>2. CASE items # {}
  <2> DEFINE r == [Idle EXCEPT !.op = op, !.pc = "choose", !.job = j, !.set = items]
  <2>1. r.op = op /\ r.pc = "choose" /\ r.job = j /\ r.it = None
    BY DEF Idle
  <2>2. req'[q] = r
    BY <1>2 DEF Choosing, Alone, TypeOK
  <2> HIDE DEF r
  <2>3. UpToDate(req[q])'
    BY <2>1, <2>2 DEF UpToDate, PastClaim, HasRecipe, ProcessOps
  <2> QED
    BY <2>3 DEF Alone, OneAtATime
<1> QED
  BY <1>1, <1>2

(* An automatic import that stops, or goes on with the rest. *)
LEMMA GoOnUpToDate ==
  ASSUME Alone, NEW q \in Requests, NEW rest, req[q].job \in Jobs,
         job'[req[q].job] # "absent", StopOrGoOn(q, rest) \/ GoOn(q, rest)
  PROVE  \A p \in Requests : UpToDate(req[p])'
<1>1. CASE Finish(q)
  BY <1>1, FinishUpToDate
<1>2. CASE GoOn(q, rest)
  BY <1>2, ChoosingUpToDate DEF GoOn
<1> QED
  BY <1>1, <1>2 DEF StopOrGoOn

(* A request at work has a job; what it knows of its item and its job holds. *)
LEMMA AtWork ==
  ASSUME Alone, NEW q \in Requests, req[q] # Idle, req[q].pc # "choose"
  PROVE  /\ req[q] \in Request /\ HasTarget(req[q]) /\ UpToDate(req[q])
         /\ req[q].job \in Jobs /\ req[q].sjob = job[req[q].job]
         /\ req[q].sjob # "absent" /\ req[q].sjob \in JobStatus
         /\ req[q].it \in Items => req[q].seen = item[req[q].it]
         /\ req[q].it \in Items \cup {None} /\ None \notin Items
<1>1. req[q] \in Request /\ HasTarget(req[q]) /\ UpToDate(req[q])
  BY DEF Alone, TypeOK, ImportInvariant, AloneInvariant
<1>2. None \notin Items /\ None \notin Jobs
  BY ImportAssumption DEF Items
<1>3. req[q].job \in Jobs /\ req[q].it \in Items \cup {None} /\ req[q].sjob \in JobStatus
  BY <1>1 DEF HasTarget, Request
<1> QED
  BY <1>1, <1>2, <1>3 DEF UpToDate

(* A job whose status the session knows gets the status written. *)
LEMMA WriteJobAlone ==
  ASSUME Alone, NEW q \in Requests, req[q] # Idle, req[q].pc # "choose",
         NEW status, WriteJob(q, status), req[q].sjob = "cancelled" => status = "cancelled"
  PROVE  job'[req[q].job] = status /\ CancelledStays
<1>1. req[q].job \in Jobs /\ req[q].sjob = job[req[q].job]
  BY AtWork
<1> QED
  BY <1>1 DEF WriteJob, OrmSet, Alone, TypeOK, CancelledStays

(* A recount leaves a cancelled job cancelled. *)
LEMMA RecountAlone ==
  ASSUME Alone, NEW q \in Requests, req[q] # Idle, req[q].pc # "choose",
         NEW rows, WriteJob(q, Recounted(q, rows))
  PROVE  job'[req[q].job] = Recounted(q, rows) /\ CancelledStays
<1>1. req[q].sjob = "cancelled" => Recounted(q, rows) = "cancelled"
  BY DEF Recounted, JobStatusAfter
<1> QED
  BY <1>1, WriteJobAlone

(* This step leaves item i alone, or makes it neither imported nor blocked and approved. *)
Kept(i) ==
  \/ item'[i] = item[i]
  \/ item'[i].status \notin {"approved_for_import", "importing", "imported"}
  \/ item'[i].status = "approved_for_import" /\ item'[i].json # "block"

(* A step that leaves records and recipes alone, and approves nothing blocked. *)
LEMMA KeptIsEnough ==
  ASSUME Alone, UNCHANGED <<rec, mealie>>, \A i \in Items : Kept(i)
  PROVE  BlockedIsNotImported' /\ ImportedIsInMealie'
<1>1. BlockedIsNotImported'
  BY DEF Alone, AloneInvariant, BlockedIsNotImported, Kept
<1>2. ImportedIsInMealie'
  BY DEF Alone, AloneInvariant, ImportedIsInMealie, Kept
<1> QED
  BY <1>1, <1>2

(* The commits that flush the item. *)
LEMMA FlushAlone ==
  ASSUME Alone, NEW q \in Requests, req[q] # Idle, req[q].pc # "choose",
         NEW status, NEW json, Flush(q, status, json)
  PROVE  /\ CancelledStays
         /\ req[q].job \in Jobs /\ job'[req[q].job] # "absent"
         /\ \A i \in Items :
              \/ i # req[q].it /\ item'[i] = item[i]
              \/ i = req[q].it /\ item'[i].status = status /\ item'[i].json = json
<1> DEFINE r == OrmRow(item[req[q].it], req[q].seen, status, FALSE, json)
           rows == [item EXCEPT ![req[q].it] = r]
<1>1. item' = rows /\ WriteJob(q, Recounted(q, rows))
  BY DEF Flush
<1>2. DOMAIN item = Items
  BY DEF Alone, TypeOK
<1>3. req[q].it \in Items => r.status = status /\ r.json = json
  BY AtWork DEF OrmRow, OrmSet
<1>4. CancelledStays /\ job'[req[q].job] # "absent"
  BY <1>1, RecountAlone, RecountedIsNotAbsent
<1>5. req[q].job \in Jobs
  BY AtWork
<1> HIDE DEF r
<1> QED
  BY <1>1, <1>2, <1>3, <1>4, <1>5

(* What every step has to keep. *)
Preserved == CancelledStays /\ AloneInvariant'

(* Every commit of a review handler, and of reconcile_import. *)
LEMMA ReviewCommitAlone ==
  ASSUME Alone, NEW q \in Requests, ReviewCommit(q)
  PROVE  Preserved
<1> DEFINE t == req[q].it
<1>1. req[q] # Idle /\ req[q].pc # "choose"
  <2>1. req[q].pc = "commit"
    BY DEF ReviewCommit, CommitApproveJob, CommitCancelJob, CommitRetry, CommitEdit, CommitApprove,
           CommitReject, CommitRestore, CommitRevalidate, CommitRevalidateStale, CommitReconcile,
           FlushAndRecount, Committing
  <2> QED
    BY <2>1 DEF Idle
<1>2. /\ req[q] \in Request /\ HasTarget(req[q]) /\ UpToDate(req[q])
      /\ t \in Items => req[q].seen = item[t]
      /\ t \in Items \cup {None} /\ None \notin Items
      /\ DOMAIN item = Items
  BY <1>1, AtWork DEF Alone, TypeOK
<1>3. ASSUME NEW status, NEW json, FlushAndRecount(q, status, json), UNCHANGED <<rec, mealie>>,
             \/ status \in {"review", "rejected"}
             \/ status = "approved_for_import" /\ (t \in Items => json # "block")
      PROVE  Preserved
  <2>1. Flush(q, status, json) /\ Finish(q)
    BY <1>3 DEF FlushAndRecount
  <2>2. \A i \in Items : Kept(i)
    BY <1>1, <1>3, <2>1, FlushAlone DEF Kept
  <2> QED
    BY <1>1, <1>3, <2>1, <2>2, FlushAlone, FinishUpToDate, KeptIsEnough
    DEF Preserved, AloneInvariant
<1>4. ASSUME Finish(q), UNCHANGED <<rec, mealie>>, \A i \in Items : Kept(i), CancelledStays
      PROVE  Preserved
  BY <1>4, FinishUpToDate, KeptIsEnough DEF Preserved, AloneInvariant
<1>12. ASSUME NEW status \in {"queued", "source_updated"},
              item' = [item EXCEPT ![t] =
                         OrmRow(item[t], req[q].seen, status, FALSE, item[t].json)]
       PROVE  \A i \in Items : Kept(i)
  <2> DEFINE r == OrmRow(item[t], req[q].seen, status, FALSE, item[t].json)
  <2>1. t \in Items => r.status = status
    BY <1>1, AtWork DEF OrmRow, OrmSet
  <2> HIDE DEF r
  <2> QED
    BY <1>2, <1>12, <2>1 DEF Kept, r
<1>5. CASE CommitApproveJob(q)
  <2>1. req[q].sjob # "cancelled"
    BY <1>2, <1>5 DEF CommitApproveJob, UpToDate
  <2> QED
    BY <1>1, <1>4, <1>5, <2>1, WriteJobAlone DEF CommitApproveJob, Kept
<1>6. CASE CommitCancelJob(q)
  <2>1. \A i \in Items : Kept(i)
    <3> TAKE i \in Items
    <3>1. item[i] \in ItemRow
      BY DEF Alone, TypeOK
    <3> QED
      BY <1>6, <3>1 DEF CommitCancelJob, SetStatus, Kept, ItemRow
  <2> QED
    BY <1>1, <1>4, <1>6, <2>1, WriteJobAlone DEF CommitCancelJob
<1>7. CASE CommitRetry(q)
  <2>1. req[q].sjob # "cancelled"
    BY <1>2, <1>7 DEF CommitRetry, Committing, UpToDate
  <2>2. item' = [item EXCEPT ![t] = OrmRow(item[t], req[q].seen, "queued", FALSE, item[t].json)]
    BY <1>7 DEF CommitRetry
  <2>3. \A i \in Items : Kept(i)
    BY <1>12, <2>2
  <2> QED
    BY <1>1, <1>4, <1>7, <2>1, <2>3, WriteJobAlone DEF CommitRetry
<1>8. CASE CommitEdit(q) \/ CommitReject(q) \/ CommitRestore(q) \/ CommitRevalidate(q)
  BY <1>3, <1>8 DEF CommitEdit, CommitReject, CommitRestore, CommitRevalidate
<1>9. CASE CommitApprove(q)
  <2>1. req[q].seen.json # "block"
    BY <1>2, <1>9 DEF CommitApprove, Committing, UpToDate
  <2>2. t \in Items => item[t].json # "block"
    BY <1>2, <2>1
  <2> QED
    BY <1>2, <1>3, <1>9, <2>1, <2>2 DEF CommitApprove
<1>10. CASE CommitRevalidateStale(q)
  <2>1. item' = [item EXCEPT ![t] =
                   OrmRow(item[t], req[q].seen, "source_updated", FALSE, item[t].json)]
        /\ Finish(q) /\ UNCHANGED <<job, rec, mealie>>
    BY <1>10 DEF CommitRevalidateStale
  <2>2. \A i \in Items : Kept(i)
    BY <1>12, <2>1
  <2> QED
    BY <1>4, <2>1, <2>2 DEF CancelledStays
<1>11. CASE CommitReconcile(q)
  <2>1. /\ Finish(q) /\ UNCHANGED mealie
        /\ req[q].slug \in Slugs /\ mealie[req[q].slug].state = "managed"
    BY <1>2, <1>11 DEF CommitReconcile, Committing, UpToDate
  <2>2. CASE CanStartRecord(t)
    <3>1. /\ rec' = [rec EXCEPT ![t] = [state |-> "imported", slug |-> req[q].slug]]
          /\ item' = [item EXCEPT ![t] = OrmRow(@, req[q].seen, "imported", FALSE, @.json)]
          /\ WriteJob(q, Recounted(q, item))
      BY <1>11, <2>2 DEF CommitReconcile, UpsertReconciledRecord
    <3>6. \A i \in Items : \/ i # t /\ item'[i] = item[i]
                           \/ i = t /\ item'[i].status = "imported"
      <4> DEFINE r == OrmRow(item[t], req[q].seen, "imported", FALSE, item[t].json)
      <4>1. t \in Items => r.status = "imported"
        BY <1>1, AtWork DEF OrmRow, OrmSet
      <4>2. item' = [item EXCEPT ![t] = r]
        BY <3>1
      <4> HIDE DEF r
      <4> QED
        BY <1>2, <4>1, <4>2
    <3>7. \A i \in Items : \/ i # t /\ rec'[i] = rec[i]
                           \/ i = t /\ rec'[i].state = "imported" /\ rec'[i].slug = req[q].slug
      BY <3>1 DEF Alone, TypeOK
    <3>2. \A i \in Items : \/ i # t /\ item'[i] = item[i] /\ rec'[i] = rec[i]
                           \/ i = t /\ item'[i].status = "imported"
                              /\ rec'[i].state = "imported" /\ rec'[i].slug = req[q].slug
      BY <3>6, <3>7
    <3>3. req[q].slug # None
      BY <2>1, ImportAssumption
    <3>4. BlockedIsNotImported'
      BY <3>2 DEF BlockedIsNotImported, Alone, AloneInvariant
    <3>5. ImportedIsInMealie'
      BY <2>1, <3>2, <3>3 DEF ImportedIsInMealie, Alone, AloneInvariant
    <3> QED
      BY <1>1, <2>1, <3>1, <3>4, <3>5, RecountAlone, FinishUpToDate DEF Preserved, AloneInvariant
  <2>3. CASE ~CanStartRecord(t)
    BY <1>4, <1>11, <2>1, <2>3
    DEF CommitReconcile, UpsertReconciledRecord, Kept, CancelledStays
  <2> QED
    BY <2>2, <2>3
<1> QED
  BY <1>5, <1>6, <1>7, <1>8, <1>9, <1>10, <1>11 DEF ReviewCommit

(* The choice of the item to normalize reads the item and the job as they are. *)
LEMMA PickItemAlone ==
  ASSUME Alone, NEW q \in Requests, NEW op \in ProcessOps, NEW j \in Jobs,
         NEW items \in SUBSET Items, PickItem(q, op, j, job[j], items),
         UNCHANGED <<job, item, rec, mealie>>
  PROVE  \A p \in Requests : UpToDate(req[p])'
<1>1. PICK it \in IF Eligible(items) = {} THEN {None} ELSE Eligible(items) :
        req' = [req EXCEPT ![q] =
            [Idle EXCEPT
              !.op = op, !.pc = "claim", !.job = j, !.sjob = job[j], !.it = it,
              !.seen = IF it = None THEN NoRow ELSE item[it],
              !.set = Skipped(IF it = None THEN items ELSE Before(items, it))]]
  BY DEF PickItem
<1>2. job[j] \in {"approved", "processing"}
  BY DEF PickItem
<1>3. /\ req'[q].op = op /\ req'[q].pc = "claim" /\ req'[q].job = j /\ req'[q].it = it
      /\ req'[q].sjob = job[j] /\ (it # None => req'[q].seen = item[it])
  BY <1>1 DEF Alone, TypeOK, Idle
<1>4. UpToDate(req[q])'
  BY <1>2, <1>3 DEF UpToDate, ProcessOps, PastClaim, HasRecipe
<1> QED
  BY <1>4 DEF Alone, OneAtATime

(* Every step of a normalization. *)
LEMMA ProcessStepAlone ==
  ASSUME Alone, NEW q \in Requests, ProcessStep(q)
  PROVE  Preserved
<1> DEFINE t == req[q].it
           j == req[q].job
           flushed == SetStatus(req[q].set, "cancelled")
<1>1. req[q] # Idle /\ req[q].pc # "choose"
  <2>1. req[q].pc # "idle" /\ req[q].pc # "choose"
    BY DEF ProcessStep, ProcessNothing, ProcessStale, ClaimProcess, ClaimLost, Normalized,
           NextOfBatch, NormalizationFailed, CommitRequeue, AtClaim
  <2> QED
    BY <2>1 DEF Idle
<1>2. /\ req[q] \in Request /\ HasTarget(req[q]) /\ UpToDate(req[q])
      /\ t \in Items => req[q].seen = item[t]
      /\ t \in Items \cup {None} /\ None \notin Items
      /\ j \in Jobs /\ req[q].sjob = job[j]
      /\ DOMAIN item = Items /\ \A i \in Items : item[i] \in ItemRow
      /\ req[q].pc = "llm" => t \in Items
  BY <1>1, AtWork DEF Alone, TypeOK, HasTarget
<1>3. \A i \in Items : flushed[i] = item[i]
                       \/ flushed[i].status = "cancelled"
  BY <1>2 DEF SetStatus, ItemRow
<1>4. DOMAIN flushed = Items
  BY DEF SetStatus
<1>5. ASSUME \A p \in Requests : UpToDate(req[p])', UNCHANGED <<rec, mealie>>,
             \A i \in Items : Kept(i), CancelledStays
      PROVE  Preserved
  BY <1>5, KeptIsEnough DEF Preserved, AloneInvariant
<1>6. ASSUME NEW r, item' = [item EXCEPT ![t] = r],
             t \in Items => r.status \in {"review", "failed"}
      PROVE  \A i \in Items : Kept(i)
  BY <1>2, <1>6 DEF Kept
<1>7. CASE ProcessNothing(q)
  <2>1. \A i \in Items : Kept(i)
    BY <1>3, <1>7 DEF ProcessNothing, Kept
  <2> QED
    BY <1>1, <1>5, <1>7, <2>1, RecountAlone, FinishUpToDate DEF ProcessNothing
<1>8. CASE ProcessStale(q)
  <2> DEFINE r == OrmRow(flushed[t], req[q].seen, "source_updated", FALSE, flushed[t].json)
  <2>1. /\ item' = [flushed EXCEPT ![t] = r]
        /\ WriteJob(q, Recounted(q, flushed)) /\ Finish(q) /\ UNCHANGED <<rec, mealie>>
    BY <1>8 DEF ProcessStale
  <2>2. t \in Items => r.status \in {"source_updated", "cancelled"}
    BY <1>2, <1>3 DEF OrmRow, OrmSet
  <2>3. \A i \in Items : Kept(i)
    <3> HIDE DEF r, flushed, t
    <3> QED
      BY <1>3, <1>4, <2>1, <2>2 DEF Kept
  <2> QED
    BY <1>1, <1>5, <2>1, <2>3, RecountAlone, FinishUpToDate
<1>9. CASE ClaimProcess(q)
  <2> DEFINE r == [flushed[t] EXCEPT !.status = "processing", !.infra = FALSE]
  <2>1. t \in Items
    BY <1>2, <1>9 DEF ClaimProcess
  <2>2. /\ item' = [flushed EXCEPT ![t] = r]
        /\ WriteJob(q, "processing") /\ UNCHANGED <<rec, mealie>>
        /\ req' = [req EXCEPT ![q].pc = "llm", ![q].seen = item'[t],
                              ![q].sjob = "processing", ![q].set = {}]
        /\ AtClaim(q)
    BY <1>9 DEF ClaimProcess
  <2>3. r.status = "processing"
    <3>1. flushed[t] \in ItemRow
      BY <2>1, SetStatusType DEF Alone, ItemStatus
    <3> QED
      BY <3>1 DEF ItemRow
  <2>4. \A i \in Items : Kept(i)
    <3> HIDE DEF r, flushed, t
    <3> QED
      BY <1>3, <1>4, <2>2, <2>3 DEF Kept
  <2>5. job'[j] = "processing" /\ CancelledStays
    BY <1>1, <1>2, <2>2, WriteJobAlone DEF UpToDate, AtClaim
  <2>6. UpToDate(req[q])'
    <3>1. /\ req'[q].op = req[q].op /\ req'[q].pc = "llm" /\ req'[q].job = j
          /\ req'[q].it = t /\ req'[q].seen = item'[t] /\ req'[q].sjob = "processing"
      BY <1>2, <2>2 DEF Alone, TypeOK, Request
    <3>2. req[q].op \in ProcessOps
      BY <2>2 DEF AtClaim
    <3> QED
      BY <2>5, <3>1, <3>2 DEF UpToDate, ProcessOps, PastClaim, HasRecipe
  <2> QED
    BY <1>5, <2>2, <2>4, <2>5, <2>6 DEF Alone, OneAtATime
<1>10. CASE ClaimLost(q)
  BY <1>5, <1>10, FinishUpToDate DEF ClaimLost, Kept, CancelledStays
<1>11. CASE Normalized(q)
  <2> DEFINE r(v) == OrmRow(item[t], req[q].seen, "review", FALSE, v)
             rows(v) == [item EXCEPT ![t] = r(v)]
             next(v) == [Idle EXCEPT !.op = "process_batch", !.pc = "next",
                                     !.job = j, !.sjob = Recounted(q, rows(v))]
  <2>1. PICK v \in Results :
          /\ item' = rows(v)
          /\ WriteJob(q, Recounted(q, rows(v)))
          /\ \/ Finish(q)
             \/ req' = [req EXCEPT ![q] = next(v)]
             \/ req' = [req EXCEPT ![q] = Choosing("combined", j, {t})]
    BY <1>11 DEF Normalized
  <2>2. t \in Items => r(v).status = "review"
    BY <1>2 DEF OrmRow, OrmSet
  <2>3. \A i \in Items : Kept(i)
    <3> HIDE DEF r, t
    <3> QED
      BY <1>6, <2>1, <2>2
  <2>4. job'[j] = Recounted(q, rows(v)) /\ CancelledStays
    BY <1>1, <2>1, RecountAlone
  <2>5. ASSUME req' = [req EXCEPT ![q] = next(v)]
        PROVE  UpToDate(req[q])'
    <3>1. /\ next(v).op = "process_batch" /\ next(v).pc = "next" /\ next(v).it = None
          /\ next(v).job = j /\ next(v).sjob = Recounted(q, rows(v))
      BY DEF Idle
    <3>2. req'[q] = next(v)
      BY <2>5 DEF Alone, TypeOK
    <3>3. Recounted(q, rows(v)) # "absent"
      BY RecountedIsNotAbsent
    <3> HIDE DEF next, rows, r
    <3> QED
      BY <2>4, <3>1, <3>2, <3>3 DEF UpToDate, ProcessOps, PastClaim, HasRecipe
  <2>7. job'[j] # "absent"
    <3> HIDE DEF rows
    <3> QED
      BY <2>4, RecountedIsNotAbsent
  <2>8. ASSUME req' = [req EXCEPT ![q] = Choosing("combined", j, {t})]
        PROVE  \A p \in Requests : UpToDate(req[p])'
    BY <1>2, <2>7, <2>8, ChoosingUpToDate
  <2>6. \A p \in Requests : UpToDate(req[p])'
    <3> HIDE DEF next
    <3> QED
      BY <2>1, <2>5, <2>8, FinishUpToDate DEF Alone, OneAtATime
  <2> QED
    BY <1>5, <1>11, <2>3, <2>4, <2>6 DEF Normalized
<1>12. CASE NextOfBatch(q)
  <2>1. UNCHANGED <<job, item, rec, mealie>>
    BY <1>12 DEF NextOfBatch
  <2>2. Queued(j) \in SUBSET Items /\ "process_batch" \in ProcessOps
    BY DEF Queued, ItemsOf, ProcessOps
  <2>3. \/ PickItem(q, "process_batch", j, job[j], Queued(j))
        \/ Finish(q)
    BY <1>2, <1>12 DEF NextOfBatch
  <2>4. \A p \in Requests : UpToDate(req[p])'
    BY <1>2, <2>1, <2>2, <2>3, PickItemAlone, FinishUpToDate
  <2> QED
    BY <1>5, <2>1, <2>4 DEF Kept, CancelledStays
<1>13. CASE NormalizationFailed(q)
  <2> DEFINE r(infra) == OrmRow(item[t], req[q].seen, "failed", infra, item[t].json)
             rows(infra) == [item EXCEPT ![t] = r(infra)]
             stored == OrmSet(job[j], req[q].sjob, Recounted(q, item))
             requeues == [Idle EXCEPT !.op = req[q].op, !.pc = "requeue", !.job = j]
             one == [requeues EXCEPT !.sjob = Recounted(q, item), !.set = {t}]
             all(infra) == [requeues EXCEPT !.sjob = stored,
                                            !.set = InfraFailures(j, rows(infra))]
  <2>1. PICK infra \in BOOLEAN :
          /\ item' = rows(infra)
          /\ req' = [req EXCEPT ![q] =
                       IF infra /\ req[q].op = "process_item" THEN one
                       ELSE IF infra /\ req[q].op = "combined" THEN all(infra)
                       ELSE Idle]
    BY <1>13 DEF NormalizationFailed, FailedRow
  <2>2. WriteJob(q, Recounted(q, item)) /\ UNCHANGED <<rec, mealie>>
    BY <1>13 DEF NormalizationFailed
  <2>3. t \in Items => r(infra).status = "failed"
    BY <1>2 DEF OrmRow, OrmSet
  <2>4. \A i \in Items : Kept(i)
    <3> HIDE DEF r, t
    <3> QED
      BY <1>6, <2>1, <2>3
  <2>5. job'[j] = Recounted(q, item) /\ CancelledStays
    BY <1>1, <2>2, RecountAlone
  <2>6. stored = Recounted(q, item)
    BY <1>2 DEF OrmSet
  <2>7. Recounted(q, item) # "absent"
    BY RecountedIsNotAbsent
  <2>8. ASSUME req'[q].op \in ProcessOps, req'[q].pc = "requeue", req'[q].it = None,
               req'[q].job = j, req'[q].sjob = Recounted(q, item)
        PROVE  UpToDate(req[q])'
    BY <2>5, <2>7, <2>8 DEF UpToDate, ProcessOps, PastClaim, HasRecipe
  <2>9. \A x \in {one, all(infra)} :
          /\ x.op = req[q].op /\ x.pc = "requeue" /\ x.it = None
          /\ x.job = j /\ x.sjob = Recounted(q, item)
    BY <2>6 DEF Idle
  <2>10. UpToDate(req[q])'
    <3>1. \/ infra /\ req[q].op = "process_item" /\ req' = [req EXCEPT ![q] = one]
          \/ infra /\ req[q].op = "combined" /\ req' = [req EXCEPT ![q] = all(infra)]
          \/ Finish(q)
      BY <2>1 DEF Finish
    <3>2. \/ req[q].op \in ProcessOps /\ (req'[q] = one \/ req'[q] = all(infra))
          \/ Finish(q)
      <4> HIDE DEF one, all
      <4> QED
        BY <3>1 DEF Alone, TypeOK, ProcessOps
    <3> HIDE DEF one, all
    <3> QED
      BY <2>8, <2>9, <3>2, FinishUpToDate
  <2> QED
    BY <1>5, <2>2, <2>4, <2>5, <2>10 DEF Alone, OneAtATime
<1>14. CASE CommitRequeue(q)
  <2>1. \A i \in Items : Kept(i)
    BY <1>2, <1>14 DEF CommitRequeue, Kept, ItemRow
  <2> QED
    BY <1>1, <1>5, <1>14, <2>1, RecountAlone, FinishUpToDate DEF CommitRequeue
<1> QED
  BY <1>7, <1>8, <1>9, <1>10, <1>11, <1>12, <1>13, <1>14 DEF ProcessStep

(* Every step of an import. *)
LEMMA ImportStepAlone ==
  ASSUME Alone, NEW q \in Requests, ImportStep(q)
  PROVE  Preserved
<1> DEFINE t == req[q].it
           s == req[q].slug
<1>1. req[q] # Idle /\ req[q].op = "import" /\ req[q].pc # "choose"
  <2>1. req[q].op = "import"
    BY DEF ImportStep, ClaimImport, ImportRefused, CreateBlank, CreateFailed, CreateReplyLost,
           RecordSlug, PatchApplied, ImportFailed, ImportVerified, DeleteCreated, DeleteFailed,
           ImportUndone, ImportStranded, Created, Importing
  <2>2. HasTarget(req[q])
    BY DEF Alone, ImportInvariant
  <2> QED
    BY <2>1, <2>2 DEF Idle, HasTarget
<1>2. /\ req[q] \in Request /\ HasTarget(req[q]) /\ UpToDate(req[q])
      /\ t \in Items /\ None \notin Items /\ req[q].seen = item[t]
      /\ item[t] \in ItemRow /\ rec[t] \in RecordRow /\ item[t].json # "block"
      /\ DOMAIN item = Items /\ DOMAIN rec = Items /\ DOMAIN mealie = Slugs
      /\ DOMAIN req = Requests
      /\ \A x \in Slugs : mealie[x] \in MealieRow
  BY <1>1, AtWork DEF Alone, TypeOK, HasTarget, UpToDate
<1>3. /\ BlockedIsNotImported /\ ImportedIsInMealie
      /\ req[q].pc \in PastClaim => item[t].status = "importing"
  BY <1>2 DEF Alone, AloneInvariant, UpToDate
<1>4. ASSUME UNCHANGED <<job, item>>, req[q].pc \in PastClaim, NEW pc \in PastClaim,
             Goto(q, pc) \/ (req[q].pc = "create" /\ \E x \in Slugs :
                               req' = [req EXCEPT ![q].pc = pc, ![q].slug = x]),
             req'[q].pc \in HasRecipe =>
               /\ req'[q].slug \in Slugs /\ mealie'[req'[q].slug].state # "free"
               /\ \A i \in Items : item[i].status = "imported" => rec'[i].slug # req'[q].slug,
             req'[q].pc = "verify" => mealie'[req'[q].slug].state = "managed",
             ImportedIsInMealie'
      PROVE  Preserved
  <2>1. /\ req'[q].op = "import" /\ req'[q].pc = pc /\ req'[q].it = t
        /\ req'[q].job = req[q].job /\ req'[q].seen = req[q].seen /\ req'[q].sjob = req[q].sjob
    BY <1>1, <1>2, <1>4 DEF Goto, Request
  <2>2. /\ t # None => req[q].seen = item[t]
        /\ req[q].job # None => req[q].sjob = job[req[q].job] /\ job[req[q].job] # "absent"
        /\ req[q].seen.json # "block" /\ req[q].seen.status = "importing"
    BY <1>1, <1>2, <1>4 DEF UpToDate
  <2>3. (pc = "verify" => pc \in HasRecipe) /\ "import" \notin ProcessOps
        /\ "import" \notin {"approve_job", "retry", "reconcile"}
    BY DEF HasRecipe, ProcessOps
  <2>4. UpToDate(req[q])'
    BY <1>4, <2>1, <2>2, <2>3 DEF UpToDate
  <2>5. BlockedIsNotImported'
    BY <1>3, <1>4 DEF BlockedIsNotImported
  <2> QED
    BY <1>4, <2>4, <2>5 DEF Preserved, AloneInvariant, CancelledStays, Alone, OneAtATime
<1>5. /\ PastClaim = {"create", "undone", "stranded"} \cup HasRecipe
      /\ HasRecipe = {"created", "patch", "verify", "delete"}
  BY DEF PastClaim, HasRecipe
<1>6. req[q].pc \in HasRecipe =>
        /\ s \in Slugs /\ mealie[s].state # "free"
        /\ \A i \in Items : item[i].status = "imported" => rec[i].slug # s
  BY <1>2 DEF UpToDate
<1>7. CASE ClaimImport(q)
  <2> DEFINE claimed == [item[t] EXCEPT !.status = "importing", !.infra = FALSE]
             seen == [claimed EXCEPT !.json = req[q].seen.json]
  <2>1. /\ item' = [item EXCEPT ![t] = claimed]
        /\ rec' = [rec EXCEPT ![t] = [state |-> "importing", slug |-> None]]
        /\ req' = [req EXCEPT ![q].pc = "create", ![q].seen = seen]
        /\ UNCHANGED <<job, mealie>>
    BY <1>7 DEF ClaimImport
  <2>2. claimed.status = "importing" /\ claimed.json = item[t].json
        /\ seen = claimed
    BY <1>2 DEF ItemRow
  <2>3. BlockedIsNotImported' /\ ImportedIsInMealie'
    <3> HIDE DEF claimed, seen, t
    <3>1. \A i \in Items : i # t => item'[i] = item[i] /\ rec'[i] = rec[i]
      BY <2>1
    <3>2. item'[t] = claimed
      BY <1>2, <2>1
    <3> QED
      BY <1>2, <1>3, <2>1, <2>2, <3>1, <3>2 DEF BlockedIsNotImported, ImportedIsInMealie
  <2>4. /\ req'[q].op = "import" /\ req'[q].pc = "create" /\ req'[q].it = t
        /\ req'[q].job = req[q].job /\ req'[q].seen = item'[t] /\ req'[q].sjob = req[q].sjob
        /\ item'[t].status = "importing" /\ item'[t].json # "block"
    <3> HIDE DEF claimed, seen
    <3> QED
      BY <1>1, <1>2, <2>1, <2>2 DEF Request
  <2>5. UpToDate(req[q])'
    BY <1>1, <1>2, <2>1, <2>4 DEF UpToDate, HasRecipe, ProcessOps
  <2> QED
    BY <2>1, <2>3, <2>5 DEF Preserved, AloneInvariant, CancelledStays, Alone, OneAtATime
<1>17. req[q].job \in Jobs /\ job[req[q].job] # "absent"
  BY <1>1, AtWork
<1>8. CASE ImportRefused(q)
  BY <1>3, <1>8, <1>17, GoOnUpToDate, KeptIsEnough
  DEF ImportRefused, Preserved, AloneInvariant, CancelledStays, Kept
<1>9. CASE CreateBlank(q) \/ CreateReplyLost(q)
  <2>1. PICK x \in Slugs :
          /\ Created(q, x)
          /\ \/ req' = [req EXCEPT ![q].pc = "created", ![q].slug = x]
             \/ Goto(q, "undone")
    BY <1>9 DEF CreateBlank, CreateReplyLost
  <2>2. /\ UNCHANGED <<job, item, rec>> /\ mealie[x].state = "free" /\ req[q].pc = "create"
        /\ mealie' = [mealie EXCEPT ![x] = [state |-> "blank", owner |-> t]]
    BY <1>9, <2>1 DEF CreateBlank, CreateReplyLost, Created, Importing
  <2>3. /\ \A i \in Items : item[i].status = "imported" => rec[i].slug # x
        /\ mealie'[x].state = "blank"
        /\ \A y \in Slugs : y # x => mealie'[y] = mealie[y]
    BY <1>2, <1>3, <2>2 DEF ImportedIsInMealie
  <2>4. \A i \in Items : rec[i].slug \in Slugs \cup {None}
    BY DEF Alone, TypeOK, RecordRow
  <2>5. ImportedIsInMealie'
    BY <1>3, <2>2, <2>3, <2>4 DEF ImportedIsInMealie
  <2>6. CASE req' = [req EXCEPT ![q].pc = "created", ![q].slug = x]
    <3>1. req'[q].pc = "created" /\ req'[q].slug = x
      BY <1>2, <2>6 DEF Request
    <3>2. /\ "created" \in PastClaim /\ req[q].pc \in PastClaim /\ "created" # "verify"
          /\ UNCHANGED <<job, item>>
          /\ \E y \in Slugs : req' = [req EXCEPT ![q].pc = "created", ![q].slug = y]
      BY <1>5, <2>2, <2>6
    <3>3. /\ req'[q].slug \in Slugs /\ mealie'[req'[q].slug].state # "free"
          /\ \A i \in Items : item[i].status = "imported" => rec'[i].slug # req'[q].slug
      BY <2>2, <2>3, <3>1
    <3> QED
      BY <1>4, <2>2, <2>5, <3>1, <3>2, <3>3
  <2>7. CASE Goto(q, "undone")
    <3>1. req'[q].pc = "undone"
      BY <1>2, <2>7 DEF Request, Goto
    <3> QED
      BY <1>4, <1>5, <2>2, <2>5, <2>7, <3>1
  <2> QED
    BY <2>1, <2>6, <2>7
<1>10. CASE CreateFailed(q) \/ ImportFailed(q) \/ DeleteFailed(q)
  <2>1. /\ UNCHANGED <<job, item, rec, mealie>> /\ req[q].pc \in PastClaim
        /\ \/ Goto(q, "undone") \/ Goto(q, "stranded")
           \/ Goto(q, "delete") /\ req[q].pc \in HasRecipe
    BY <1>5, <1>10 DEF CreateFailed, ImportFailed, DeleteFailed, Importing
  <2>2. ImportedIsInMealie'
    BY <1>3, <2>1 DEF ImportedIsInMealie
  <2>3. ASSUME NEW pc \in {"undone", "stranded", "delete"}, Goto(q, pc)
        PROVE  req'[q].pc = pc /\ req'[q].slug = s
    BY <1>2, <2>3 DEF Goto, Request
  <2> QED
    BY <1>4, <1>5, <1>6, <2>1, <2>2, <2>3
<1>11. CASE RecordSlug(q)
  <2>1. /\ UNCHANGED <<job, item, mealie>> /\ req[q].pc = "created" /\ Goto(q, "patch")
        /\ rec' = [rec EXCEPT ![t].slug = s]
    BY <1>11 DEF RecordSlug, Importing
  <2>2. \A i \in Items : item[i].status = "imported" => rec'[i] = rec[i]
    BY <1>2, <1>3, <1>5, <2>1
  <2>3. ImportedIsInMealie'
    BY <1>3, <2>1, <2>2 DEF ImportedIsInMealie
  <2>4. req'[q].pc = "patch" /\ req'[q].slug = s
    BY <1>2, <2>1 DEF Goto, Request
  <2> QED
    BY <1>4, <1>5, <1>6, <2>1, <2>2, <2>3, <2>4
<1>12. CASE PatchApplied(q)
  <2>1. /\ UNCHANGED <<job, item, rec>> /\ req[q].pc = "patch" /\ Goto(q, "verify")
        /\ mealie' = [mealie EXCEPT ![s].state = "managed"]
    BY <1>12 DEF PatchApplied, Importing
  <2>2. s \in Slugs /\ mealie'[s].state = "managed"
        /\ \A y \in Slugs : y # s => mealie'[y] = mealie[y]
    BY <1>2, <1>5, <1>6, <2>1 DEF MealieRow
  <2>3. \A i \in Items : rec[i].slug \in Slugs \cup {None}
    BY DEF Alone, TypeOK, RecordRow
  <2>4. ImportedIsInMealie'
    BY <1>3, <2>1, <2>2, <2>3 DEF ImportedIsInMealie
  <2>5. req'[q].pc = "verify" /\ req'[q].slug = s
    BY <1>2, <2>1 DEF Goto, Request
  <2> QED
    BY <1>4, <1>5, <1>6, <2>1, <2>2, <2>4, <2>5
<1>13. CASE DeleteCreated(q)
  <2>1. /\ UNCHANGED <<job, item, rec>> /\ req[q].pc = "delete"
        /\ Goto(q, "undone") \/ Goto(q, "stranded")
        /\ mealie' = [mealie EXCEPT ![s] = FreeSlug]
    BY <1>13 DEF DeleteCreated, Importing
  <2>2. \A y \in Slugs : y # s => mealie'[y] = mealie[y]
    BY <1>2, <2>1
  <2>3. \A i \in Items : rec[i].slug \in Slugs \cup {None}
    BY DEF Alone, TypeOK, RecordRow
  <2>4. ImportedIsInMealie'
    BY <1>3, <1>5, <1>6, <2>1, <2>2, <2>3 DEF ImportedIsInMealie
  <2>5. ASSUME NEW pc \in {"undone", "stranded"}, Goto(q, pc)
        PROVE  req'[q].pc = pc
    BY <1>2, <2>5 DEF Goto, Request
  <2> QED
    BY <1>4, <1>5, <2>1, <2>4, <2>5
<1>14. ASSUME NEW status, NEW record, SettleImport(q, status),
              rec' = [rec EXCEPT ![t] = record],
              StopOrGoOn(q, req[q].set) \/ GoOn(q, req[q].set),
              req[q].pc \in PastClaim,
              status # "importing",
              status = "imported" =>
                record.state = "imported" /\ record.slug # None
                /\ mealie[record.slug].state = "managed"
       PROVE  Preserved
  <2>1. Flush(q, status, item[t].json) /\ UNCHANGED mealie
    BY <1>14 DEF SettleImport
  <2>2. \A i \in Items :
          \/ i # t /\ item'[i] = item[i]
          \/ i = t /\ item'[i].status = status /\ item'[i].json = item[t].json
    BY <1>1, <2>1, FlushAlone
  <2>3. \A i \in Items : \/ i # t /\ rec'[i] = rec[i]
                         \/ i = t /\ rec'[i] = record
    BY <1>2, <1>14
  <2>4. BlockedIsNotImported'
    BY <1>2, <1>3, <2>2 DEF BlockedIsNotImported
  <2>5. ImportedIsInMealie'
    BY <1>3, <1>14, <2>1, <2>2, <2>3 DEF ImportedIsInMealie
  <2>6. CancelledStays /\ \A p \in Requests : UpToDate(req[p])'
    BY <1>1, <1>14, <2>1, FlushAlone, GoOnUpToDate
  <2> QED
    BY <2>4, <2>5, <2>6 DEF Preserved, AloneInvariant
<1>15. CASE ImportVerified(q)
  <2> DEFINE record == [state |-> "imported", slug |-> s]
  <2>1. /\ SettleImport(q, "imported") /\ rec' = [rec EXCEPT ![t] = record]
        /\ GoOn(q, req[q].set) /\ req[q].pc = "verify"
        /\ record.state = "imported" /\ record.slug = s
    BY <1>15 DEF ImportVerified, Importing, MarkRecordImported
  <2>2. s \in Slugs /\ mealie[s].state = "managed" /\ s # None
    BY <1>2, <2>1, ImportAssumption DEF UpToDate
  <2> HIDE DEF record
  <2> QED
    BY <1>5, <1>14, <2>1, <2>2
<1>16. CASE ImportUndone(q) \/ ImportStranded(q)
  BY <1>5, <1>14, <1>16 DEF ImportUndone, ImportStranded, Importing, MarkRecordFailed
<1> QED
  BY <1>7, <1>8, <1>9, <1>10, <1>11, <1>12, <1>13, <1>15, <1>16 DEF ImportStep

(* Every step of an automatic import between two imports. *)
LEMMA AutoImportStepAlone ==
  ASSUME Alone, NEW q \in Requests, AutoImportStep(q)
  PROVE  Preserved
<1> DEFINE t == req[q].it
           j == req[q].job
<1>1. /\ req[q] \in Request /\ HasTarget(req[q]) /\ UpToDate(req[q])
      /\ j \in Jobs /\ job[j] # "absent" /\ None \notin Jobs
      /\ req[q].op \in {"auto_import", "combined"} /\ req[q] # Idle
      /\ req[q].set \in SUBSET Items
  <2>1. req[q].pc \in {"choose", "approve", "start"}
    BY DEF AutoImportStep, ChooseNext, ApproveChosen, StartChosen
  <2>2. req[q] \in Request /\ HasTarget(req[q]) /\ UpToDate(req[q]) /\ req[q] # Idle
    BY <2>1 DEF Alone, AloneInvariant, ImportInvariant, TypeOK, Idle
  <2> QED
    BY <2>1, <2>2, ImportAssumption DEF HasTarget, UpToDate, Request
<1>2. ASSUME \A p \in Requests : UpToDate(req[p])', UNCHANGED <<rec, mealie>>,
             \A i \in Items : Kept(i), CancelledStays
      PROVE  Preserved
  BY <1>2, KeptIsEnough DEF Preserved, AloneInvariant
<1>3. CASE ChooseNext(q)
  <2> DEFINE rest(i) == req[q].set \ {i}
             next(i, pc) == [ReadJob(req[q].op, j) EXCEPT
                               !.pc = pc, !.it = i, !.seen = item[i], !.set = rest(i)]
  <2>1. PICK i \in req[q].set, pc \in {"approve", "start"} :
          \/ item[i].json = "clean" /\ req' = [req EXCEPT ![q] = next(i, pc)]
          \/ StopOrGoOn(q, rest(i))
    BY <1>3 DEF ChooseNext
  <2>2. UNCHANGED <<job, item, rec, mealie>>
    BY <1>3 DEF ChooseNext
  <2>3. /\ next(i, pc).job = j /\ next(i, pc).it = i /\ next(i, pc).pc = pc
        /\ next(i, pc).seen = item[i] /\ next(i, pc).op = req[q].op
        /\ next(i, pc).sjob = job[j]
    BY DEF ReadJob, Idle
  <2>4. ASSUME item[i].json = "clean", req' = [req EXCEPT ![q] = next(i, pc)]
        PROVE  UpToDate(req[q])'
    <3> HIDE DEF next
    <3>1. req'[q] = next(i, pc)
      BY <2>4 DEF Alone, TypeOK
    <3> QED
      BY <1>1, <2>1, <2>2, <2>3, <2>4, <3>1 DEF UpToDate, ProcessOps, PastClaim, HasRecipe
  <2>5. \A p \in Requests : UpToDate(req[p])'
    <3> HIDE DEF next, rest
    <3> QED
      BY <1>1, <2>1, <2>2, <2>4, GoOnUpToDate DEF Alone, OneAtATime
  <2> QED
    BY <1>2, <2>2, <2>5 DEF Kept, CancelledStays
<1>4. CASE ApproveChosen(q)
  <2>1. /\ Flush(q, "approved_for_import", item[t].json) /\ UNCHANGED <<rec, mealie>>
        /\ req' = [req EXCEPT ![q].pc = "start", ![q].seen = item'[t], ![q].sjob = job'[j]]
        /\ req[q].pc = "approve"
    BY <1>4 DEF ApproveChosen
  <2>2. t \in Items /\ t # None
    BY <1>1, <2>1, ImportAssumption DEF HasTarget, Items
  <2>3. item[t].json # "block"
    BY <1>1, <2>1, <2>2 DEF UpToDate
  <2>4. /\ CancelledStays /\ job'[j] # "absent"
        /\ \A i \in Items : Kept(i)
    BY <1>1, <2>1, <2>3, FlushAlone DEF Kept
  <2>5. /\ req'[q].op = req[q].op /\ req'[q].pc = "start" /\ req'[q].it = t
        /\ req'[q].job = j /\ req'[q].seen = item'[t] /\ req'[q].sjob = job'[j]
    BY <1>1, <2>1 DEF Alone, TypeOK, Request
  <2>6. UpToDate(req[q])'
    BY <1>1, <2>4, <2>5 DEF UpToDate, ProcessOps, PastClaim, HasRecipe
  <2> QED
    BY <1>2, <2>1, <2>4, <2>6 DEF Alone, OneAtATime
<1>5. CASE StartChosen(q)
  <2> DEFINE next == [ReadJob("import", j) EXCEPT
                        !.pc = "claim", !.it = t, !.seen = item[t], !.set = req[q].set]
  <2>1. /\ \/ CanImport(t) /\ req' = [req EXCEPT ![q] = next]
           \/ StopOrGoOn(q, req[q].set)
        /\ UNCHANGED <<job, item, rec, mealie>> /\ req[q].pc = "start"
    BY <1>5 DEF StartChosen
  <2>2. t \in Items
    BY <1>1, <2>1 DEF HasTarget
  <2>3. /\ next.job = j /\ next.it = t /\ next.pc = "claim" /\ next.seen = item[t]
        /\ next.op = "import" /\ next.sjob = job[j]
    BY DEF ReadJob, Idle
  <2>4. CanImport(t) => item[t].json # "block"
    BY <2>2 DEF CanImport, Alone, AloneInvariant, BlockedIsNotImported
  <2>5. ASSUME CanImport(t), req' = [req EXCEPT ![q] = next]
        PROVE  UpToDate(req[q])'
    <3> HIDE DEF next
    <3>1. req'[q] = next
      BY <2>5 DEF Alone, TypeOK
    <3> QED
      BY <1>1, <2>1, <2>3, <2>4, <2>5, <3>1 DEF UpToDate, ProcessOps, PastClaim, HasRecipe
  <2>6. \A p \in Requests : UpToDate(req[p])'
    <3> HIDE DEF next
    <3> QED
      BY <1>1, <2>1, <2>5, GoOnUpToDate DEF Alone, OneAtATime
  <2> QED
    BY <1>2, <2>1, <2>6 DEF Kept, CancelledStays
<1> QED
  BY <1>3, <1>4, <1>5 DEF AutoImportStep

(* A request that starts knows what it has just read. *)
LEMMA StartAlone ==
  ASSUME Alone, NEW q \in Requests, NEW r, Start(q, r), UpToDate(r)',
         UNCHANGED <<job, item, rec, mealie>>
  PROVE  Preserved
<1>1. BlockedIsNotImported' /\ ImportedIsInMealie' /\ CancelledStays
  BY KeptIsEnough DEF Kept, CancelledStays
<1>2. req'[q] = r
  BY DEF Start, Alone, TypeOK
<1>3. UpToDate(req[q])'
  BY <1>2 DEF UpToDate
<1> QED
  BY <1>1, <1>3 DEF Preserved, AloneInvariant, Alone, OneAtATime

(* A request on a job starts with the job's status. *)
LEMMA JobRequestAlone ==
  ASSUME Alone, NEW q \in Requests, JobRequest(q)
  PROVE  Preserved
<1>1. \A i \in Items : job[i[1]] = "absent" => item[i].status = "absent"
  BY DEF Alone, ImportInvariant, AbsentJobIsEmpty, NoRow
<1>2. ASSUME NEW j \in Jobs, BeginApproveJob(q, j) \/ BeginCancelJob(q, j) \/ BeginRequeue(q, j)
      PROVE  Preserved
  <2>1. UNCHANGED <<job, item, rec, mealie>>
    BY <1>2 DEF BeginApproveJob, BeginCancelJob, BeginRequeue
  <2>2. ASSUME NEW r, Start(q, r), r.op \in {"approve_job", "cancel_job", "combined"},
               r.pc \in {"commit", "requeue"}, r.job = j, r.it = None, r.sjob = job[j],
               job[j] # "absent", r.op = "approve_job" => job[j] = "draft"
        PROVE  Preserved
    <3>1. UpToDate(r)'
      BY <2>1, <2>2 DEF UpToDate, PastClaim, HasRecipe
    <3> QED
      BY <2>1, <2>2, <3>1, StartAlone
  <2>3. CASE BeginApproveJob(q, j)
    <3> DEFINE r == ReadJob("approve_job", j)
    <3>1. Start(q, r) /\ job[j] = "draft"
      BY <2>3 DEF BeginApproveJob
    <3>2. r.op = "approve_job" /\ r.pc = "commit" /\ r.job = j /\ r.it = None /\ r.sjob = job[j]
      BY DEF ReadJob, Idle
    <3> HIDE DEF r
    <3> QED
      BY <2>2, <3>1, <3>2
  <2>4. CASE BeginCancelJob(q, j)
    <3> DEFINE r == [ReadJob("cancel_job", j) EXCEPT !.set = Cancellable(j)]
    <3>1. Start(q, r) /\ job[j] # "absent"
      BY <2>4 DEF BeginCancelJob
    <3>2. r.op = "cancel_job" /\ r.pc = "commit" /\ r.job = j /\ r.it = None /\ r.sjob = job[j]
      BY DEF ReadJob, Idle
    <3> HIDE DEF r
    <3> QED
      BY <2>2, <3>1, <3>2
  <2>5. CASE BeginRequeue(q, j)
    <3> DEFINE r == [ReadJob("combined", j) EXCEPT !.pc = "requeue",
                                                   !.set = InfraFailures(j, item)]
    <3>1. Start(q, r)
      BY <2>5 DEF BeginRequeue
    <3>2. r.op = "combined" /\ r.pc = "requeue" /\ r.job = j /\ r.it = None /\ r.sjob = job[j]
      BY DEF ReadJob, Idle
    <3>3. job[j] # "absent"
      BY <1>1, <2>5 DEF BeginRequeue, InfraFailures
    <3> HIDE DEF r
    <3> QED
      BY <2>2, <3>1, <3>2, <3>3
  <2> QED
    BY <1>2, <2>3, <2>4, <2>5
<1>3. ASSUME NEW j \in Jobs, NEW op \in ProcessOps, BeginProcess(q, op, j)
      PROVE  Preserved
  <2>1. PICK target \in IF op = "process_item" THEN Queued(j) ELSE {None} :
          PickItem(q, op, j, job[j], Candidates(op, j, target))
    BY <1>3 DEF BeginProcess
  <2>2. Candidates(op, j, target) \in SUBSET Items
    BY DEF Candidates, Queued, ItemsOf
  <2>3. UNCHANGED <<job, item, rec, mealie>>
    BY <1>3 DEF BeginProcess
  <2>4. \A p \in Requests : UpToDate(req[p])'
    BY <2>1, <2>2, <2>3, PickItemAlone
  <2> QED
    BY <2>3, <2>4, KeptIsEnough DEF Preserved, AloneInvariant, Kept, CancelledStays
<1>4. ASSUME NEW j \in Jobs, BeginAutoImport(q, j)
      PROVE  Preserved
  <2> DEFINE chosen(last) == {i \in CleanReviewed(j) : i[2] <= last[2]}
  <2>1. PICK last \in CleanReviewed(j) :
          Start(q, Choosing("auto_import", j, chosen(last)))
    BY <1>4 DEF BeginAutoImport
  <2>2. UNCHANGED <<job, item, rec, mealie>> /\ job[j] # "absent"
    BY <1>4 DEF BeginAutoImport
  <2>3. \A p \in Requests : UpToDate(req[p])'
    <3> HIDE DEF chosen
    <3> QED
      BY <2>1, <2>2, ChoosingUpToDate DEF Start
  <2> QED
    BY <2>2, <2>3, KeptIsEnough DEF Preserved, AloneInvariant, Kept, CancelledStays
<1> QED
  BY <1>2, <1>3, <1>4 DEF JobRequest

(* A request on an item starts with the item's row and its job's status. *)
LEMMA ItemRequestAlone ==
  ASSUME Alone, NEW q \in Requests, ItemRequest(q)
  PROVE  Preserved
<1>1. PICK i \in Items : \/ \E op \in AllOps : BeginReview(q, op, i)
                         \/ BeginImport(q, i)
                         \/ BeginReconcile(q, i)
  BY DEF ItemRequest
<1>2. item[i].status # "absent" \/ item[i].json # "none" => job[i[1]] # "absent"
  BY DEF Alone, ImportInvariant, AbsentJobIsEmpty, NoRow
<1>3. UNCHANGED <<job, item, rec, mealie>>
  BY <1>1 DEF BeginReview, BeginImport, BeginReconcile
<1>4. ASSUME NEW r, Start(q, r), r.job = i[1], r.it = i, r.seen = item[i], r.sjob = job[i[1]],
             job[i[1]] # "absent", r.pc \in {"commit", "claim"},
             r.op \in {"approve", "import"} => item[i].json # "block",
             r.op # "approve_job",
             r.op = "retry" => job[i[1]] # "cancelled",
             r.op \in ProcessOps => r.pc = "commit",
             r.op = "reconcile" => r.slug \in Slugs /\ mealie[r.slug].state = "managed"
      PROVE  Preserved
  <2>1. UpToDate(r)'
    BY <1>3, <1>4 DEF UpToDate, PastClaim, HasRecipe
  <2> QED
    BY <1>3, <1>4, <2>1, StartAlone
<1>5. ASSUME NEW op \in AllOps, BeginReview(q, op, i)
      PROVE  Preserved
  <2> DEFINE r == [ReadJob(op, i[1]) EXCEPT !.it = i, !.seen = item[i]]
  <2>1. Start(q, r) /\ CanRead(op, i)
    BY <1>5 DEF BeginReview
  <2>2. /\ r.op = op /\ r.job = i[1] /\ r.it = i /\ r.seen = item[i] /\ r.pc = "commit"
        /\ r.sjob = job[i[1]]
    BY DEF ReadJob, Idle
  <2>3. /\ item[i].status # "absent"
        /\ op = "approve" => item[i].json # "block"
        /\ op = "retry" => job[i[1]] # "cancelled"
        /\ op \notin {"import", "reconcile", "approve_job"}
    BY <2>1 DEF CanRead, Approvable
  <2> HIDE DEF r
  <2> QED
    BY <1>2, <1>4, <2>1, <2>2, <2>3
<1>6. CASE BeginImport(q, i)
  <2> DEFINE r == [ReadJob("import", i[1]) EXCEPT !.pc = "claim", !.it = i, !.seen = item[i]]
  <2>1. Start(q, r) /\ item[i].json # "none" /\ item[i].status = "approved_for_import"
    BY <1>6 DEF BeginImport, CanImport
  <2>2. /\ r.op = "import" /\ r.job = i[1] /\ r.it = i /\ r.seen = item[i] /\ r.pc = "claim"
        /\ r.sjob = job[i[1]]
    BY DEF ReadJob, Idle
  <2>3. item[i].json # "block"
    BY <2>1 DEF Alone, AloneInvariant, BlockedIsNotImported
  <2> HIDE DEF r
  <2> QED
    BY <1>2, <1>4, <2>1, <2>2, <2>3 DEF ProcessOps
<1>7. CASE BeginReconcile(q, i)
  <2> DEFINE r(s) == [ReadJob("reconcile", i[1]) EXCEPT !.it = i, !.seen = item[i], !.slug = s]
  <2>1. PICK s \in Slugs : Matches(i) = {s} /\ Start(q, r(s))
    BY <1>7 DEF BeginReconcile
  <2>2. item[i].json # "none" /\ mealie[s].state = "managed"
    BY <1>7, <2>1 DEF BeginReconcile, Matches
  <2>3. /\ r(s).op = "reconcile" /\ r(s).job = i[1] /\ r(s).it = i /\ r(s).seen = item[i]
        /\ r(s).pc = "commit" /\ r(s).sjob = job[i[1]] /\ r(s).slug = s
    BY DEF ReadJob, Idle
  <2> HIDE DEF r
  <2> QED
    BY <1>2, <1>4, <2>1, <2>2, <2>3
<1> QED
  BY <1>1, <1>5, <1>6, <1>7

(* As long as there is one request at a time, every step keeps what it relies on. *)
LEMMA StepAlone == Alone /\ [Next]_vars => Preserved
<1> SUFFICES ASSUME Alone, [Next]_vars PROVE Preserved
  OBVIOUS
<1>1. AloneInvariant /\ TypeOK /\ ImportInvariant
  BY DEF Alone
<1>2. ASSUME UNCHANGED <<job, item, rec, mealie>>,
             \A q \in Requests : req'[q] = req[q] \/ req'[q] = Idle
      PROVE  Preserved
  <2>1. \A q \in Requests : UpToDate(req[q])'
    <3> TAKE q \in Requests
    <3>1. UpToDate(req[q])
      BY <1>1 DEF AloneInvariant
    <3>2. CASE req'[q] = req[q]
      BY <1>2, <3>1, <3>2 DEF UpToDate
    <3>3. CASE req'[q] = Idle
      <4>1. UpToDate(Idle)'
        BY IdleUpToDate
      <4> QED
        BY <3>3, <4>1 DEF UpToDate
    <3> QED
      BY <1>2, <3>2, <3>3
  <2> QED
    BY <1>2, <2>1, KeptIsEnough DEF Preserved, AloneInvariant, Kept, CancelledStays
<1>3. CASE UNCHANGED vars \/ ResetWorkingTree \/ SyncRows \/ Crash
  BY <1>2, <1>3 DEF vars, ResetWorkingTree, SyncRows, Crash
<1>4. ASSUME NEW j \in Jobs, NEW selected \in SUBSET Recipes, CreateJob(j, selected)
      PROVE  Preserved
  <2>1. /\ job[j] = "absent" /\ job' = [job EXCEPT ![j] = "draft"]
        /\ UNCHANGED <<rec, mealie, req>>
        /\ \A i \in Items : i[1] # j => item'[i] = item[i]
        /\ \A i \in Items : item'[i] = item[i] \/ item'[i].status = "queued"
    <3>1. \A i \in Items : [NoRow EXCEPT !.status = "queued", !.rev = row[i[2]].rev].status = "queued"
      BY DEF NoRow
    <3> QED
      BY <1>4, <3>1 DEF CreateJob
  <2>2. \A i \in Items : Kept(i)
    BY <2>1 DEF Kept
  <2>3. CancelledStays
    BY <1>1, <2>1 DEF TypeOK, CancelledStays
  <2>4. ASSUME NEW q \in Requests
        PROVE  UpToDate(req[q])'
    <3>1. req[q] \in Request /\ HasTarget(req[q]) /\ UpToDate(req[q])
      BY <1>1 DEF TypeOK, ImportInvariant, AloneInvariant
    <3>2. req[q].it \in Items \cup {None} /\ req[q].job \in Jobs \cup {None}
      BY <3>1 DEF Request
    <3>3. req[q].it # None => item'[req[q].it] = item[req[q].it]
      BY <2>1, <3>1, <3>2 DEF HasTarget
    <3>4. req[q].job # None => job'[req[q].job] = job[req[q].job]
      BY <1>1, <2>1, <3>1, <3>2 DEF UpToDate, TypeOK
    <3>5. \A i \in Items : item'[i].status = "imported" => item[i].status = "imported"
      BY <2>1
    <3> QED
      BY <2>1, <3>1, <3>3, <3>4, <3>5 DEF UpToDate
  <2> QED
    BY <2>1, <2>2, <2>3, <2>4, KeptIsEnough DEF Preserved, AloneInvariant
<1>5. ASSUME NEW q \in Requests, JobRequest(q) \/ ItemRequest(q) \/ Progress(q)
      PROVE  Preserved
  BY <1>5, JobRequestAlone, ItemRequestAlone, ReviewCommitAlone, ProcessStepAlone,
     ImportStepAlone, AutoImportStepAlone
  DEF Progress
<1> QED
  BY <1>3, <1>4, <1>5 DEF Next

(* The empty queue satisfies the invariant. *)
LEMMA InitAlone == Init => AloneInvariant
<1> SUFFICES ASSUME Init PROVE AloneInvariant
  OBVIOUS
<1>1. \A q \in Requests : UpToDate(req[q])
  BY IdleUpToDate DEF Init
<1>2. \A i \in Items : item[i].status = "absent"
  BY DEF Init, NoRow
<1> QED
  BY <1>1, <1>2 DEF AloneInvariant, BlockedIsNotImported, ImportedIsInMealie

(***************************************************************************)
(* With one request at a time, and whatever operations, faults, crashes    *)
(* and changes of the source occur between its steps, what it read stays   *)
(* true until it writes.                                                   *)
(***************************************************************************)
THEOREM AloneInvariantHolds == OneAtATime => (Spec => []AloneInvariant)
<1> SUFFICES ASSUME OneAtATime PROVE Spec => []AloneInvariant
  OBVIOUS
<1>1. TypeOK /\ ImportInvariant /\ AloneInvariant /\ [Next]_vars => AloneInvariant'
  BY StepAlone DEF Alone, Preserved
<1> QED
  BY InitAlone, TypeAndInvariant, <1>1, PTL DEF Spec

(* Then no recipe with blocking problems is approved for import or imported. *)
THEOREM BlockedIsNotImportedHolds == OneAtATime => (Spec => []BlockedIsNotImported)
BY AloneInvariantHolds, PTL DEF AloneInvariant

(***************************************************************************)
(* Then an imported item has a record that says so and names a complete    *)
(* recipe, even if imports fail, are retried or reconciled, Mealie loses   *)
(* an answer, or the process stops.                                        *)
(***************************************************************************)
THEOREM ImportedIsInMealieHolds == OneAtATime => (Spec => []ImportedIsInMealie)
BY AloneInvariantHolds, PTL DEF AloneInvariant

(* Then a cancelled job stays cancelled. *)
THEOREM CancelledStaysCancelledHolds == OneAtATime => (Spec => CancelledStaysCancelled)
<1> SUFFICES ASSUME OneAtATime PROVE Spec => CancelledStaysCancelled
  OBVIOUS
<1>1. TypeOK /\ ImportInvariant /\ AloneInvariant /\ [Next]_vars => CancelledStays
  BY StepAlone DEF Alone, Preserved
<1>2. Spec => []AloneInvariant
  BY AloneInvariantHolds
<1>3. TypeOK /\ ImportInvariant /\ AloneInvariant /\ [Next]_vars
        => [\A j \in Jobs : job[j] = "cancelled" => job'[j] = "cancelled"]_vars
  BY <1>1 DEF CancelledStays
<1> QED
  BY TypeAndInvariant, <1>2, <1>3, PTL DEF Spec, CancelledStaysCancelled

-----------------------------------------------------------------------------
(* What a job's status says of its items *)

(* The statuses of an item that has, or may have, a recipe in Mealie. *)
Settled == {"importing", "imported", "import_failed"}

(***************************************************************************)
(* revalidate_import_item takes an item in any status and, when its source *)
(* changed, does not recount the job.                                      *)
(***************************************************************************)
NoRevalidation == "revalidate" \notin Ops

(***************************************************************************)
(* What a request knows of the items it is about to change: they are those *)
(* of its job, and in a status its operation starts from.                  *)
(***************************************************************************)
Knows(r) ==
  /\ r.op # "revalidate"
  /\ r.it # None => r.it[1] = r.job
  /\ \A i \in r.set : i[1] = r.job
  /\ Claiming(r) =>
       /\ \A i \in r.set : item[i].status = "queued"
       /\ r.it # None => item[r.it].status = "queued" /\ r.it \notin r.set
  /\ r.pc = "llm" => r.op \in ProcessOps /\ item[r.it].status = "processing"
  /\ r.pc = "requeue" => \A i \in r.set : item[i].status = "failed"
  /\ r.op = "cancel_job" => \A i \in r.set : item[i].status \notin Settled
  /\ r.it # None /\ r.op \notin {"import", "reconcile"} /\ r.pc # "start"
       => item[r.it].status \notin Settled

(* The inductive invariant: a recount rests on what the request knows. *)
CompletionInvariant ==
  /\ \A q \in Requests : Knows(req[q])
  /\ CompletedIsTerminal

(* What holds before a step, with a job status one can count on. *)
Sole == /\ Alone /\ CompletionInvariant
        /\ NoRevalidation

(* No step turns an item away from its recipe, but the end of an undone import. *)
Gentle(q) ==
  \A i \in Items :
    /\ item'[i].rev = item[i].rev
    /\ item[i].status \in Settled /\ ~(i = req[q].it /\ req[q].pc = "undone")
       => item'[i].status \in Settled

(* What every step of request q has to keep. *)
SoleStep(q) == Gentle(q) /\ CompletionInvariant'

(* With one slot, what its request knows is all that is known. *)
LEMMA SoleKnows ==
  ASSUME Sole, NEW q \in Requests, Knows(req[q])'
  PROVE  \A p \in Requests : Knows(req[p])'
BY DEF Sole, Alone, OneAtATime

(* An idle slot is about to change nothing. *)
LEMMA IdleKnows == ASSUME NEW r, r = Idle PROVE Knows(r) /\ Knows(r)'
BY DEF Knows, Idle, Claiming, ProcessOps

(* The one request ends. *)
LEMMA FinishKnows ==
  ASSUME Sole, NEW q \in Requests, Finish(q)
  PROVE  \A p \in Requests : Knows(req[p])'
<1>1. req'[q] = Idle
  BY DEF Finish, Sole, Alone, TypeOK
<1>2. Knows(req[q])'
  BY <1>1 DEF Knows, Idle, Claiming, ProcessOps
<1> QED
  BY <1>2, SoleKnows

(* An automatic import between two of its items holds items of its job. *)
LEMMA ChoosingKnows ==
  ASSUME Sole, NEW q \in Requests, NEW op \in {"auto_import", "combined"}, NEW j, NEW items,
         \A i \in items : i[1] = j, req' = [req EXCEPT ![q] = Choosing(op, j, items)]
  PROVE  \A p \in Requests : Knows(req[p])'
<1>1. CASE items = {}
  BY <1>1, FinishKnows DEF Choosing, Finish
<1>2. CASE items # {}
  <2> DEFINE r == [Idle EXCEPT !.op = op, !.pc = "choose", !.job = j, !.set = items]
  <2>1. r.op = op /\ r.pc = "choose" /\ r.it = None /\ r.job = j /\ r.set = items
    BY DEF Idle
  <2>2. req'[q] = r
    BY <1>2 DEF Choosing, Sole, Alone, TypeOK
  <2> HIDE DEF r
  <2>3. Knows(req[q])'
    BY <2>1, <2>2 DEF Knows, Claiming
  <2> QED
    BY <2>3, SoleKnows
<1> QED
  BY <1>1, <1>2

(* An automatic import ends or goes on with items it already had. *)
LEMMA GoOnKnows ==
  ASSUME Sole, NEW q \in Requests, NEW rest \in SUBSET req[q].set,
         StopOrGoOn(q, rest) \/ GoOn(q, rest)
  PROVE  \A p \in Requests : Knows(req[p])'
<1>1. CASE Finish(q)
  BY <1>1, FinishKnows
<1>2. CASE GoOn(q, rest)
  <2>1. \A i \in rest : i[1] = req[q].job
    BY DEF Sole, CompletionInvariant, Knows
  <2> QED
    BY <1>2, <2>1, ChoosingKnows DEF GoOn
<1> QED
  BY <1>1, <1>2 DEF StopOrGoOn

(* What the request in flight can rely on. *)
LEMMA KnownItem ==
  ASSUME Sole, NEW q \in Requests
  PROVE  /\ req[q] \in Request /\ HasTarget(req[q]) /\ UpToDate(req[q]) /\ Knows(req[q])
         /\ req[q].it \in Items \cup {None} /\ None \notin Items
         /\ req[q].set \subseteq Items
         /\ req[q].it \in Items => req[q].it[1] = req[q].job /\ req[q].seen = item[req[q].it]
<1>1. None \notin Items
  BY ImportAssumption DEF Items
<1>2. req[q] \in Request /\ HasTarget(req[q]) /\ UpToDate(req[q]) /\ Knows(req[q])
  BY DEF Sole, CompletionInvariant, Alone, AloneInvariant, ImportInvariant, TypeOK
<1> QED
  BY <1>1, <1>2 DEF Request, UpToDate, Knows

(* A recount completes a job whose items are all in a terminal status. *)
LEMMA RecountCompletes ==
  ASSUME NEW q, NEW rows, Recounted(q, rows) = "completed"
  PROVE  Present(req[q].job, rows) \subseteq TerminalStatuses
BY DEF Recounted, JobStatusAfter

(* A step that changes items of the job j only, and its status with them. *)
LEMMA CompletedStep ==
  ASSUME Sole, NEW j \in Jobs,
         \A i \in Items : i[1] # j => item'[i] = item[i],
         \A k \in Jobs : k # j => job'[k] = job[k],
         job'[j] = "completed" => Present(j, item') \subseteq TerminalStatuses
  PROVE  CompletedIsTerminal'
<1> SUFFICES ASSUME NEW k \in Jobs, job'[k] = "completed"
             PROVE  Present(k, item') \subseteq TerminalStatuses
  BY DEF CompletedIsTerminal
<1>1. CASE k = j
  BY <1>1
<1>2. CASE k # j
  <2>1. Present(k, item) \subseteq TerminalStatuses
    BY <1>2 DEF Sole, CompletionInvariant, CompletedIsTerminal
  <2>2. Present(k, item') = Present(k, item)
    BY <1>2 DEF Present
  <2> QED
    BY <2>1, <2>2
<1> QED
  BY <1>1, <1>2

(* A step that leaves the jobs alone and changes items that are not done. *)
LEMMA CompletedStays ==
  ASSUME Sole, UNCHANGED job,
         \A i \in Items : item'[i] = item[i] \/ item[i].status \notin TerminalStatuses \cup {"absent"}
  PROVE  CompletedIsTerminal'
<1> SUFFICES ASSUME NEW k \in Jobs, job[k] = "completed"
             PROVE  Present(k, item') \subseteq TerminalStatuses
  BY DEF CompletedIsTerminal
<1>1. Present(k, item) \subseteq TerminalStatuses
  BY DEF Sole, CompletionInvariant, CompletedIsTerminal
<1>2. \A i \in Items : i[1] = k => item[i].status \in TerminalStatuses \cup {"absent"}
  BY <1>1 DEF Present
<1>3. Present(k, item') = Present(k, item)
  BY <1>2 DEF Present
<1> QED
  BY <1>1, <1>3

(* The status of a job, as the one request at work on it writes it. *)
LEMMA WrittenJob ==
  ASSUME Sole, NEW q \in Requests, req[q] # Idle, req[q].pc # "choose",
         NEW status, WriteJob(q, status)
  PROVE  /\ req[q].job \in Jobs /\ job'[req[q].job] = status
         /\ \A k \in Jobs : k # req[q].job => job'[k] = job[k]
<1>1. req[q].job \in Jobs /\ req[q].sjob = job[req[q].job]
  BY AtWork DEF Sole
<1> QED
  BY <1>1 DEF WriteJob, OrmSet, Sole, Alone, TypeOK

(* A recount of the rows as they are written keeps what "completed" says. *)
LEMMA RecountKeepsCompleted ==
  ASSUME Sole, NEW q \in Requests, req[q] # Idle, req[q].pc # "choose",
         WriteJob(q, Recounted(q, item')),
         \A i \in Items : i[1] # req[q].job => item'[i] = item[i]
  PROVE  CompletedIsTerminal'
BY WrittenJob, RecountCompletes, CompletedStep

(* A status that is not "completed" says nothing of the items. *)
LEMMA OtherStatusKeepsCompleted ==
  ASSUME Sole, NEW q \in Requests, req[q] # Idle, req[q].pc # "choose",
         NEW status, status # "completed", WriteJob(q, status),
         \A i \in Items : i[1] # req[q].job => item'[i] = item[i]
  PROVE  CompletedIsTerminal'
BY WrittenJob, CompletedStep

(* A recount of the rows as they were, where they show what is not done. *)
LEMMA EarlierCountKeepsCompleted ==
  ASSUME Sole, NEW q \in Requests, req[q] # Idle, req[q].pc # "choose",
         NEW rows, WriteJob(q, Recounted(q, rows)),
         \A i \in Items : i[1] # req[q].job => item'[i] = item[i],
         Recounted(q, rows) = "completed" => Present(req[q].job, item') \subseteq TerminalStatuses
  PROVE  CompletedIsTerminal'
<1> DEFINE status == Recounted(q, rows)
<1>1. WriteJob(q, status) /\ (status = "completed" => Present(req[q].job, item') \subseteq TerminalStatuses)
  OBVIOUS
<1> HIDE DEF status
<1>2. /\ req[q].job \in Jobs /\ job'[req[q].job] = status
      /\ \A k \in Jobs : k # req[q].job => job'[k] = job[k]
  BY <1>1, WrittenJob
<1> QED
  BY <1>1, <1>2, CompletedStep

(* The commits that flush an item. *)
LEMMA FlushSole ==
  ASSUME Sole, NEW q \in Requests, req[q] # Idle, req[q].pc # "choose",
         req[q].it \in Items, NEW status, NEW json, Flush(q, status, json),
         \/ item[req[q].it].status \notin Settled
         \/ status \in Settled
         \/ req[q].pc = "undone"
  PROVE  Gentle(q) /\ CompletedIsTerminal' /\ item'[req[q].it].status = status
<1> DEFINE t == req[q].it
           r == OrmRow(item[t], req[q].seen, status, FALSE, json)
<1>1. item' = [item EXCEPT ![t] = r] /\ WriteJob(q, Recounted(q, item'))
  BY DEF Flush
<1>2. r.rev = item[t].rev /\ r.status = status
  BY KnownItem DEF OrmRow, OrmSet
<1>3. DOMAIN item = Items
  BY DEF Sole, Alone, TypeOK
<1> HIDE DEF r
<1>4. item'[t] = r /\ \A i \in Items : i # t => item'[i] = item[i]
  BY <1>1, <1>3
<1>5. Gentle(q)
  BY <1>2, <1>4 DEF Gentle
<1>6. \A i \in Items : i[1] # req[q].job => item'[i] = item[i]
  BY <1>4, KnownItem
<1>7. CompletedIsTerminal'
  BY <1>1, <1>6, RecountKeepsCompleted
<1> QED
  BY <1>2, <1>4, <1>5, <1>7

(* The commits of the review handlers and of reconcile_import. *)
LEMMA ReviewCommitSole ==
  ASSUME Sole, NEW q \in Requests, ReviewCommit(q)
  PROVE  SoleStep(q)
<1> DEFINE t == req[q].it
<1>1. req[q] # Idle /\ req[q].pc = "commit" /\ Finish(q)
  <2>1. req[q].pc = "commit" /\ Finish(q)
    BY DEF ReviewCommit, CommitApproveJob, CommitCancelJob, CommitRetry, CommitEdit, CommitApprove,
           CommitReject, CommitRestore, CommitRevalidate, CommitRevalidateStale, CommitReconcile,
           FlushAndRecount, Committing
  <2> QED
    BY <2>1 DEF Idle
<1>2. /\ Knows(req[q]) /\ t \in Items \cup {None} /\ None \notin Items /\ req[q].set \subseteq Items
      /\ t \in Items => t[1] = req[q].job /\ req[q].seen = item[t]
      /\ DOMAIN item = Items
  BY KnownItem DEF Sole, Alone, TypeOK
<1>3. ASSUME Gentle(q), CompletedIsTerminal'
      PROVE  SoleStep(q)
  BY <1>1, <1>3, FinishKnows DEF SoleStep, CompletionInvariant
<1>4. t \in Items /\ req[q].op # "reconcile" /\ req[q].op # "import"
      => item[t].status \notin Settled
  BY <1>1, <1>2 DEF Knows
<1>5. CASE CommitApproveJob(q)
  <2>1. UNCHANGED item /\ WriteJob(q, "approved")
    BY <1>5 DEF CommitApproveJob
  <2> QED
    BY <1>1, <1>3, <2>1, OtherStatusKeepsCompleted DEF Gentle
<1>6. CASE CommitCancelJob(q)
  <2>1. /\ WriteJob(q, "cancelled") /\ item' = SetStatus(req[q].set, "cancelled")
        /\ req[q].op = "cancel_job"
    BY <1>6 DEF CommitCancelJob
  <2>2. \A i \in Items : \/ item'[i] = item[i]
                         \/ i \in req[q].set /\ item'[i].rev = item[i].rev
    BY <2>1 DEF SetStatus, Sole, Alone, TypeOK, ItemRow
  <2>3. \A i \in req[q].set : item[i].status \notin Settled /\ i[1] = req[q].job
    BY <1>2, <2>1 DEF Knows
  <2> QED
    BY <1>1, <1>3, <2>1, <2>2, <2>3, OtherStatusKeepsCompleted DEF Gentle
<1>7. CASE CommitRetry(q)
  <2> DEFINE r == OrmRow(item[t], req[q].seen, "queued", FALSE, item[t].json)
  <2>1. item' = [item EXCEPT ![t] = r] /\ WriteJob(q, "approved") /\ req[q].op = "retry"
    BY <1>7 DEF CommitRetry, Committing
  <2>2. r.rev = item[t].rev
    BY DEF OrmRow
  <2> HIDE DEF r
  <2>3. \A i \in Items : item'[i] = item[i] \/ (i = t /\ item'[i].rev = item[i].rev)
    BY <1>2, <2>1, <2>2
  <2>4. Gentle(q)
    BY <1>4, <2>1, <2>3 DEF Gentle
  <2> QED
    BY <1>1, <1>2, <1>3, <2>1, <2>3, <2>4, OtherStatusKeepsCompleted
<1>8. CASE CommitEdit(q) \/ CommitApprove(q) \/ CommitReject(q) \/ CommitRestore(q)
  <2>1. \E status, json : FlushAndRecount(q, status, json)
    BY <1>8 DEF CommitEdit, CommitApprove, CommitReject, CommitRestore
  <2>2. PICK status, json : Flush(q, status, json)
    BY <2>1 DEF FlushAndRecount
  <2>3. req[q].op \in {"edit", "approve", "reject", "restore"}
    BY <1>8 DEF CommitEdit, CommitApprove, CommitReject, CommitRestore, Committing
  <2>4. CASE t \in Items
    BY <1>1, <1>3, <1>4, <2>2, <2>3, <2>4, FlushSole
  <2>5. CASE t = None
    <3>1. UNCHANGED item /\ WriteJob(q, Recounted(q, item'))
      BY <1>2, <2>2, <2>5 DEF Flush, Sole, Alone, TypeOK
    <3> QED
      BY <1>1, <1>3, <3>1, RecountKeepsCompleted DEF Gentle
  <2> QED
    BY <1>2, <2>4, <2>5
<1>9. CASE CommitRevalidate(q) \/ CommitRevalidateStale(q)
  BY <1>2, <1>9 DEF CommitRevalidate, CommitRevalidateStale, Committing, Knows
<1>10. CASE CommitReconcile(q)
  <2>1. t \in Items
    BY <1>10, KnownItem DEF CommitReconcile, Committing, HasTarget
  <2>2. CASE CanStartRecord(t)
    <3> DEFINE r == OrmRow(item[t], req[q].seen, "imported", FALSE, item[t].json)
    <3>1. item' = [item EXCEPT ![t] = r] /\ WriteJob(q, Recounted(q, item))
      BY <1>10, <2>2 DEF CommitReconcile
    <3>2. r.rev = item[t].rev /\ r.status = "imported"
      BY <1>2, <2>1 DEF OrmRow, OrmSet
    <3> HIDE DEF r
    <3>3. item'[t] = r /\ \A i \in Items : i # t => item'[i] = item[i]
      BY <1>2, <2>1, <3>1
    <3>4. Gentle(q)
      BY <3>2, <3>3 DEF Gentle, Settled
    <3>5. Present(req[q].job, item') \subseteq Present(req[q].job, item) \cup {"imported"}
      BY <3>2, <3>3 DEF Present
    <3>6. Recounted(q, item) = "completed"
          => Present(req[q].job, item') \subseteq TerminalStatuses
      BY <3>5, RecountCompletes DEF TerminalStatuses
    <3>7. CompletedIsTerminal'
      BY <1>1, <1>2, <2>1, <3>1, <3>3, <3>6, EarlierCountKeepsCompleted
    <3> QED
      BY <1>3, <3>4, <3>7
  <2>3. CASE ~CanStartRecord(t)
    <3>1. UNCHANGED <<job, item>>
      BY <1>10, <2>3 DEF CommitReconcile, UpsertReconciledRecord
    <3> QED
      BY <1>3, <3>1, CompletedStays DEF Gentle
  <2> QED
    BY <2>2, <2>3
<1> QED
  BY <1>5, <1>6, <1>7, <1>8, <1>9, <1>10 DEF ReviewCommit

(* The rows once the skipped items are cancelled. *)
LEMMA SkippedAlone ==
  ASSUME Sole, NEW q \in Requests, AtClaim(q)
  PROVE  \A i \in Items :
           \/ SetStatus(req[q].set, "cancelled")[i] = item[i]
           \/ /\ i \in req[q].set /\ item[i].status = "queued" /\ i[1] = req[q].job
              /\ SetStatus(req[q].set, "cancelled")[i].rev = item[i].rev
<1>1. \A i \in req[q].set : item[i].status = "queued" /\ i[1] = req[q].job
  BY KnownItem DEF Knows, AtClaim, Claiming
<1> QED
  BY <1>1 DEF SetStatus, Sole, Alone, TypeOK, ItemRow

(* The choice of an item: what is skipped and what is picked is queued. *)
LEMMA PickItemKnows ==
  ASSUME Sole, NEW q \in Requests, NEW op \in ProcessOps, NEW j, NEW sjob, NEW items,
         PickItem(q, op, j, sjob, items), UNCHANGED item,
         \A i \in items : i \in Items /\ item[i].status = "queued" /\ i[1] = j
  PROVE  \A p \in Requests : Knows(req[p])'
<1>1. PICK it \in IF Eligible(items) = {} THEN {None} ELSE Eligible(items) :
        req' = [req EXCEPT ![q] =
          [Idle EXCEPT
            !.op = op, !.pc = "claim", !.job = j, !.sjob = sjob, !.it = it,
            !.seen = IF it = None THEN NoRow ELSE item[it],
            !.set = Skipped(IF it = None THEN items ELSE Before(items, it))]]
  BY DEF PickItem
<1>2. /\ req'[q].op = op /\ req'[q].pc = "claim" /\ req'[q].job = j /\ req'[q].it = it
      /\ req'[q].set = Skipped(IF it = None THEN items ELSE Before(items, it))
  BY <1>1 DEF Idle, Sole, Alone, TypeOK
<1>3. req'[q].set \subseteq items
  BY <1>2 DEF Skipped, Before
<1>4. it # None => it \in items /\ it \notin req'[q].set
  BY <1>1, <1>2 DEF Eligible, Skipped
<1>5. Knows(req[q])'
  BY <1>2, <1>3, <1>4 DEF Knows, Claiming, ProcessOps, Settled
<1> QED
  BY <1>5, SoleKnows

(* The steps of the handlers that process an item. *)
LEMMA ProcessStepSole ==
  ASSUME Sole, NEW q \in Requests, ProcessStep(q)
  PROVE  SoleStep(q)
<1> DEFINE t == req[q].it
           flushed == SetStatus(req[q].set, "cancelled")
<1>1. req[q] # Idle /\ req[q].pc # "choose"
  <2>1. req[q].pc # "idle" /\ req[q].pc # "choose"
    BY DEF ProcessStep, ProcessNothing, ProcessStale, ClaimProcess, ClaimLost, Normalized,
           NextOfBatch, NormalizationFailed, CommitRequeue, AtClaim
  <2> QED
    BY <2>1 DEF Idle
<1>2. /\ Knows(req[q]) /\ t \in Items \cup {None} /\ None \notin Items /\ req[q].set \subseteq Items
      /\ t \in Items => t[1] = req[q].job /\ req[q].seen = item[t]
      /\ req[q].pc = "llm" => t \in Items
      /\ DOMAIN item = Items /\ DOMAIN flushed = Items
  BY KnownItem DEF HasTarget, Sole, Alone, TypeOK, SetStatus
<1>3. ASSUME \A i \in Items : item'[i] = item[i] \/ (item'[i].rev = item[i].rev /\ item[i].status \notin Settled)
      PROVE  Gentle(q)
  BY <1>3 DEF Gentle
<1>4. CASE ProcessNothing(q)
  <2>1. item' = flushed /\ WriteJob(q, Recounted(q, item')) /\ Finish(q) /\ AtClaim(q)
    BY <1>4 DEF ProcessNothing
  <2>2. \A i \in Items : \/ item'[i] = item[i]
                         \/ item'[i].rev = item[i].rev /\ item[i].status = "queued" /\ i[1] = req[q].job
    BY <2>1, SkippedAlone
  <2>3. Gentle(q)
    BY <1>3, <2>2 DEF Settled
  <2>4. CompletedIsTerminal'
    BY <1>1, <2>1, <2>2, RecountKeepsCompleted
  <2> QED
    BY <2>1, <2>3, <2>4, FinishKnows DEF SoleStep, CompletionInvariant
<1>5. CASE ProcessStale(q)
  <2> DEFINE r == OrmRow(flushed[t], req[q].seen, "source_updated", FALSE, flushed[t].json)
  <2>1. /\ item' = [flushed EXCEPT ![t] = r] /\ WriteJob(q, Recounted(q, flushed)) /\ Finish(q)
        /\ AtClaim(q) /\ t \in Items
    BY <1>2, <1>5 DEF ProcessStale
  <2>2. item[t].status = "queued" /\ t \notin req[q].set /\ flushed[t] = item[t]
    BY <1>2, <2>1 DEF Knows, AtClaim, Claiming, SetStatus
  <2>3. r.rev = item[t].rev
    BY <2>2 DEF OrmRow
  <2> HIDE DEF r, flushed
  <2>4. \A i \in Items : \/ item'[i] = item[i]
                         \/ item'[i].rev = item[i].rev /\ item[i].status = "queued" /\ i[1] = req[q].job
    <3> TAKE i \in Items
    <3>1. CASE i = t
      BY <1>2, <2>1, <2>2, <2>3, <3>1
    <3>2. CASE i # t
      BY <1>2, <2>1, <3>2, SkippedAlone DEF flushed
    <3> QED
      BY <3>1, <3>2
  <2>5. Gentle(q)
    BY <1>3, <2>4 DEF Settled
  <2>6. "queued" \in Present(req[q].job, flushed)
    BY <1>2, <2>1, <2>2 DEF Present
  <2>7. Recounted(q, flushed) # "completed"
    BY <2>6, RecountCompletes DEF TerminalStatuses
  <2>8. CompletedIsTerminal'
    BY <1>1, <2>1, <2>4, <2>7, OtherStatusKeepsCompleted
  <2> QED
    BY <2>1, <2>5, <2>8, FinishKnows DEF SoleStep, CompletionInvariant
<1>6. CASE ClaimProcess(q)
  <2>1. /\ item' = [flushed EXCEPT ![t].status = "processing", ![t].infra = FALSE]
        /\ WriteJob(q, "processing") /\ AtClaim(q) /\ t \in Items
        /\ req' = [req EXCEPT ![q].pc = "llm", ![q].seen = item'[t],
                              ![q].sjob = "processing", ![q].set = {}]
    BY <1>2, <1>6 DEF ClaimProcess
  <2>2. item[t].status = "queued" /\ t \notin req[q].set /\ flushed[t] = item[t]
        /\ item[t] \in ItemRow
    BY <1>2, <2>1 DEF Knows, AtClaim, Claiming, SetStatus, Sole, Alone, TypeOK
  <2> HIDE DEF flushed
  <2>3. item'[t].status = "processing" /\ item'[t].rev = item[t].rev
    BY <1>2, <2>1, <2>2 DEF ItemRow
  <2>4. \A i \in Items : \/ item'[i] = item[i]
                         \/ item'[i].rev = item[i].rev /\ item[i].status = "queued" /\ i[1] = req[q].job
    <3> TAKE i \in Items
    <3>1. CASE i = t
      BY <1>2, <2>2, <2>3, <3>1
    <3>2. CASE i # t
      BY <1>2, <2>1, <3>2, SkippedAlone DEF flushed
    <3> QED
      BY <3>1, <3>2
  <2>5. Gentle(q)
    BY <1>3, <2>4 DEF Settled
  <2>6. CompletedIsTerminal'
    BY <1>1, <2>1, <2>4, OtherStatusKeepsCompleted
  <2>7. /\ req'[q].op = req[q].op /\ req'[q].pc = "llm" /\ req'[q].it = t /\ req'[q].set = {}
        /\ req'[q].job = req[q].job
    BY <2>1, KnownItem DEF Request, Sole, Alone, TypeOK
  <2>8. Knows(req[q])'
    BY <1>2, <2>1, <2>3, <2>7 DEF Knows, AtClaim, Claiming, ProcessOps, Settled
  <2> QED
    BY <2>5, <2>6, <2>8, SoleKnows DEF SoleStep, CompletionInvariant
<1>7. CASE ClaimLost(q)
  <2>1. UNCHANGED <<job, item>> /\ Finish(q)
    BY <1>7 DEF ClaimLost
  <2>2. Gentle(q)
    BY <2>1 DEF Gentle
  <2> QED
    BY <2>1, <2>2, FinishKnows, CompletedStays DEF SoleStep, CompletionInvariant
<1>8. CASE Normalized(q)
  <2> DEFINE rows(v) == [item EXCEPT ![t] = OrmRow(@, req[q].seen, "review", FALSE, v)]
             after(v) ==
               [Idle EXCEPT !.op = "process_batch", !.pc = "next", !.job = req[q].job,
                            !.sjob = Recounted(q, rows(v))]
  <2>1. PICK v \in Results :
          /\ Flush(q, "review", v)
          /\ \/ Finish(q)
             \/ req' = [req EXCEPT ![q] = after(v)]
             \/ req' = [req EXCEPT ![q] = Choosing("combined", req[q].job, {t})]
    BY <1>8 DEF Normalized, Flush
  <2>2. req[q].pc = "llm" /\ t \in Items /\ item[t].status = "processing"
    BY <1>2, <1>8 DEF Normalized, Knows
  <2>3. Gentle(q) /\ CompletedIsTerminal'
    BY <1>1, <2>1, <2>2, FlushSole DEF Settled
  <2>4. /\ after(v).op = "process_batch" /\ after(v).pc = "next" /\ after(v).it = None
        /\ after(v).set = {}
    BY DEF Idle
  <2> HIDE DEF after, rows
  <2>5. CASE req' = [req EXCEPT ![q] = after(v)]
    <3>1. req'[q] = after(v)
      BY <2>5 DEF Sole, Alone, TypeOK
    <3>2. Knows(req[q])'
      BY <2>4, <3>1 DEF Knows, Claiming
    <3> QED
      BY <2>3, <3>2, SoleKnows DEF SoleStep, CompletionInvariant
  <2>6. CASE Finish(q)
    BY <2>3, <2>6, FinishKnows DEF SoleStep, CompletionInvariant
  <2>7. CASE req' = [req EXCEPT ![q] = Choosing("combined", req[q].job, {t})]
    <3>1. \A i \in {t} : i[1] = req[q].job
      BY <1>2, <2>2
    <3> QED
      BY <2>3, <2>7, <3>1, ChoosingKnows DEF SoleStep, CompletionInvariant
  <2> QED
    BY <2>1, <2>5, <2>6, <2>7
<1>9. CASE NextOfBatch(q)
  <2>1. UNCHANGED <<job, item>>
    BY <1>9 DEF NextOfBatch
  <2>2. Gentle(q) /\ CompletedIsTerminal'
    BY <2>1, CompletedStays DEF Gentle
  <2>3. CASE PickItem(q, "process_batch", req[q].job, req[q].sjob, Queued(req[q].job))
    <3>1. \A i \in Queued(req[q].job) :
            i \in Items /\ item[i].status = "queued" /\ i[1] = req[q].job
      BY DEF Queued, ItemsOf
    <3>2. "process_batch" \in ProcessOps
      BY DEF ProcessOps
    <3> QED
      BY <2>1, <2>2, <2>3, <3>1, <3>2, PickItemKnows DEF SoleStep, CompletionInvariant
  <2>4. CASE Finish(q)
    BY <2>2, <2>4, FinishKnows DEF SoleStep, CompletionInvariant
  <2> QED
    BY <1>9, <2>3, <2>4 DEF NextOfBatch
<1>10. CASE NormalizationFailed(q)
  <2> DEFINE rows(infra) == [item EXCEPT ![t] = FailedRow(@, req[q].seen, infra)]
             requeues == [Idle EXCEPT !.op = req[q].op, !.pc = "requeue", !.job = req[q].job]
             once(sjob) == [requeues EXCEPT !.sjob = sjob, !.set = {t}]
             all(sjob, infra) ==
               [requeues EXCEPT !.sjob = sjob, !.set = InfraFailures(req[q].job, rows(infra))]
  <2>1. PICK infra \in BOOLEAN :
          /\ item' = rows(infra) /\ WriteJob(q, Recounted(q, item))
          /\ \E sjob : \/ Finish(q)
                       \/ req' = [req EXCEPT ![q] = once(sjob)]
                       \/ req' = [req EXCEPT ![q] = all(sjob, infra)]
    <3> DEFINE status == Recounted(q, item)
               stored == OrmSet(job[req[q].job], req[q].sjob, status)
    <3>1. PICK infra \in BOOLEAN :
            /\ item' = rows(infra)
            /\ req' = [req EXCEPT ![q] =
                 IF infra /\ req[q].op = "process_item" THEN once(status)
                 ELSE IF infra /\ req[q].op = "combined" THEN all(stored, infra)
                 ELSE Idle]
      BY <1>10 DEF NormalizationFailed
    <3>2. WriteJob(q, Recounted(q, item))
      BY <1>10 DEF NormalizationFailed
    <3> HIDE DEF rows, once, all, status, stored
    <3> QED
      BY <3>1, <3>2 DEF Finish
  <2>2. req[q].pc = "llm" /\ t \in Items /\ item[t].status = "processing"
    BY <1>2, <1>10 DEF NormalizationFailed, Knows
  <2>3. item'[t].status = "failed" /\ item'[t].rev = item[t].rev
    BY <1>2, <2>1, <2>2 DEF FailedRow, OrmRow, OrmSet
  <2>4. \A i \in Items : i # t => item'[i] = item[i]
    BY <2>1
  <2>5. Gentle(q)
    BY <1>3, <2>2, <2>3, <2>4 DEF Settled
  <2>6. "processing" \in Present(req[q].job, item)
    BY <1>2, <2>2 DEF Present
  <2>7. Recounted(q, item) # "completed"
    BY <2>6, RecountCompletes DEF TerminalStatuses
  <2>8. CompletedIsTerminal'
    BY <1>1, <1>2, <2>1, <2>2, <2>4, <2>7, OtherStatusKeepsCompleted
  <2>9. ASSUME NEW r, req' = [req EXCEPT ![q] = r], r.op = req[q].op, r.pc = "requeue",
               r.job = req[q].job, r.it = None,
               \A i \in r.set : i[1] = req[q].job /\ item'[i].status = "failed"
        PROVE  SoleStep(q)
    <3>1. req'[q] = r
      BY <2>9 DEF Sole, Alone, TypeOK
    <3>2. req[q].op \in ProcessOps
      BY <1>2, <2>2 DEF Knows
    <3>3. Knows(req[q])'
      BY <2>9, <3>1, <3>2 DEF Knows, Claiming, ProcessOps
    <3> QED
      BY <2>5, <2>8, <3>3, SoleKnows DEF SoleStep, CompletionInvariant
  <2>10. ASSUME NEW sjob, req' = [req EXCEPT ![q] = once(sjob)]
         PROVE  SoleStep(q)
    <3>1. /\ once(sjob).op = req[q].op /\ once(sjob).pc = "requeue" /\ once(sjob).it = None
          /\ once(sjob).job = req[q].job /\ once(sjob).set = {t}
      BY DEF Idle
    <3> HIDE DEF once
    <3> QED
      BY <1>2, <2>2, <2>3, <2>9, <2>10, <3>1
  <2>11. ASSUME NEW sjob, req' = [req EXCEPT ![q] = all(sjob, infra)]
         PROVE  SoleStep(q)
    <3>1. /\ all(sjob, infra).op = req[q].op /\ all(sjob, infra).pc = "requeue"
          /\ all(sjob, infra).it = None /\ all(sjob, infra).job = req[q].job
          /\ all(sjob, infra).set = InfraFailures(req[q].job, item')
      BY <2>1 DEF Idle
    <3> HIDE DEF all, rows
    <3>2. \A i \in InfraFailures(req[q].job, item') :
            i[1] = req[q].job /\ item'[i].status = "failed"
      BY DEF InfraFailures
    <3> QED
      BY <2>9, <2>11, <3>1, <3>2
  <2>12. CASE Finish(q)
    BY <2>5, <2>8, <2>12, FinishKnows DEF SoleStep, CompletionInvariant
  <2> HIDE DEF rows, once, all
  <2> QED
    BY <2>1, <2>10, <2>11, <2>12
<1>11. CASE CommitRequeue(q)
  <2>1. /\ item' = [i \in Items |->
                      IF i \in req[q].set
                      THEN [item[i] EXCEPT !.status = "queued", !.infra = FALSE]
                      ELSE item[i]]
        /\ WriteJob(q, Recounted(q, item)) /\ Finish(q) /\ req[q].pc = "requeue"
    BY <1>11 DEF CommitRequeue
  <2>2. \A i \in req[q].set : item[i].status = "failed" /\ i[1] = req[q].job /\ i \in Items
    BY <1>2, <2>1 DEF Knows
  <2>3. \A i \in Items : item'[i] = item[i] \/ (i \in req[q].set /\ item'[i].rev = item[i].rev)
    BY <2>1 DEF Sole, Alone, TypeOK, ItemRow
  <2>4. Gentle(q)
    BY <1>3, <2>2, <2>3 DEF Settled
  <2>5. \A i \in Items : i[1] # req[q].job => item'[i] = item[i]
    BY <2>2, <2>3
  <2>6. CASE req[q].set = {}
    <3>1. Present(req[q].job, item') = Present(req[q].job, item)
      BY <2>3, <2>6 DEF Present
    <3>2. Recounted(q, item) = "completed"
          => Present(req[q].job, item') \subseteq TerminalStatuses
      BY <3>1, RecountCompletes
    <3>3. CompletedIsTerminal'
      BY <1>1, <2>1, <2>5, <3>2, EarlierCountKeepsCompleted
    <3> QED
      BY <2>1, <2>4, <3>3, FinishKnows DEF SoleStep, CompletionInvariant
  <2>7. CASE req[q].set # {}
    <3>1. "failed" \in Present(req[q].job, item)
      BY <2>2, <2>7 DEF Present
    <3>2. Recounted(q, item) # "completed"
      BY <3>1, RecountCompletes DEF TerminalStatuses
    <3>3. CompletedIsTerminal'
      BY <1>1, <2>1, <2>5, <3>2, OtherStatusKeepsCompleted
    <3> QED
      BY <2>1, <2>4, <3>3, FinishKnows DEF SoleStep, CompletionInvariant
  <2> QED
    BY <2>6, <2>7
<1> QED
  BY <1>4, <1>5, <1>6, <1>7, <1>8, <1>9, <1>10, <1>11 DEF ProcessStep

(* A step of an import that leaves items and jobs alone. *)
LEMMA GoesOnKnows ==
  ASSUME Sole, NEW q \in Requests, UNCHANGED <<job, item>>,
         req'[q].op = "import", req'[q].it = req[q].it, req'[q].job = req[q].job,
         req'[q].set = req[q].set, req'[q].pc \in PastClaim
  PROVE  SoleStep(q)
<1>1. Knows(req[q])'
  BY KnownItem DEF Knows, Claiming, ProcessOps, PastClaim
<1>2. Gentle(q) /\ CompletedIsTerminal'
  BY CompletedStays DEF Gentle
<1> QED
  BY <1>1, <1>2, SoleKnows DEF SoleStep, CompletionInvariant

(* The steps of an import. *)
LEMMA ImportStepSole ==
  ASSUME Sole, NEW q \in Requests, ImportStep(q)
  PROVE  SoleStep(q)
<1> DEFINE t == req[q].it
<1>1. /\ req[q] \in Request /\ Knows(req[q]) /\ UpToDate(req[q]) /\ DOMAIN item = Items
      /\ req[q].op = "import" => t \in Items /\ t[1] = req[q].job /\ req[q].seen = item[t]
  BY KnownItem DEF HasTarget, Sole, Alone, TypeOK
<1>2. req[q].op = "import" /\ req[q] # Idle /\ req[q].pc # "choose"
  <2>1. req[q].op = "import" /\ req[q].pc # "choose"
    BY DEF ImportStep, ClaimImport, ImportRefused, CreateBlank, CreateFailed, CreateReplyLost,
           RecordSlug, PatchApplied, ImportFailed, ImportVerified, DeleteCreated, DeleteFailed,
           ImportUndone, ImportStranded, Created, Importing
  <2> QED
    BY <2>1 DEF Idle
<1>3. ASSUME NEW pc \in PastClaim, Goto(q, pc), UNCHANGED <<job, item>>
      PROVE  SoleStep(q)
  <2>1. /\ req'[q].op = "import" /\ req'[q].it = t /\ req'[q].job = req[q].job
        /\ req'[q].set = req[q].set /\ req'[q].pc = pc
    BY <1>1, <1>2, <1>3 DEF Goto, Sole, Alone, TypeOK, Request
  <2> QED
    BY <1>3, <2>1, GoesOnKnows
<1>4. CASE ClaimImport(q)
  <2> DEFINE claimed == [item[t] EXCEPT !.status = "importing", !.infra = FALSE]
             seen == [claimed EXCEPT !.json = req[q].seen.json]
  <2>1. /\ item' = [item EXCEPT ![t] = claimed]
        /\ req' = [req EXCEPT ![q].pc = "create", ![q].seen = seen]
        /\ UNCHANGED job /\ item[t].status = "approved_for_import"
    BY <1>4 DEF ClaimImport, ClaimableForImport
  <2>2. claimed.status = "importing" /\ claimed.rev = item[t].rev
    BY <1>1, <1>2 DEF Sole, Alone, TypeOK, ItemRow
  <2> HIDE DEF claimed, seen
  <2>3. item'[t] = claimed /\ \A i \in Items : i # t => item'[i] = item[i]
    BY <1>1, <1>2, <2>1
  <2>4. Gentle(q)
    BY <2>1, <2>2, <2>3 DEF Gentle, Settled
  <2>5. CompletedIsTerminal'
    BY <2>1, <2>3, CompletedStays DEF TerminalStatuses
  <2>6. /\ req'[q].op = "import" /\ req'[q].it = t /\ req'[q].job = req[q].job
        /\ req'[q].set = req[q].set /\ req'[q].pc = "create"
    BY <1>1, <1>2, <2>1 DEF Sole, Alone, TypeOK, Request
  <2>7. Knows(req[q])'
    BY <1>1, <2>6 DEF Knows, Claiming, ProcessOps
  <2> QED
    BY <2>4, <2>5, <2>7, SoleKnows DEF SoleStep, CompletionInvariant
<1>5. CASE ImportRefused(q)
  <2>1. UNCHANGED <<job, item>> /\ StopOrGoOn(q, req[q].set)
    BY <1>5 DEF ImportRefused
  <2>2. Gentle(q) /\ CompletedIsTerminal'
    BY <2>1, CompletedStays DEF Gentle
  <2> QED
    BY <2>1, <2>2, GoOnKnows DEF SoleStep, CompletionInvariant
<1>6. CASE CreateBlank(q)
  <2>1. PICK s : req' = [req EXCEPT ![q].pc = "created", ![q].slug = s]
    BY <1>6 DEF CreateBlank
  <2>2. UNCHANGED <<job, item>>
    BY <1>6 DEF CreateBlank
  <2>3. /\ req'[q].op = "import" /\ req'[q].it = t /\ req'[q].job = req[q].job
        /\ req'[q].set = req[q].set /\ req'[q].pc = "created"
    BY <1>1, <1>2, <2>1 DEF Sole, Alone, TypeOK, Request
  <2> QED
    BY <2>2, <2>3, GoesOnKnows DEF PastClaim
<1>7. CASE CreateFailed(q) \/ CreateReplyLost(q) \/ RecordSlug(q) \/ PatchApplied(q)
           \/ ImportFailed(q) \/ DeleteCreated(q) \/ DeleteFailed(q)
  <2>1. \E pc \in PastClaim : Goto(q, pc)
    BY <1>7 DEF CreateFailed, CreateReplyLost, RecordSlug, PatchApplied, ImportFailed,
                DeleteCreated, DeleteFailed, PastClaim
  <2>2. UNCHANGED <<job, item>>
    BY <1>7 DEF CreateFailed, CreateReplyLost, RecordSlug, PatchApplied, ImportFailed,
                DeleteCreated, DeleteFailed
  <2> QED
    BY <1>3, <2>1, <2>2
<1>8. CASE ImportVerified(q) \/ ImportUndone(q) \/ ImportStranded(q)
  <2>1. PICK status \in {"imported", "approved_for_import", "import_failed"} :
          /\ Flush(q, status, item[t].json)
          /\ status \in Settled \/ req[q].pc = "undone"
    BY <1>8 DEF ImportVerified, ImportUndone, ImportStranded, SettleImport, Settled, Importing
  <2>2. StopOrGoOn(q, req[q].set) \/ GoOn(q, req[q].set)
    BY <1>8 DEF ImportVerified, ImportUndone, ImportStranded
  <2>3. Gentle(q) /\ CompletedIsTerminal'
    BY <1>1, <1>2, <2>1, FlushSole
  <2> QED
    BY <2>2, <2>3, GoOnKnows DEF SoleStep, CompletionInvariant
<1> QED
  BY <1>4, <1>5, <1>6, <1>7, <1>8 DEF ImportStep

(* The steps of an automatic import between its imports. *)
LEMMA AutoImportStepSole ==
  ASSUME Sole, NEW q \in Requests, AutoImportStep(q)
  PROVE  SoleStep(q)
<1> DEFINE t == req[q].it
<1>1. /\ req[q] \in Request /\ Knows(req[q]) /\ DOMAIN item = Items
      /\ req[q].pc \in {"choose", "approve", "start"} => req[q].op \in {"auto_import", "combined"}
      /\ req[q].pc \in {"approve", "start"} => t \in Items /\ t[1] = req[q].job
  BY KnownItem DEF HasTarget, Sole, Alone, TypeOK
<1>2. UNCHANGED <<job, item>> => Gentle(q) /\ CompletedIsTerminal'
  BY CompletedStays DEF Gentle
<1>3. ASSUME NEW op \in {"auto_import", "combined", "import"},
             NEW pc \in {"approve", "start", "claim"}, op = "import" \/ pc # "claim",
             NEW i \in Items, i[1] = req[q].job,
             pc = "approve" => item[i].status \notin Settled,
             NEW rest \in SUBSET req[q].set,
             req' = [req EXCEPT ![q] = [ReadJob(op, req[q].job) EXCEPT
                       !.pc = pc, !.it = i, !.seen = item[i], !.set = rest]],
             UNCHANGED <<job, item>>
      PROVE  SoleStep(q)
  <2> DEFINE r == [ReadJob(op, req[q].job) EXCEPT
                    !.pc = pc, !.it = i, !.seen = item[i], !.set = rest]
  <2>1. r.op = op /\ r.pc = pc /\ r.it = i /\ r.job = req[q].job /\ r.set = rest
    BY DEF ReadJob, Idle
  <2> HIDE DEF r
  <2>2. req'[q] = r
    BY <1>3 DEF Sole, Alone, TypeOK, r
  <2>3. Knows(req[q])'
    BY <1>1, <1>3, <2>1, <2>2 DEF Knows, Claiming, ProcessOps
  <2> QED
    BY <1>2, <1>3, <2>3, SoleKnows DEF SoleStep, CompletionInvariant
<1>4. CASE ChooseNext(q)
  <2> DEFINE pc(i) == IF item[i].status = "review" THEN "approve" ELSE "start"
             rest(i) == req[q].set \ {i}
  <2>1. PICK i \in req[q].set :
          \/ req' = [req EXCEPT ![q] =
               [ReadJob(req[q].op, req[q].job) EXCEPT
                  !.pc = pc(i), !.it = i, !.seen = item[i], !.set = rest(i)]]
          \/ StopOrGoOn(q, rest(i))
    BY <1>4 DEF ChooseNext
  <2>2. /\ i \in Items /\ UNCHANGED <<job, item>> /\ i[1] = req[q].job
        /\ req[q].op \in {"auto_import", "combined"}
    BY <1>1, <1>4, <2>1 DEF Request, ChooseNext, Knows
  <2>3. /\ rest(i) \in SUBSET req[q].set
        /\ pc(i) \in {"approve", "start", "claim"} /\ pc(i) # "claim"
        /\ pc(i) = "approve" => item[i].status \notin Settled
    BY DEF Settled
  <2> HIDE DEF pc, rest
  <2>4. CASE StopOrGoOn(q, rest(i))
    BY <1>2, <2>2, <2>3, <2>4, GoOnKnows DEF SoleStep, CompletionInvariant
  <2>5. CASE req' = [req EXCEPT ![q] =
               [ReadJob(req[q].op, req[q].job) EXCEPT
                  !.pc = pc(i), !.it = i, !.seen = item[i], !.set = rest(i)]]
    BY <1>3, <2>2, <2>3, <2>5
  <2> QED
    BY <2>1, <2>4, <2>5
<1>5. CASE ApproveChosen(q)
  <2>1. /\ Flush(q, "approved_for_import", item[t].json) /\ req[q].pc = "approve"
        /\ req' = [req EXCEPT ![q].pc = "start", ![q].seen = item'[t],
                              ![q].sjob = job'[req[q].job]]
    BY <1>5 DEF ApproveChosen
  <2>2. item[t].status \notin Settled /\ req[q] # Idle /\ t \in Items
    BY <1>1, <2>1, KnownItem DEF Knows, Idle
  <2>3. Gentle(q) /\ CompletedIsTerminal'
    BY <2>1, <2>2, FlushSole
  <2>4. /\ req'[q].op = req[q].op /\ req'[q].pc = "start" /\ req'[q].it = t
        /\ req'[q].job = req[q].job /\ req'[q].set = req[q].set
    BY <1>1, <2>1 DEF Sole, Alone, TypeOK, Request
  <2>5. Knows(req[q])'
    BY <1>1, <2>1, <2>4 DEF Knows, Claiming, ProcessOps
  <2> QED
    BY <2>3, <2>5, SoleKnows DEF SoleStep, CompletionInvariant
<1>6. CASE StartChosen(q)
  <2>1. UNCHANGED <<job, item>> /\ req[q].pc = "start"
    BY <1>6 DEF StartChosen
  <2>2. CASE StopOrGoOn(q, req[q].set)
    BY <1>2, <2>1, <2>2, GoOnKnows DEF SoleStep, CompletionInvariant
  <2>3. CASE req' = [req EXCEPT ![q] =
               [ReadJob("import", req[q].job) EXCEPT
                  !.pc = "claim", !.it = t, !.seen = item[t], !.set = req[q].set]]
    BY <1>1, <1>3, <2>1, <2>3
  <2> QED
    BY <1>6, <2>2, <2>3 DEF StartChosen
<1> QED
  BY <1>4, <1>5, <1>6 DEF AutoImportStep

(* A request starts knowing what its guards asked. *)
LEMMA StartSole ==
  ASSUME Sole, NEW q \in Requests, NEW r, Start(q, r), Knows(r)', UNCHANGED <<job, item>>
  PROVE  SoleStep(q)
<1>1. req'[q] = r
  BY DEF Start, Sole, Alone, TypeOK
<1>2. Knows(req[q])'
  BY <1>1 DEF Knows, Claiming
<1>3. Gentle(q) /\ CompletedIsTerminal'
  BY CompletedStays DEF Gentle
<1> QED
  BY <1>2, <1>3, SoleKnows DEF SoleStep, CompletionInvariant

(* The requests on a job. *)
LEMMA JobRequestSole ==
  ASSUME Sole, NEW q \in Requests, JobRequest(q)
  PROVE  SoleStep(q)
<1>1. UNCHANGED <<job, item>>
  BY DEF JobRequest, BeginApproveJob, BeginCancelJob, BeginRequeue, BeginAutoImport, BeginProcess
<1>2. Gentle(q) /\ CompletedIsTerminal'
  BY <1>1, CompletedStays DEF Gentle
<1>3. ASSUME NEW r, Start(q, r), r.it = None, r.op # "revalidate",
             \A i \in r.set : i \in Items /\ i[1] = r.job,
             \/ r.set = {} /\ r.pc = "commit"
             \/ r.pc = "commit" /\ \A i \in r.set : item[i].status \notin Settled
             \/ r.pc = "requeue" /\ r.op = "combined" /\ \A i \in r.set : item[i].status = "failed"
      PROVE  SoleStep(q)
  <2>1. Knows(r)'
    BY <1>1, <1>3 DEF Knows, Claiming, ProcessOps, Settled
  <2> QED
    BY <1>1, <1>3, <2>1, StartSole
<1>4. ASSUME NEW j \in Jobs, BeginApproveJob(q, j)
      PROVE  SoleStep(q)
  <2> DEFINE r == ReadJob("approve_job", j)
  <2>1. Start(q, r)
    BY <1>4 DEF BeginApproveJob
  <2>2. r.op = "approve_job" /\ r.pc = "commit" /\ r.it = None /\ r.set = {}
    BY DEF ReadJob, Idle
  <2> HIDE DEF r
  <2> QED
    BY <1>3, <2>1, <2>2
<1>5. ASSUME NEW j \in Jobs, BeginCancelJob(q, j)
      PROVE  SoleStep(q)
  <2> DEFINE r == [ReadJob("cancel_job", j) EXCEPT !.set = Cancellable(j)]
  <2>1. Start(q, r)
    BY <1>5 DEF BeginCancelJob
  <2>2. /\ r.op = "cancel_job" /\ r.pc = "commit" /\ r.it = None /\ r.set = Cancellable(j)
        /\ r.job = j
    BY DEF ReadJob, Idle
  <2>3. \A i \in Cancellable(j) : i \in Items /\ i[1] = j /\ item[i].status \notin Settled
    BY DEF Cancellable, ItemsOf, Settled
  <2> HIDE DEF r
  <2> QED
    BY <1>3, <2>1, <2>2, <2>3
<1>6. ASSUME NEW j \in Jobs, BeginRequeue(q, j)
      PROVE  SoleStep(q)
  <2> DEFINE r == [ReadJob("combined", j) EXCEPT !.pc = "requeue",
                                                 !.set = InfraFailures(j, item)]
  <2>1. Start(q, r)
    BY <1>6 DEF BeginRequeue
  <2>2. /\ r.op = "combined" /\ r.pc = "requeue" /\ r.it = None /\ r.set = InfraFailures(j, item)
        /\ r.job = j
    BY DEF ReadJob, Idle
  <2>3. \A i \in InfraFailures(j, item) : i \in Items /\ i[1] = j /\ item[i].status = "failed"
    BY DEF InfraFailures
  <2> HIDE DEF r
  <2> QED
    BY <1>3, <2>1, <2>2, <2>3
<1>7. ASSUME NEW j \in Jobs, BeginAutoImport(q, j)
      PROVE  SoleStep(q)
  <2> DEFINE chosen(last) == {i \in CleanReviewed(j) : i[2] <= last[2]}
  <2>1. PICK last \in CleanReviewed(j) :
          Start(q, Choosing("auto_import", j, chosen(last)))
    BY <1>7 DEF BeginAutoImport
  <2>2. \A i \in chosen(last) : i[1] = j
    BY DEF CleanReviewed, ItemsOf
  <2> HIDE DEF chosen
  <2>3. req' = [req EXCEPT ![q] = Choosing("auto_import", j, chosen(last))]
    BY <2>1 DEF Start
  <2> QED
    BY <1>2, <2>2, <2>3, ChoosingKnows DEF SoleStep, CompletionInvariant
<1>8. ASSUME NEW j \in Jobs, NEW op \in ProcessOps, BeginProcess(q, op, j)
      PROVE  SoleStep(q)
  <2>1. PICK target \in IF op = "process_item" THEN Queued(j) ELSE {None} :
          PickItem(q, op, j, job[j], Candidates(op, j, target))
    BY <1>8 DEF BeginProcess
  <2>2. \A i \in Candidates(op, j, target) :
          i \in Items /\ item[i].status = "queued" /\ i[1] = j
    BY <2>1 DEF Candidates, Queued, ItemsOf
  <2> QED
    BY <1>1, <1>2, <2>1, <2>2, PickItemKnows DEF SoleStep, CompletionInvariant
<1> QED
  BY <1>4, <1>5, <1>6, <1>7, <1>8 DEF JobRequest

(* The requests on an item. *)
LEMMA ItemRequestSole ==
  ASSUME Sole, NEW q \in Requests, ItemRequest(q)
  PROVE  SoleStep(q)
<1>1. PICK i \in Items : \/ \E op \in AllOps : BeginReview(q, op, i)
                         \/ BeginImport(q, i)
                         \/ BeginReconcile(q, i)
  BY DEF ItemRequest
<1>2. UNCHANGED <<job, item>>
  BY <1>1 DEF BeginReview, BeginImport, BeginReconcile
<1>3. ASSUME NEW r, Start(q, r), r.it = i, r.job = i[1], r.set = {},
             \/ r.op \in {"import", "reconcile"}
             \/ /\ r.op \in {"retry", "edit", "approve", "reject", "restore"}
                /\ item[i].status \notin Settled,
             r.pc \in {"commit", "claim"}
      PROVE  SoleStep(q)
  <2>1. Knows(r)'
    BY <1>2, <1>3 DEF Knows, Claiming, ProcessOps
  <2> QED
    BY <1>2, <1>3, <2>1, StartSole
<1>4. ASSUME NEW op \in AllOps, BeginReview(q, op, i)
      PROVE  SoleStep(q)
  <2> DEFINE r == [ReadJob(op, i[1]) EXCEPT !.it = i, !.seen = item[i]]
  <2>1. Start(q, r) /\ CanRead(op, i) /\ op \in Ops
    BY <1>4 DEF BeginReview
  <2>2. r.op = op /\ r.it = i /\ r.pc = "commit" /\ r.job = i[1] /\ r.set = {}
    BY DEF ReadJob, Idle
  <2>3. op # "revalidate"
    BY <2>1 DEF Sole, NoRevalidation
  <2>4. op \in {"retry", "edit", "approve", "reject", "restore"}
    BY <2>1, <2>3 DEF CanRead
  <2>5. item[i].status \notin Settled
    BY <2>1, <2>4 DEF CanRead, Settled
  <2> HIDE DEF r
  <2> QED
    BY <1>3, <2>1, <2>2, <2>4, <2>5
<1>5. CASE BeginImport(q, i)
  <2> DEFINE r == [ReadJob("import", i[1]) EXCEPT !.pc = "claim", !.it = i, !.seen = item[i]]
  <2>1. Start(q, r)
    BY <1>5 DEF BeginImport
  <2>2. r.op = "import" /\ r.it = i /\ r.pc = "claim" /\ r.job = i[1] /\ r.set = {}
    BY DEF ReadJob, Idle
  <2> HIDE DEF r
  <2> QED
    BY <1>3, <2>1, <2>2
<1>6. CASE BeginReconcile(q, i)
  <2> DEFINE r(s) == [ReadJob("reconcile", i[1]) EXCEPT !.it = i, !.seen = item[i], !.slug = s]
  <2>1. PICK s \in Slugs : Start(q, r(s))
    BY <1>6 DEF BeginReconcile
  <2>2. r(s).op = "reconcile" /\ r(s).it = i /\ r(s).pc = "commit" /\ r(s).job = i[1] /\ r(s).set = {}
    BY DEF ReadJob, Idle
  <2> HIDE DEF r
  <2> QED
    BY <1>3, <2>1, <2>2
<1> QED
  BY <1>1, <1>4, <1>5, <1>6

(* A new job changes nothing of the items of other jobs. *)
LEMMA CreateJobRows ==
  ASSUME TypeOK, ImportInvariant, NEW j \in Jobs, NEW selected, CreateJob(j, selected)
  PROVE  /\ job[j] = "absent" /\ job' = [job EXCEPT ![j] = "draft"]
         /\ UNCHANGED <<rec, mealie, req>>
         /\ \A i \in Items : job[i[1]] # "absent" => item'[i] = item[i]
         /\ \A i \in Items : i[1] # j => item'[i] = item[i]
BY DEF CreateJob

(* Every step keeps the invariant. *)
LEMMA CompletionStep == Sole /\ [Next]_vars => CompletionInvariant'
<1> SUFFICES ASSUME Sole, [Next]_vars
             PROVE  CompletionInvariant'
  OBVIOUS
<1>1. ASSUME UNCHANGED <<job, item>>, \A q \in Requests : req'[q] \in {req[q], Idle}
      PROVE  CompletionInvariant'
  <2>1. ASSUME NEW q \in Requests
        PROVE  Knows(req[q])'
    <3>1. CASE req'[q] = req[q]
      BY <1>1, <3>1 DEF Sole, CompletionInvariant, Knows, Claiming
    <3>2. CASE req'[q] = Idle
      BY <3>2 DEF Knows, Idle, Claiming, ProcessOps
    <3> QED
      BY <1>1, <3>1, <3>2
  <2> QED
    BY <1>1, <2>1, CompletedStays DEF CompletionInvariant
<1>2. CASE UNCHANGED vars
  BY <1>1, <1>2 DEF vars
<1>3. CASE ResetWorkingTree \/ SyncRows
  BY <1>1, <1>3 DEF ResetWorkingTree, SyncRows
<1>4. CASE Crash
  BY <1>1, <1>4 DEF Crash
<1>5. ASSUME NEW j \in Jobs, NEW selected \in SUBSET Recipes, CreateJob(j, selected)
      PROVE  CompletionInvariant'
  <2>1. /\ job[j] = "absent" /\ job' = [job EXCEPT ![j] = "draft"]
        /\ UNCHANGED <<rec, mealie, req>>
        /\ \A i \in Items : job[i[1]] # "absent" => item'[i] = item[i]
        /\ \A i \in Items : i[1] # j => item'[i] = item[i]
    BY <1>5, CreateJobRows DEF Sole, Alone
  <2>2. ASSUME NEW q \in Requests
        PROVE  Knows(req[q])'
    <3>1. /\ req'[q] = req[q] /\ Knows(req[q]) /\ HasTarget(req[q])
          /\ req[q].it \in Items \cup {None} /\ None \notin Items /\ req[q].set \subseteq Items
      BY <2>1, KnownItem
    <3>2. req[q].it # None => item'[req[q].it] = item[req[q].it]
      BY <2>1, <3>1 DEF HasTarget
    <3>3. \A i \in req[q].set : item'[i] = item[i]
      BY <2>1, <3>1 DEF HasTarget
    <3>4. req[q].pc = "llm" => req[q].it # None
      BY <3>1 DEF HasTarget
    <3> QED
      BY <3>1, <3>2, <3>3, <3>4 DEF Knows, Claiming
  <2>3. CompletedIsTerminal'
    BY <2>1, CompletedStep DEF Sole, Alone, TypeOK
  <2> QED
    BY <2>2, <2>3 DEF CompletionInvariant
<1>6. ASSUME NEW q \in Requests, JobRequest(q) \/ ItemRequest(q) \/ Progress(q)
      PROVE  CompletionInvariant'
  <2>1. SoleStep(q)
    BY <1>6, JobRequestSole, ItemRequestSole, ReviewCommitSole, ProcessStepSole,
       ImportStepSole, AutoImportStepSole
    DEF Progress
  <2> QED
    BY <2>1 DEF SoleStep
<1> QED
  BY <1>2, <1>3, <1>4, <1>5, <1>6 DEF Next

(* At first no job is completed and nobody is at work. *)
LEMMA InitCompletion == Init => CompletionInvariant
<1> SUFFICES ASSUME Init PROVE CompletionInvariant
  OBVIOUS
<1>1. \A q \in Requests : Knows(req[q])
  BY IdleKnows DEF Init
<1>2. CompletedIsTerminal
  BY DEF Init, CompletedIsTerminal
<1> QED
  BY <1>1, <1>2 DEF CompletionInvariant

(***************************************************************************)
(* What a recount rests on, in every reachable state.                      *)
(***************************************************************************)
THEOREM CompletionInvariantHolds ==
  OneAtATime /\ NoRevalidation => (Spec => []CompletionInvariant)
<1> SUFFICES ASSUME OneAtATime, NoRevalidation PROVE Spec => []CompletionInvariant
  OBVIOUS
<1>1. TypeOK /\ ImportInvariant /\ AloneInvariant /\ CompletionInvariant /\ [Next]_vars
      => CompletionInvariant'
  BY CompletionStep DEF Sole, Alone
<1> QED
  BY InitCompletion, TypeAndInvariant, AloneInvariantHolds, <1>1, PTL DEF Spec

(***************************************************************************)
(* A completed job has nothing left to do: each of the recounts, also      *)
(* those that count an item before its new status is flushed, sees an item *)
(* that is not done as long as there is one.                               *)
(***************************************************************************)
THEOREM CompletedIsTerminalHolds ==
  OneAtATime /\ NoRevalidation => (Spec => []CompletedIsTerminal)
<1>1. CompletionInvariant => CompletedIsTerminal
  BY DEF CompletionInvariant
<1> QED
  BY CompletionInvariantHolds, <1>1, PTL

-----------------------------------------------------------------------------
(* The recipes of Mealie and their records *)

(* No answer of Mealie is lost: the handler learns the slug of what it created. *)
NoReplyLost == "lost_reply" \notin Faults

(* A record that says that a recipe exists is of an item that says so too. *)
RecordSettled ==
  \A i \in Items : rec[i].state \in DUPLICATE_IMPORT_STATES => item[i].status \in Settled

(***************************************************************************)
(* The record of the item a recipe was created for says that the recipe    *)
(* exists, and names it unless the import never got to write its slug.     *)
(***************************************************************************)
RecipeKnown ==
  \A s \in Slugs : mealie[s].state # "free" =>
    LET o == mealie[s].owner
    IN  /\ o \in Items /\ rec[o].state \in DUPLICATE_IMPORT_STATES
        /\ rec[o].slug = s \/ (rec[o].slug = None /\ rec[o].state = "importing")

(* What an import past its claim knows of its recipe, and a reconciliation of its match. *)
Handles(r) ==
  /\ r.pc \in PastClaim => rec[r.it].state = "importing"
  /\ r.pc \in {"create", "created"} => rec[r.it].slug = None
  /\ r.pc \in {"create", "undone"} =>
       \A s \in Slugs : mealie[s].state # "free" => mealie[s].owner # r.it
  /\ r.pc \in HasRecipe \cup {"stranded"} =>
       r.slug \in Slugs /\ mealie[r.slug].state # "free" /\ mealie[r.slug].owner = r.it
  /\ r.pc \in {"patch", "verify", "delete", "stranded"} => rec[r.it].slug = r.slug
  /\ r.op = "reconcile" => SameKey(r.it, mealie[r.slug].owner)

(***************************************************************************)
(* The inductive invariant: NoDuplicateRecipe needs to know that the item  *)
(* of a recipe has a record (a second item of its revision then has none), *)
(* and that needs an import to know which recipe it created.               *)
(***************************************************************************)
RecipesInvariant ==
  /\ \A q \in Requests : Handles(req[q])
  /\ RecordSettled
  /\ RecipeKnown
  /\ NoDuplicateRecipe

(* What holds before a step, with every recipe accounted for. *)
Accounted == /\ Sole /\ RecipesInvariant
             /\ NoReplyLost

(* With one slot, what its request knows of its recipe is all that is known. *)
LEMMA AccountedHandles ==
  ASSUME Accounted, NEW q \in Requests, Handles(req[q])'
  PROVE  \A p \in Requests : Handles(req[p])'
BY DEF Accounted, Sole, Alone, OneAtATime

(* A request that is neither an import past its claim nor a reconciliation. *)
LEMMA OutsideHandles ==
  ASSUME Accounted, NEW q \in Requests, req'[q].pc \notin PastClaim, req'[q].op # "reconcile"
  PROVE  \A p \in Requests : Handles(req[p])'
<1>1. Handles(req[q])'
  BY DEF Handles, PastClaim, HasRecipe
<1> QED
  BY <1>1, AccountedHandles

(* A recipe of the item of a record of its own: there is only one. *)
LEMMA OneRecipeEach ==
  ASSUME Accounted, NEW s \in Slugs, NEW u \in Slugs, mealie[s].state # "free",
         mealie[u].state # "free", SameKey(mealie[s].owner, mealie[u].owner)
  PROVE  s = u
BY DEF Accounted, RecipesInvariant, NoDuplicateRecipe

(* Steps that leave records and recipes alone and turn no item away. *)
LEMMA TablesStay ==
  ASSUME Accounted, NEW q \in Requests, UNCHANGED <<rec, mealie>>, Gentle(q),
         req[q].pc # "undone"
  PROVE  RecordSettled' /\ RecipeKnown' /\ NoDuplicateRecipe'
<1>1. RecordSettled'
  BY DEF Accounted, RecipesInvariant, RecordSettled, Gentle
<1>2. RecipeKnown'
  BY DEF Accounted, RecipesInvariant, RecipeKnown
<1>3. NoDuplicateRecipe'
  BY DEF Accounted, RecipesInvariant, RecipeKnown, NoDuplicateRecipe, SameKey, Gentle
<1> QED
  BY <1>1, <1>2, <1>3

(* A step that leaves records and recipes alone, of a request with no recipe at hand. *)
LEMMA OutsideStep ==
  ASSUME Accounted, NEW q \in Requests, UNCHANGED <<rec, mealie>>, Gentle(q),
         req[q].pc # "undone", req'[q].pc \notin PastClaim, req'[q].op # "reconcile"
  PROVE  RecipesInvariant'
BY TablesStay, OutsideHandles DEF RecipesInvariant

(* The end of a request, or of one item of an automatic import. *)
LEMMA EndsOutside ==
  ASSUME Accounted, NEW q \in Requests, NEW rest,
         \/ Finish(q)
         \/ GoOn(q, rest)
         \/ \E op \in {"auto_import", "combined"} : \E j, items :
              req' = [req EXCEPT ![q] = Choosing(op, j, items)]
  PROVE  req'[q].pc \notin PastClaim /\ req'[q].op # "reconcile"
<1>1. Idle.pc \notin PastClaim /\ Idle.op # "reconcile"
  BY DEF Idle, PastClaim
<1>2. CASE Finish(q)
  BY <1>1, <1>2 DEF Finish, Accounted, Sole, Alone, TypeOK
<1>3. ASSUME NEW op \in {"auto_import", "combined"}, NEW j, NEW items,
             req' = [req EXCEPT ![q] = Choosing(op, j, items)]
      PROVE  req'[q].pc \notin PastClaim /\ req'[q].op # "reconcile"
  <2> DEFINE r == [Idle EXCEPT !.op = op, !.pc = "choose", !.job = j, !.set = items]
  <2>1. r.op = op /\ r.pc = "choose"
    BY DEF Idle
  <2>2. req'[q] \in {Idle, r}
    BY <1>3 DEF Choosing, Accounted, Sole, Alone, TypeOK
  <2> HIDE DEF r
  <2> QED
    BY <1>1, <2>1, <2>2 DEF PastClaim
<1>4. CASE GoOn(q, rest)
  BY <1>3, <1>4 DEF GoOn
<1> QED
  BY <1>2, <1>3, <1>4

(* A handler that picks an item to normalize has no recipe at hand. *)
LEMMA PickItemOutside ==
  ASSUME Accounted, NEW q \in Requests, NEW op \in ProcessOps, NEW j, NEW sjob, NEW items,
         PickItem(q, op, j, sjob, items)
  PROVE  req'[q].pc \notin PastClaim /\ req'[q].op # "reconcile"
<1>1. PICK it \in IF Eligible(items) = {} THEN {None} ELSE Eligible(items) :
        req' = [req EXCEPT ![q] =
          [Idle EXCEPT
            !.op = op, !.pc = "claim", !.job = j, !.sjob = sjob, !.it = it,
            !.seen = IF it = None THEN NoRow ELSE item[it],
            !.set = Skipped(IF it = None THEN items ELSE Before(items, it))]]
  BY DEF PickItem
<1>2. req'[q].op = op /\ req'[q].pc = "claim"
  BY <1>1 DEF Idle, Accounted, Sole, Alone, TypeOK
<1> QED
  BY <1>2 DEF ProcessOps, PastClaim

(* A handler at work on the records and on Mealie: what it knows of its item. *)
LEMMA HandledRecord ==
  ASSUME Accounted, NEW q \in Requests
  PROVE  /\ req[q] \in Request /\ Handles(req[q]) /\ Knows(req[q]) /\ DOMAIN rec = Items
         /\ DOMAIN mealie = Slugs /\ None \notin Slugs
         /\ req[q].op \in {"import", "reconcile"} => req[q].it \in Items
         /\ req[q].pc \in PastClaim => item[req[q].it].status = "importing"
         /\ req[q].op = "reconcile" => req[q].slug \in Slugs /\ mealie[req[q].slug].state = "managed"
<1>1. None \notin Slugs
  BY ImportAssumption
<1>2. /\ req[q] \in Request /\ HasTarget(req[q]) /\ UpToDate(req[q]) /\ Knows(req[q])
      /\ Handles(req[q]) /\ None \notin Items
  BY KnownItem DEF Accounted, RecipesInvariant
<1>3. DOMAIN rec = Items /\ DOMAIN mealie = Slugs
  BY DEF Accounted, Sole, Alone, TypeOK
<1>4. req[q].pc \in PastClaim => req[q].op = "import" /\ req[q].it \in Items
  BY <1>2 DEF HasTarget
<1>5. req[q].pc \in PastClaim => item[req[q].it].status = "importing"
  BY <1>2, <1>4 DEF UpToDate
<1> QED
  BY <1>1, <1>2, <1>3, <1>5 DEF HasTarget, UpToDate

(* A step that ends a request and leaves records and recipes alone. *)
LEMMA EndingStep ==
  ASSUME Accounted, NEW q \in Requests, UNCHANGED <<rec, mealie>>, SoleStep(q),
         req[q].pc # "undone", NEW rest, StopOrGoOn(q, rest)
  PROVE  RecipesInvariant'
<1>1. req'[q].pc \notin PastClaim /\ req'[q].op # "reconcile"
  BY EndsOutside DEF StopOrGoOn
<1> QED
  BY <1>1, OutsideStep DEF SoleStep

(* The record reconcile_import writes is of the item the recipe was created for. *)
LEMMA ReconcileAccounted ==
  ASSUME Accounted, NEW q \in Requests, CommitReconcile(q), Gentle(q),
         item'[req[q].it].status = "imported",
         UpsertReconciledRecord(req[q].it, req[q].slug)
  PROVE  RecipesInvariant'
<1> DEFINE t == req[q].it
           s == req[q].slug
           o == mealie[s].owner
<1>1. /\ t \in Items /\ s \in Slugs /\ mealie[s].state # "free" /\ SameKey(t, o)
      /\ req[q].op = "reconcile" /\ req[q].pc = "commit" /\ Finish(q) /\ UNCHANGED mealie
  <2>1. req[q].op = "reconcile" /\ req[q].pc = "commit" /\ Finish(q) /\ UNCHANGED mealie
    BY DEF CommitReconcile, Committing
  <2> QED
    BY <2>1, HandledRecord DEF Handles
<1>2. o \in Items /\ rec[o].state # "none"
  BY <1>1 DEF Accounted, RecipesInvariant, RecipeKnown, DUPLICATE_IMPORT_STATES
<1>3. o = t
  <2>1. CanStartRecord(t) /\ OneRecordPerRevision
    BY DEF UpsertReconciledRecord, Accounted, Sole, Alone, ImportInvariant
  <2>2. SameKey(o, t)
    BY <1>1 DEF SameKey
  <2> QED
    BY <1>1, <1>2, <2>1, <2>2 DEF CanStartRecord, KeyTaken, OneRecordPerRevision
<1>4. /\ rec'[t].state = "imported" /\ rec'[t].slug = s
      /\ \A i \in Items : i # t => rec'[i] = rec[i]
  BY <1>1, HandledRecord DEF UpsertReconciledRecord
<1>5. RecordSettled'
  BY <1>1, <1>4 DEF Accounted, RecipesInvariant, RecordSettled, Gentle, Settled
<1>6. ASSUME NEW u \in Slugs, mealie[u].state # "free", mealie[u].owner = t
      PROVE  u = s
  BY <1>1, <1>3, <1>6, OneRecipeEach DEF SameKey
<1>7. RecipeKnown'
  BY <1>1, <1>4, <1>6 DEF Accounted, RecipesInvariant, RecipeKnown, DUPLICATE_IMPORT_STATES
<1>8. NoDuplicateRecipe'
  BY <1>1 DEF Accounted, RecipesInvariant, RecipeKnown, NoDuplicateRecipe, SameKey, Gentle
<1>9. \A p \in Requests : Handles(req[p])'
  BY <1>1, EndsOutside, OutsideHandles
<1> QED
  BY <1>5, <1>7, <1>8, <1>9 DEF RecipesInvariant

(* The commits of the review handlers and of reconcile_import. *)
LEMMA ReviewCommitAccounted ==
  ASSUME Accounted, NEW q \in Requests, ReviewCommit(q)
  PROVE  RecipesInvariant'
<1>1. SoleStep(q) /\ Gentle(q)
  BY ReviewCommitSole DEF Accounted, SoleStep
<1>2. req[q].pc = "commit" /\ StopOrGoOn(q, {})
  BY DEF ReviewCommit, CommitApproveJob, CommitCancelJob, CommitRetry, CommitEdit, CommitApprove,
         CommitReject, CommitRestore, CommitRevalidate, CommitRevalidateStale, CommitReconcile,
         FlushAndRecount, Committing, StopOrGoOn
<1>3. UNCHANGED mealie
  BY DEF ReviewCommit, CommitApproveJob, CommitCancelJob, CommitRetry, CommitEdit, CommitApprove,
         CommitReject, CommitRestore, CommitRevalidate, CommitRevalidateStale, CommitReconcile
<1>4. CASE UNCHANGED rec
  BY <1>1, <1>2, <1>3, <1>4, EndingStep
<1>5. CASE CommitReconcile(q)
  <2> DEFINE t == req[q].it
             r == OrmRow(item[t], req[q].seen, "imported", FALSE, item[t].json)
  <2>1. CASE UNCHANGED rec
    BY <1>4, <2>1
  <2>2. CASE /\ UpsertReconciledRecord(t, req[q].slug)
             /\ item' = [item EXCEPT ![t] = r]
    <3>1. t \in Items /\ req[q].seen = item[t] /\ DOMAIN item = Items
      BY <1>5, HandledRecord, KnownItem
      DEF CommitReconcile, Committing, Accounted, Sole, Alone, TypeOK
    <3>2. r.status = "imported"
      BY <3>1 DEF OrmRow, OrmSet
    <3> HIDE DEF r
    <3>3. item'[t].status = "imported"
      BY <2>2, <3>1, <3>2
    <3> QED
      BY <1>1, <1>5, <2>2, <3>3, ReconcileAccounted
  <2> QED
    BY <1>5, <2>1, <2>2 DEF CommitReconcile
<1>6. UNCHANGED rec \/ CommitReconcile(q)
  BY DEF ReviewCommit, CommitApproveJob, CommitCancelJob, CommitRetry, CommitEdit, CommitApprove,
         CommitReject, CommitRestore, CommitRevalidate, CommitRevalidateStale
<1> QED
  BY <1>4, <1>5, <1>6

(* The steps of the handlers that process an item. *)
LEMMA ProcessStepAccounted ==
  ASSUME Accounted, NEW q \in Requests, ProcessStep(q)
  PROVE  RecipesInvariant'
<1>1. SoleStep(q) /\ Gentle(q)
  BY ProcessStepSole DEF Accounted, SoleStep
<1>2. UNCHANGED <<rec, mealie>>
  BY DEF ProcessStep, ProcessNothing, ProcessStale, ClaimProcess, ClaimLost, Normalized,
         NextOfBatch, NormalizationFailed, CommitRequeue
<1>3. req[q].pc # "undone" /\ (req[q].pc = "llm" => req[q].op \in ProcessOps)
  BY HandledRecord
  DEF Knows, ProcessStep, ProcessNothing, ProcessStale, ClaimProcess, ClaimLost, Normalized,
      NextOfBatch, NormalizationFailed, CommitRequeue, AtClaim
<1>4. ASSUME req'[q].pc \notin PastClaim, req'[q].op # "reconcile"
      PROVE  RecipesInvariant'
  BY <1>1, <1>2, <1>3, <1>4, OutsideStep
<1>5. CASE Finish(q)
  BY <1>4, <1>5, EndsOutside
<1>6. CASE ClaimProcess(q)
  <2>1. req'[q].pc = "llm" /\ req'[q].op = req[q].op
    BY <1>6, HandledRecord DEF ClaimProcess, Accounted, Sole, Alone, TypeOK, Request
  <2>2. req[q].op \in ProcessOps
    BY <1>6 DEF ClaimProcess, AtClaim
  <2> QED
    BY <1>4, <2>1, <2>2 DEF ProcessOps, PastClaim
<1>7. CASE Normalized(q)
  <2>1. \/ Finish(q)
        \/ \E status : req' = [req EXCEPT ![q] =
             [Idle EXCEPT !.op = "process_batch", !.pc = "next",
                          !.job = req[q].job, !.sjob = status]]
        \/ req' = [req EXCEPT ![q] = Choosing("combined", req[q].job, {req[q].it})]
    BY <1>7 DEF Normalized
  <2>2. ASSUME NEW status,
               req' = [req EXCEPT ![q] =
                 [Idle EXCEPT !.op = "process_batch", !.pc = "next",
                              !.job = req[q].job, !.sjob = status]]
        PROVE  RecipesInvariant'
    <3>1. req'[q].pc = "next" /\ req'[q].op = "process_batch"
      BY <2>2 DEF Idle, Accounted, Sole, Alone, TypeOK
    <3> QED
      BY <1>4, <3>1 DEF PastClaim
  <2>3. CASE req' = [req EXCEPT ![q] = Choosing("combined", req[q].job, {req[q].it})]
    BY <1>4, <2>3, EndsOutside
  <2> QED
    BY <1>5, <2>1, <2>2, <2>3
<1>8. CASE NextOfBatch(q)
  <2>1. CASE PickItem(q, "process_batch", req[q].job, req[q].sjob, Queued(req[q].job))
    BY <1>4, <2>1, PickItemOutside DEF ProcessOps
  <2> QED
    BY <1>5, <1>8, <2>1 DEF NextOfBatch
<1>9. CASE NormalizationFailed(q)
  <2>1. \E sjob, set :
          req' = [req EXCEPT ![q] =
            [[Idle EXCEPT !.op = req[q].op, !.pc = "requeue", !.job = req[q].job]
               EXCEPT !.sjob = sjob, !.set = set]]
        \/ Finish(q)
    BY <1>9 DEF NormalizationFailed, Finish
  <2>2. ASSUME NEW sjob, NEW set,
               req' = [req EXCEPT ![q] =
                 [[Idle EXCEPT !.op = req[q].op, !.pc = "requeue", !.job = req[q].job]
                    EXCEPT !.sjob = sjob, !.set = set]]
        PROVE  RecipesInvariant'
    <3>1. req'[q].pc = "requeue" /\ req'[q].op = req[q].op
      BY <2>2 DEF Idle, Accounted, Sole, Alone, TypeOK
    <3>2. req[q].op \in ProcessOps
      BY <1>3, <1>9 DEF NormalizationFailed
    <3> QED
      BY <1>4, <3>1, <3>2 DEF PastClaim, ProcessOps
  <2> QED
    BY <1>5, <2>1, <2>2
<1>10. CASE ProcessNothing(q) \/ ProcessStale(q) \/ ClaimLost(q) \/ CommitRequeue(q)
  BY <1>5, <1>10 DEF ProcessNothing, ProcessStale, ClaimLost, CommitRequeue
<1> QED
  BY <1>6, <1>7, <1>8, <1>9, <1>10 DEF ProcessStep

(* An import that goes on: what it still knows of its recipe. *)
LEMMA ImportGoesOn ==
  ASSUME Accounted, NEW q \in Requests, NEW pc \in PastClaim, NEW slug,
         req'[q].op = "import", req'[q].pc = pc, req'[q].it = req[q].it, req'[q].slug = slug,
         rec'[req[q].it].state = "importing",
         pc \in {"create", "created"} => rec'[req[q].it].slug = None,
         pc \in {"create", "undone"} =>
           \A s \in Slugs : mealie'[s].state # "free" => mealie'[s].owner # req[q].it,
         pc \in HasRecipe \cup {"stranded"} =>
           slug \in Slugs /\ mealie'[slug].state # "free" /\ mealie'[slug].owner = req[q].it,
         pc \in {"patch", "verify", "delete", "stranded"} => rec'[req[q].it].slug = slug
  PROVE  \A p \in Requests : Handles(req[p])'
<1>1. Handles(req[q])'
  BY DEF Handles, HasRecipe
<1> QED
  BY <1>1, AccountedHandles

(* The claim starts the record anew: the item has no recipe yet. *)
LEMMA ClaimImportAccounted ==
  ASSUME Accounted, NEW q \in Requests, ClaimImport(q)
  PROVE  RecipesInvariant'
<1> DEFINE t == req[q].it
           claimed == [item[t] EXCEPT !.status = "importing", !.infra = FALSE]
           seen == [claimed EXCEPT !.json = req[q].seen.json]
<1>1. /\ req[q].op = "import" /\ t \in Items /\ req[q].pc = "claim" /\ req[q] \in Request
      /\ DOMAIN rec = Items /\ DOMAIN item = Items /\ DOMAIN req = Requests /\ item[t] \in ItemRow
  BY HandledRecord DEF ClaimImport, Importing, Accounted, Sole, Alone, TypeOK
<1>2. /\ item[t].status = "approved_for_import" /\ UNCHANGED mealie
      /\ item' = [item EXCEPT ![t] = claimed]
      /\ rec' = [rec EXCEPT ![t] = [state |-> "importing", slug |-> None]]
      /\ req' = [req EXCEPT ![q].pc = "create", ![q].seen = seen]
  BY DEF ClaimImport, ClaimableForImport
<1>3. claimed.status = "importing" /\ claimed.rev = item[t].rev
  BY <1>1 DEF ItemRow
<1> HIDE DEF claimed, seen
<1>4. item'[t] = claimed /\ \A i \in Items : i # t => item'[i] = item[i]
  BY <1>1, <1>2
<1>5. /\ rec'[t].state = "importing" /\ rec'[t].slug = None
      /\ \A i \in Items : i # t => rec'[i] = rec[i]
  BY <1>1, <1>2
<1>6. \A s \in Slugs : mealie[s].state # "free" => mealie[s].owner # t
  BY <1>2 DEF Accounted, RecipesInvariant, RecordSettled, RecipeKnown, Settled
<1>7. req'[q].op = "import" /\ req'[q].pc = "create" /\ req'[q].it = t
  BY <1>1, <1>2 DEF Request
<1>8. \A p \in Requests : Handles(req[p])'
  BY <1>2, <1>5, <1>6, <1>7, ImportGoesOn DEF PastClaim, HasRecipe
<1>9. RecordSettled'
  BY <1>3, <1>4, <1>5 DEF Accounted, RecipesInvariant, RecordSettled, Settled
<1>10. RecipeKnown'
  BY <1>2, <1>5, <1>6 DEF Accounted, RecipesInvariant, RecipeKnown
<1>11. \A i \in Items : item'[i].rev = item[i].rev
  BY <1>3, <1>4
<1>12. NoDuplicateRecipe'
  BY <1>2, <1>11 DEF Accounted, RecipesInvariant, RecipeKnown, NoDuplicateRecipe, SameKey
<1> QED
  BY <1>8, <1>9, <1>10, <1>12 DEF RecipesInvariant

(* A recipe is created for an item that has none, and whose revision has none. *)
LEMMA CreateBlankAccounted ==
  ASSUME Accounted, NEW q \in Requests, CreateBlank(q)
  PROVE  RecipesInvariant'
<1> DEFINE t == req[q].it
<1>1. PICK s \in Slugs : /\ Created(q, s)
                         /\ req' = [req EXCEPT ![q].pc = "created", ![q].slug = s]
  BY DEF CreateBlank
<1>2. /\ req[q].op = "import" /\ req[q].pc = "create" /\ mealie[s].state = "free"
      /\ mealie' = [mealie EXCEPT ![s] = [state |-> "blank", owner |-> t]]
      /\ UNCHANGED <<item, rec>>
  BY <1>1 DEF Created, Importing, CreateBlank
<1>3. /\ req[q] \in Request /\ t \in Items /\ DOMAIN mealie = Slugs /\ DOMAIN req = Requests
      /\ rec[t].state = "importing" /\ rec[t].slug = None
      /\ \A u \in Slugs : mealie[u].state # "free" => mealie[u].owner # t
  BY <1>2, HandledRecord DEF Handles, PastClaim, Accounted, Sole, Alone, TypeOK
<1>4. /\ mealie'[s].state = "blank" /\ mealie'[s].owner = t
      /\ \A u \in Slugs : u # s => mealie'[u] = mealie[u]
  BY <1>2, <1>3
<1>5. req'[q].op = "import" /\ req'[q].pc = "created" /\ req'[q].it = t /\ req'[q].slug = s
  BY <1>1, <1>2, <1>3 DEF Request
<1>6. \A p \in Requests : Handles(req[p])'
  BY <1>2, <1>3, <1>4, <1>5, ImportGoesOn DEF PastClaim, HasRecipe
<1>7. RecordSettled'
  BY <1>2 DEF Accounted, RecipesInvariant, RecordSettled
<1>8. RecipeKnown'
  BY <1>2, <1>3, <1>4 DEF Accounted, RecipesInvariant, RecipeKnown, DUPLICATE_IMPORT_STATES
<1>9. ASSUME NEW u \in Slugs, mealie[u].state # "free"
      PROVE  ~SameKey(mealie[u].owner, t) /\ ~SameKey(t, mealie[u].owner)
  <2>1. mealie[u].owner \in Items /\ rec[mealie[u].owner].state # "none" /\ mealie[u].owner # t
    BY <1>3, <1>9 DEF Accounted, RecipesInvariant, RecipeKnown, DUPLICATE_IMPORT_STATES
  <2>2. OneRecordPerRevision
    BY DEF Accounted, Sole, Alone, ImportInvariant
  <2> QED
    BY <1>3, <2>1, <2>2 DEF OneRecordPerRevision
<1>10. NoDuplicateRecipe'
  <2> SUFFICES ASSUME NEW u \in Slugs, NEW w \in Slugs, u # w,
                      mealie'[u].state # "free", mealie'[w].state # "free"
               PROVE  ~SameKey(mealie'[u].owner, mealie'[w].owner)
    BY <1>2 DEF NoDuplicateRecipe, SameKey
  <2>1. CASE u = s
    BY <1>4, <1>9, <2>1
  <2>2. CASE w = s
    BY <1>4, <1>9, <2>2
  <2>3. CASE u # s /\ w # s
    BY <1>4, <2>3 DEF Accounted, RecipesInvariant, NoDuplicateRecipe
  <2> QED
    BY <2>1, <2>2, <2>3
<1> QED
  BY <1>6, <1>7, <1>8, <1>10 DEF RecipesInvariant

(* The slug is recorded, the recipe is patched, or the import turns to undoing it. *)
LEMMA WorkOnRecipeAccounted ==
  ASSUME Accounted, NEW q \in Requests,
         \/ CreateFailed(q) \/ RecordSlug(q) \/ PatchApplied(q)
         \/ ImportFailed(q) \/ DeleteFailed(q)
  PROVE  RecipesInvariant'
<1> DEFINE t == req[q].it
           s == req[q].slug
<1>1. /\ req[q].op = "import" /\ req[q].pc \in {"create", "created", "patch", "verify", "delete"}
      /\ UNCHANGED item
  BY DEF CreateFailed, RecordSlug, PatchApplied, ImportFailed, DeleteFailed, Importing
<1>2. /\ req[q] \in Request /\ t \in Items /\ DOMAIN mealie = Slugs /\ DOMAIN req = Requests
      /\ DOMAIN rec = Items /\ Handles(req[q]) /\ rec[t] \in RecordRow /\ \A u \in Slugs : mealie[u] \in MealieRow
  BY <1>1, HandledRecord DEF Accounted, Sole, Alone, TypeOK
<1>3. ASSUME NEW pc \in PastClaim, Goto(q, pc)
      PROVE  /\ req'[q].op = "import" /\ req'[q].pc = pc /\ req'[q].it = t /\ req'[q].slug = s
  BY <1>1, <1>2, <1>3 DEF Goto, Request
<1>4. CASE CreateFailed(q) \/ ImportFailed(q) \/ DeleteFailed(q)
  <2>1. UNCHANGED <<rec, mealie>>
    BY <1>4 DEF CreateFailed, ImportFailed, DeleteFailed
  <2>2. PICK pc \in PastClaim :
          /\ Goto(q, pc)
          /\ \/ pc = "undone" /\ req[q].pc = "create"
             \/ pc \in {"delete", "stranded"} /\ req[q].pc \in {"patch", "verify", "delete"}
    BY <1>4 DEF CreateFailed, ImportFailed, DeleteFailed, Importing, PastClaim
  <2>3. \A p \in Requests : Handles(req[p])'
    BY <1>2, <1>3, <2>1, <2>2, ImportGoesOn DEF Handles, HasRecipe, PastClaim
  <2> QED
    BY <1>1, <2>1, <2>3
    DEF Accounted, RecipesInvariant, RecordSettled, RecipeKnown, NoDuplicateRecipe, SameKey
<1>5. CASE RecordSlug(q)
  <2>1. /\ req[q].pc = "created" /\ UNCHANGED mealie /\ Goto(q, "patch")
        /\ rec' = [rec EXCEPT ![t].slug = s]
    BY <1>5 DEF RecordSlug, Importing
  <2>2. /\ rec[t].state = "importing" /\ s \in Slugs
        /\ mealie[s].state # "free" /\ mealie[s].owner = t
    BY <1>2, <2>1 DEF Handles, PastClaim, HasRecipe
  <2>3. /\ rec'[t].state = "importing" /\ rec'[t].slug = s
        /\ \A i \in Items : i # t => rec'[i] = rec[i]
    BY <1>2, <2>1, <2>2 DEF RecordRow
  <2>4. \A p \in Requests : Handles(req[p])'
    BY <1>3, <2>1, <2>2, <2>3, ImportGoesOn DEF HasRecipe, PastClaim
  <2>5. RecordSettled'
    BY <1>1, <2>2, <2>3 DEF Accounted, RecipesInvariant, RecordSettled, DUPLICATE_IMPORT_STATES
  <2>6. ASSUME NEW u \in Slugs, mealie[u].state # "free", mealie[u].owner = t
        PROVE  u = s
    BY <2>2, <2>6, OneRecipeEach DEF SameKey
  <2>7. RecipeKnown'
    BY <2>1, <2>3, <2>6 DEF Accounted, RecipesInvariant, RecipeKnown, DUPLICATE_IMPORT_STATES
  <2> QED
    BY <1>1, <2>1, <2>4, <2>5, <2>7
    DEF Accounted, RecipesInvariant, NoDuplicateRecipe, SameKey
<1>6. CASE PatchApplied(q)
  <2>1. /\ req[q].pc = "patch" /\ UNCHANGED rec /\ Goto(q, "verify")
        /\ mealie' = [mealie EXCEPT ![s].state = "managed"]
    BY <1>6 DEF PatchApplied, Importing
  <2>2. /\ rec[t].state = "importing" /\ rec[t].slug = s /\ s \in Slugs
        /\ mealie[s].state # "free" /\ mealie[s].owner = t
    BY <1>2, <2>1 DEF Handles, PastClaim, HasRecipe
  <2>3. /\ mealie'[s].state = "managed" /\ mealie'[s].owner = t
        /\ \A u \in Slugs : u # s => mealie'[u] = mealie[u]
    BY <1>2, <2>1, <2>2 DEF MealieRow
  <2>4. \A p \in Requests : Handles(req[p])'
    BY <1>3, <2>1, <2>2, <2>3, ImportGoesOn DEF HasRecipe, PastClaim
  <2>5. \A u \in Slugs : /\ mealie'[u].state # "free" => mealie[u].state # "free"
                         /\ mealie'[u].owner = mealie[u].owner
    BY <2>2, <2>3
  <2> QED
    BY <1>1, <2>1, <2>4, <2>5
    DEF Accounted, RecipesInvariant, RecordSettled, RecipeKnown, NoDuplicateRecipe, SameKey
<1> QED
  BY <1>4, <1>5, <1>6

(* The recipe is deleted: its item has no other. *)
LEMMA DeleteCreatedAccounted ==
  ASSUME Accounted, NEW q \in Requests, DeleteCreated(q)
  PROVE  RecipesInvariant'
<1> DEFINE t == req[q].it
           s == req[q].slug
<1>1. /\ req[q].op = "import" /\ req[q].pc = "delete" /\ UNCHANGED <<item, rec>>
      /\ mealie' = [mealie EXCEPT ![s] = FreeSlug] /\ Goto(q, "undone")
  BY DEF DeleteCreated, Importing, Accounted, NoReplyLost
<1>2. /\ req[q] \in Request /\ t \in Items /\ DOMAIN mealie = Slugs /\ DOMAIN req = Requests
      /\ rec[t].state = "importing" /\ rec[t].slug = s /\ s \in Slugs
      /\ mealie[s].state # "free" /\ mealie[s].owner = t
  BY <1>1, HandledRecord DEF Handles, PastClaim, HasRecipe, Accounted, Sole, Alone, TypeOK
<1>3. mealie'[s].state = "free" /\ \A u \in Slugs : u # s => mealie'[u] = mealie[u]
  BY <1>1, <1>2 DEF FreeSlug
<1>4. req'[q].op = "import" /\ req'[q].pc = "undone" /\ req'[q].it = t /\ req'[q].slug = s
  BY <1>1, <1>2 DEF Goto, Request
<1>5. \A u \in Slugs : mealie'[u].state # "free" => mealie'[u].owner # t
  BY <1>2, <1>3, OneRecipeEach DEF SameKey
<1>6. \A p \in Requests : Handles(req[p])'
  BY <1>1, <1>2, <1>4, <1>5, ImportGoesOn DEF PastClaim, HasRecipe
<1>7. \A u \in Slugs : mealie'[u].state # "free" => mealie'[u] = mealie[u]
  BY <1>3
<1> QED
  BY <1>1, <1>6, <1>7
  DEF Accounted, RecipesInvariant, RecordSettled, RecipeKnown, NoDuplicateRecipe, SameKey

(* The last commit of an import: the item, its record, and no recipe moves. *)
LEMMA SettleAccounted ==
  ASSUME Accounted, NEW q \in Requests,
         ImportVerified(q) \/ ImportUndone(q) \/ ImportStranded(q)
  PROVE  RecipesInvariant'
<1> DEFINE t == req[q].it
           s == req[q].slug
<1>1. /\ req[q].op = "import" /\ req[q].pc \in {"verify", "undone", "stranded"}
      /\ UNCHANGED mealie /\ StopOrGoOn(q, req[q].set)
  BY DEF ImportVerified, ImportUndone, ImportStranded, SettleImport, Importing, StopOrGoOn
<1>2. /\ t \in Items /\ DOMAIN rec = Items /\ rec[t] \in RecordRow /\ Handles(req[q])
      /\ rec[t].state = "importing" /\ item[t].status = "importing"
  BY <1>1, HandledRecord DEF Handles, PastClaim, Accounted, Sole, Alone, TypeOK
<1>3. Gentle(q)
  <2>1. ImportStep(q)
    BY DEF ImportStep
  <2> QED
    BY <2>1, ImportStepSole DEF Accounted, SoleStep
<1>4. \A p \in Requests : Handles(req[p])'
  BY <1>1, EndsOutside, OutsideHandles DEF StopOrGoOn
<1>5. NoDuplicateRecipe'
  BY <1>1, <1>3 DEF Accounted, RecipesInvariant, RecipeKnown, NoDuplicateRecipe, SameKey, Gentle
<1>6. CASE ImportVerified(q)
  <2>1. req[q].pc = "verify" /\ rec' = [rec EXCEPT ![t] = [state |-> "imported", slug |-> s]]
    BY <1>6 DEF ImportVerified, Importing, MarkRecordImported
  <2>2. /\ rec'[t].state = "imported" /\ rec'[t].slug = s /\ rec[t].slug = s
        /\ \A i \in Items : i # t => rec'[i] = rec[i]
    BY <1>2, <2>1 DEF Handles, PastClaim
  <2>3. RecordSettled'
    BY <1>2, <1>3, <2>1, <2>2 DEF Accounted, RecipesInvariant, RecordSettled, Gentle, Settled
  <2>4. s # None
    BY <1>2, <2>1, ImportAssumption DEF Handles, HasRecipe
  <2>5. RecipeKnown'
    BY <1>1, <2>2, <2>4 DEF Accounted, RecipesInvariant, RecipeKnown, DUPLICATE_IMPORT_STATES
  <2> QED
    BY <1>4, <1>5, <2>3, <2>5 DEF RecipesInvariant
<1>7. CASE ImportUndone(q)
  <2>1. req[q].pc = "undone" /\ rec' = [rec EXCEPT ![t].state = "rolled_back"]
    BY <1>7 DEF ImportUndone, Importing, MarkRecordFailed
  <2>2. /\ rec'[t].state = "rolled_back"
        /\ \A i \in Items : i # t => rec'[i] = rec[i]
    BY <1>2, <2>1 DEF RecordRow
  <2>3. \A u \in Slugs : mealie[u].state # "free" => mealie[u].owner # t
    BY <1>2, <2>1 DEF Handles
  <2>4. RecordSettled'
    BY <1>3, <2>1, <2>2
    DEF Accounted, RecipesInvariant, RecordSettled, Gentle, DUPLICATE_IMPORT_STATES
  <2>5. RecipeKnown'
    BY <1>1, <2>2, <2>3 DEF Accounted, RecipesInvariant, RecipeKnown
  <2> QED
    BY <1>4, <1>5, <2>4, <2>5 DEF RecipesInvariant
<1>8. CASE ImportStranded(q)
  <2>1. req[q].pc = "stranded" /\ rec' = [rec EXCEPT ![t].state = "orphaned"]
    BY <1>8 DEF ImportStranded, Importing, MarkRecordFailed
  <2>2. /\ rec'[t].state = "orphaned" /\ rec'[t].slug = s
        /\ \A i \in Items : i # t => rec'[i] = rec[i]
    BY <1>2, <2>1 DEF RecordRow, Handles
  <2>3. s \in Slugs /\ mealie[s].state # "free" /\ mealie[s].owner = t
    BY <1>2, <2>1 DEF Handles
  <2>4. RecordSettled'
    BY <1>2, <1>3, <2>1, <2>2 DEF Accounted, RecipesInvariant, RecordSettled, Gentle, Settled
  <2>5. ASSUME NEW u \in Slugs, mealie[u].state # "free", mealie[u].owner = t
        PROVE  u = s
    BY <1>2, <2>3, <2>5, OneRecipeEach DEF SameKey
  <2>6. RecipeKnown'
    BY <1>1, <2>2, <2>5 DEF Accounted, RecipesInvariant, RecipeKnown, DUPLICATE_IMPORT_STATES
  <2> QED
    BY <1>4, <1>5, <2>4, <2>6 DEF RecipesInvariant
<1> QED
  BY <1>6, <1>7, <1>8

(* The steps of an import. *)
LEMMA ImportStepAccounted ==
  ASSUME Accounted, NEW q \in Requests, ImportStep(q)
  PROVE  RecipesInvariant'
<1>1. CASE ImportRefused(q)
  <2>1. UNCHANGED <<rec, mealie>> /\ req[q].pc = "claim" /\ StopOrGoOn(q, req[q].set)
    BY <1>1 DEF ImportRefused, Importing
  <2>2. SoleStep(q)
    BY ImportStepSole DEF Accounted
  <2> QED
    BY <2>1, <2>2, EndingStep
<1>2. CASE CreateReplyLost(q)
  BY <1>2 DEF CreateReplyLost, Accounted, NoReplyLost
<1>3. CASE CreateFailed(q) \/ RecordSlug(q) \/ PatchApplied(q) \/ ImportFailed(q) \/ DeleteFailed(q)
  BY <1>3, WorkOnRecipeAccounted
<1>4. CASE ImportVerified(q) \/ ImportUndone(q) \/ ImportStranded(q)
  BY <1>4, SettleAccounted
<1> QED
  BY <1>1, <1>2, <1>3, <1>4, ClaimImportAccounted, CreateBlankAccounted, DeleteCreatedAccounted
  DEF ImportStep

(* The steps of an automatic import between its imports. *)
LEMMA AutoImportStepAccounted ==
  ASSUME Accounted, NEW q \in Requests, AutoImportStep(q)
  PROVE  RecipesInvariant'
<1>1. SoleStep(q) /\ Gentle(q)
  BY AutoImportStepSole DEF Accounted, SoleStep
<1>2. /\ UNCHANGED <<rec, mealie>> /\ req[q].pc \in {"choose", "approve", "start"}
      /\ req[q].op \in {"auto_import", "combined"} /\ req[q] \in Request /\ DOMAIN req = Requests
  BY HandledRecord, KnownItem
  DEF AutoImportStep, ChooseNext, ApproveChosen, StartChosen, HasTarget, Accounted, Sole, Alone, TypeOK
<1>3. ASSUME req'[q].pc \notin PastClaim, req'[q].op # "reconcile"
      PROVE  RecipesInvariant'
  BY <1>1, <1>2, <1>3, OutsideStep
<1>4. ASSUME NEW rest, StopOrGoOn(q, rest)
      PROVE  RecipesInvariant'
  BY <1>1, <1>2, <1>4, EndingStep
<1>5. ASSUME NEW op \in {"auto_import", "combined", "import"},
             NEW pc \in {"approve", "start", "claim"}, NEW j, NEW i, NEW seen, NEW rest,
             req' = [req EXCEPT ![q] = [ReadJob(op, j) EXCEPT
                       !.pc = pc, !.it = i, !.seen = seen, !.set = rest]]
      PROVE  RecipesInvariant'
  <2>1. req'[q].op = op /\ req'[q].pc = pc
    BY <1>2, <1>5 DEF ReadJob, Idle
  <2> QED
    BY <1>3, <2>1 DEF PastClaim
<1>6. CASE ChooseNext(q)
  <2> DEFINE pc(i) == IF item[i].status = "review" THEN "approve" ELSE "start"
             rest(i) == req[q].set \ {i}
  <2>1. PICK i \in req[q].set :
          \/ req' = [req EXCEPT ![q] =
               [ReadJob(req[q].op, req[q].job) EXCEPT
                  !.pc = pc(i), !.it = i, !.seen = item[i], !.set = rest(i)]]
          \/ StopOrGoOn(q, rest(i))
    BY <1>6 DEF ChooseNext
  <2>2. pc(i) \in {"approve", "start", "claim"}
    OBVIOUS
  <2> HIDE DEF pc, rest
  <2>3. CASE StopOrGoOn(q, rest(i))
    BY <1>4, <2>3
  <2>4. CASE req' = [req EXCEPT ![q] =
               [ReadJob(req[q].op, req[q].job) EXCEPT
                  !.pc = pc(i), !.it = i, !.seen = item[i], !.set = rest(i)]]
    BY <1>2, <1>5, <2>2, <2>4
  <2> QED
    BY <2>1, <2>3, <2>4
<1>7. CASE ApproveChosen(q)
  <2>1. req'[q].pc = "start" /\ req'[q].op = req[q].op
    BY <1>2, <1>7 DEF ApproveChosen, Request
  <2> QED
    BY <1>2, <1>3, <2>1 DEF PastClaim
<1>8. CASE StartChosen(q)
  <2>1. CASE StopOrGoOn(q, req[q].set)
    BY <1>4, <2>1
  <2>2. CASE req' = [req EXCEPT ![q] =
               [ReadJob("import", req[q].job) EXCEPT
                  !.pc = "claim", !.it = req[q].it, !.seen = item[req[q].it],
                  !.set = req[q].set]]
    BY <1>5, <2>2
  <2> QED
    BY <1>8, <2>1, <2>2 DEF StartChosen
<1> QED
  BY <1>6, <1>7, <1>8 DEF AutoImportStep

(* A request starts, and is neither an import past its claim nor a reconciliation. *)
LEMMA StartAccounted ==
  ASSUME Accounted, NEW q \in Requests, NEW r, Start(q, r), SoleStep(q),
         UNCHANGED <<rec, mealie>>, r.pc \notin PastClaim, r.op # "reconcile"
  PROVE  RecipesInvariant'
<1>1. req'[q] = r /\ req[q].pc # "undone"
  BY DEF Start, Idle, Accounted, Sole, Alone, TypeOK
<1> QED
  BY <1>1, OutsideStep DEF SoleStep

(* The requests on a job. *)
LEMMA JobRequestAccounted ==
  ASSUME Accounted, NEW q \in Requests, JobRequest(q)
  PROVE  RecipesInvariant'
<1>1. SoleStep(q) /\ Gentle(q)
  BY JobRequestSole DEF Accounted, SoleStep
<1>2. UNCHANGED <<rec, mealie>> /\ req[q].pc # "undone"
  <2>1. UNCHANGED <<rec, mealie>> /\ req[q] = Idle
    BY DEF JobRequest, BeginApproveJob, BeginCancelJob, BeginRequeue, BeginAutoImport, BeginProcess,
           Start
  <2> QED
    BY <2>1 DEF Idle
<1>3. ASSUME NEW r, Start(q, r), r.pc \in {"commit", "requeue"},
             r.op \in {"approve_job", "cancel_job", "combined"}
      PROVE  RecipesInvariant'
  BY <1>1, <1>2, <1>3, StartAccounted DEF PastClaim
<1>4. ASSUME NEW j \in Jobs, BeginApproveJob(q, j)
      PROVE  RecipesInvariant'
  <2> DEFINE r == ReadJob("approve_job", j)
  <2>1. Start(q, r) /\ r.op = "approve_job" /\ r.pc = "commit"
    BY <1>4 DEF BeginApproveJob, ReadJob, Idle
  <2> HIDE DEF r
  <2> QED
    BY <1>3, <2>1
<1>5. ASSUME NEW j \in Jobs, BeginCancelJob(q, j)
      PROVE  RecipesInvariant'
  <2> DEFINE r == [ReadJob("cancel_job", j) EXCEPT !.set = Cancellable(j)]
  <2>1. Start(q, r) /\ r.op = "cancel_job" /\ r.pc = "commit"
    BY <1>5 DEF BeginCancelJob, ReadJob, Idle
  <2> HIDE DEF r
  <2> QED
    BY <1>3, <2>1
<1>6. ASSUME NEW j \in Jobs, BeginRequeue(q, j)
      PROVE  RecipesInvariant'
  <2> DEFINE r == [ReadJob("combined", j) EXCEPT !.pc = "requeue",
                                                 !.set = InfraFailures(j, item)]
  <2>1. Start(q, r) /\ r.op = "combined" /\ r.pc = "requeue"
    BY <1>6 DEF BeginRequeue, ReadJob, Idle
  <2> HIDE DEF r
  <2> QED
    BY <1>3, <2>1
<1>7. ASSUME NEW j \in Jobs, BeginAutoImport(q, j)
      PROVE  RecipesInvariant'
  <2>1. \E items : req' = [req EXCEPT ![q] = Choosing("auto_import", j, items)]
    BY <1>7 DEF BeginAutoImport, Start
  <2> QED
    BY <1>1, <1>2, <2>1, EndsOutside, OutsideStep
<1>8. ASSUME NEW j \in Jobs, NEW op \in ProcessOps, BeginProcess(q, op, j)
      PROVE  RecipesInvariant'
  <2>1. \E items : PickItem(q, op, j, job[j], items)
    BY <1>8 DEF BeginProcess
  <2> QED
    BY <1>1, <1>2, <2>1, PickItemOutside, OutsideStep
<1> QED
  BY <1>4, <1>5, <1>6, <1>7, <1>8 DEF JobRequest

(* The requests on an item. *)
LEMMA ItemRequestAccounted ==
  ASSUME Accounted, NEW q \in Requests, ItemRequest(q)
  PROVE  RecipesInvariant'
<1>1. SoleStep(q) /\ Gentle(q)
  BY ItemRequestSole DEF Accounted, SoleStep
<1>2. PICK i \in Items : \/ \E op \in AllOps : BeginReview(q, op, i)
                         \/ BeginImport(q, i)
                         \/ BeginReconcile(q, i)
  BY DEF ItemRequest
<1>3. UNCHANGED <<rec, mealie>> /\ req[q].pc # "undone" /\ DOMAIN req = Requests
  <2>1. UNCHANGED <<rec, mealie>> /\ req[q] = Idle
    BY <1>2 DEF BeginReview, BeginImport, BeginReconcile, Start
  <2> QED
    BY <2>1 DEF Idle, Accounted, Sole, Alone, TypeOK
<1>4. ASSUME NEW op \in AllOps, BeginReview(q, op, i)
      PROVE  RecipesInvariant'
  <2> DEFINE r == [ReadJob(op, i[1]) EXCEPT !.it = i, !.seen = item[i]]
  <2>1. Start(q, r) /\ r.op = op /\ r.pc = "commit"
    BY <1>4 DEF BeginReview, ReadJob, Idle
  <2>2. op # "reconcile"
    BY <1>4 DEF BeginReview, CanRead
  <2> HIDE DEF r
  <2> QED
    BY <1>1, <1>3, <2>1, <2>2, StartAccounted DEF PastClaim
<1>5. CASE BeginImport(q, i)
  <2> DEFINE r == [ReadJob("import", i[1]) EXCEPT !.pc = "claim", !.it = i, !.seen = item[i]]
  <2>1. Start(q, r) /\ r.op = "import" /\ r.pc = "claim"
    BY <1>5 DEF BeginImport, ReadJob, Idle
  <2> HIDE DEF r
  <2> QED
    BY <1>1, <1>3, <2>1, StartAccounted DEF PastClaim
<1>6. CASE BeginReconcile(q, i)
  <2> DEFINE r(s) == [ReadJob("reconcile", i[1]) EXCEPT !.it = i, !.seen = item[i], !.slug = s]
  <2>1. PICK s \in Slugs : Matches(i) = {s} /\ Start(q, r(s))
    BY <1>6 DEF BeginReconcile
  <2>2. r(s).op = "reconcile" /\ r(s).pc = "commit" /\ r(s).it = i /\ r(s).slug = s
    BY DEF ReadJob, Idle
  <2> HIDE DEF r
  <2>3. req'[q] = r(s)
    BY <1>3, <2>1 DEF Start
  <2>4. SameKey(i, mealie[s].owner) /\ UNCHANGED <<item, mealie>>
    BY <1>6, <2>1 DEF Matches, BeginReconcile
  <2>5. SameKey(i, mealie[s].owner)'
    BY <2>4 DEF SameKey
  <2>6. Handles(req[q])'
    BY <2>2, <2>3, <2>4, <2>5 DEF Handles, PastClaim, HasRecipe
  <2> QED
    BY <1>1, <1>3, <2>6, AccountedHandles, TablesStay DEF RecipesInvariant
<1> QED
  BY <1>2, <1>4, <1>5, <1>6

(* Every step keeps the invariant. *)
LEMMA RecipesStep == Accounted /\ [Next]_vars => RecipesInvariant'
<1> SUFFICES ASSUME Accounted, [Next]_vars
             PROVE  RecipesInvariant'
  OBVIOUS
<1>1. ASSUME UNCHANGED <<item, rec, mealie>>, \A q \in Requests : req'[q] \in {req[q], Idle}
      PROVE  RecipesInvariant'
  <2>1. ASSUME NEW q \in Requests
        PROVE  Handles(req[q])'
    <3>1. CASE req'[q] = req[q]
      BY <1>1, <3>1 DEF Accounted, RecipesInvariant, Handles, SameKey
    <3>2. CASE req'[q] = Idle
      BY <3>2 DEF Handles, Idle, PastClaim, HasRecipe
    <3> QED
      BY <1>1, <3>1, <3>2
  <2> QED
    BY <1>1, <2>1
    DEF Accounted, RecipesInvariant, RecordSettled, RecipeKnown, NoDuplicateRecipe, SameKey
<1>2. CASE UNCHANGED vars
  BY <1>1, <1>2 DEF vars
<1>3. CASE ResetWorkingTree \/ SyncRows
  BY <1>1, <1>3 DEF ResetWorkingTree, SyncRows
<1>4. CASE Crash
  BY <1>1, <1>4 DEF Crash
<1>5. ASSUME NEW j \in Jobs, NEW selected \in SUBSET Recipes, CreateJob(j, selected)
      PROVE  RecipesInvariant'
  <2>1. /\ UNCHANGED <<rec, mealie, req>>
        /\ \A i \in Items : job[i[1]] # "absent" => item'[i] = item[i]
    BY <1>5, CreateJobRows DEF Accounted, Sole, Alone
  <2>2. \A i \in Items : rec[i].state # "none" => item'[i] = item[i]
    BY <2>1 DEF Accounted, Sole, Alone, ImportInvariant, AbsentJobIsEmpty
  <2>3. \A s \in Slugs : mealie[s].state # "free"
          => mealie[s].owner \in Items /\ item'[mealie[s].owner] = item[mealie[s].owner]
    BY <2>2 DEF Accounted, RecipesInvariant, RecipeKnown, DUPLICATE_IMPORT_STATES
  <2>4. ASSUME NEW q \in Requests
        PROVE  Handles(req[q])'
    <3>1. /\ req'[q] = req[q] /\ Handles(req[q])
          /\ req[q].op = "reconcile" => item'[req[q].it] = item[req[q].it]
      BY <2>1, HandledRecord, KnownItem DEF Accounted, HasTarget
    <3>2. req[q].op = "reconcile" => item'[mealie[req[q].slug].owner] = item[mealie[req[q].slug].owner]
      BY <2>3, HandledRecord
    <3> QED
      BY <2>1, <3>1, <3>2 DEF Handles, SameKey
  <2>5. RecordSettled'
    BY <2>1, <2>2 DEF Accounted, RecipesInvariant, RecordSettled, DUPLICATE_IMPORT_STATES
  <2> QED
    BY <2>1, <2>3, <2>4, <2>5
    DEF Accounted, RecipesInvariant, RecipeKnown, NoDuplicateRecipe, SameKey
<1>6. ASSUME NEW q \in Requests, JobRequest(q) \/ ItemRequest(q) \/ Progress(q)
      PROVE  RecipesInvariant'
  BY <1>6, JobRequestAccounted, ItemRequestAccounted, ReviewCommitAccounted,
     ProcessStepAccounted, ImportStepAccounted, AutoImportStepAccounted
  DEF Progress
<1> QED
  BY <1>2, <1>3, <1>4, <1>5, <1>6 DEF Next

(* At first Mealie is empty and nobody is at work. *)
LEMMA InitRecipes == Init => RecipesInvariant
<1> SUFFICES ASSUME Init PROVE RecipesInvariant
  OBVIOUS
<1>1. \A q \in Requests : Handles(req[q])
  BY DEF Init, Handles, Idle, PastClaim, HasRecipe
<1>2. RecordSettled
  BY DEF Init, RecordSettled, NoRecord, DUPLICATE_IMPORT_STATES
<1>3. RecipeKnown /\ NoDuplicateRecipe
  BY DEF Init, RecipeKnown, NoDuplicateRecipe, FreeSlug
<1> QED
  BY <1>1, <1>2, <1>3 DEF RecipesInvariant

(***************************************************************************)
(* As long as requests do not overlap and no answer of Mealie is lost,     *)
(* every recipe is known by the record of the item it was created for.     *)
(***************************************************************************)
THEOREM RecipesInvariantHolds ==
  OneAtATime /\ NoRevalidation /\ NoReplyLost => (Spec => []RecipesInvariant)
<1> SUFFICES ASSUME OneAtATime, NoRevalidation, NoReplyLost PROVE Spec => []RecipesInvariant
  OBVIOUS
<1>1. TypeOK /\ ImportInvariant /\ AloneInvariant /\ CompletionInvariant
      /\ RecipesInvariant /\ [Next]_vars => RecipesInvariant'
  BY RecipesStep DEF Accounted, Sole, Alone
<1> QED
  BY InitRecipes, TypeAndInvariant, AloneInvariantHolds, CompletionInvariantHolds, <1>1, PTL
  DEF Spec

(***************************************************************************)
(* Mealie never holds two recipes of one source revision: an import starts *)
(* only for an item without a recipe, in a crash or a failed clean-up the  *)
(* recipe keeps its record, and the unique key refuses any other item.     *)
(***************************************************************************)
THEOREM NoDuplicateRecipeHolds ==
  OneAtATime /\ NoRevalidation /\ NoReplyLost => (Spec => []NoDuplicateRecipe)
<1>1. RecipesInvariant => NoDuplicateRecipe
  BY DEF RecipesInvariant
<1> QED
  BY RecipesInvariantHolds, <1>1, PTL

(***************************************************************************)
(* Every recipe in Mealie is named by a record that says it exists, or is  *)
(* of an item whose record says an import of it began and wrote no slug.   *)
(***************************************************************************)
THEOREM EveryRecipeTrackedHolds ==
  OneAtATime /\ NoRevalidation /\ NoReplyLost => (Spec => []EveryRecipeTracked)
<1>1. TypeOK /\ RecipesInvariant => EveryRecipeTracked
  <2> SUFFICES ASSUME TypeOK, RecipesInvariant, NEW s \in Slugs, mealie[s].state # "free"
               PROVE  Tracked(s)
    BY DEF EveryRecipeTracked
  <2> DEFINE o == mealie[s].owner
  <2>1. /\ o \in Items /\ rec[o].state \in DUPLICATE_IMPORT_STATES /\ rec[o] \in RecordRow
        /\ rec[o].slug = s \/ (rec[o].slug = None /\ rec[o].state = "importing")
    BY DEF RecipesInvariant, RecipeKnown, TypeOK
  <2>2. CASE rec[o].slug = s
    BY <2>1, <2>2 DEF Tracked
  <2>3. CASE rec[o].slug = None /\ rec[o].state = "importing"
    <3>1. rec[o] = [state |-> "importing", slug |-> None]
      BY <2>1, <2>3 DEF RecordRow
    <3> QED
      BY <2>1, <3>1 DEF Tracked
  <2> QED
    BY <2>1, <2>2, <2>3
<1> QED
  BY RecipesInvariantHolds, TypeAndInvariant, <1>1, PTL

-----------------------------------------------------------------------------
(* The queue implements IdempotentImport *)

(* A recipe whose record and content stay is at the same stage. *)
LEMMA RecipeStays ==
  ASSUME NEW s \in Slugs, mealie'[s] = mealie[s],
         mealie[s].state # "free" =>
           LET o == mealie[s].owner
           IN  /\ item'[o].rev = item[o].rev
               /\ \/ rec'[o] = rec[o]
                  \/ rec[o].state # "imported" /\ rec'[o].state # "imported"
  PROVE  RecipeAt(s)' = RecipeAt(s)
<1> DEFINE o == mealie[s].owner
           r == [state |-> "imported", slug |-> s]
<1>1. CASE mealie[s].state = "free"
  BY <1>1 DEF RecipeAt
<1>2. CASE mealie[s].state # "free"
  <2>1. (rec'[o] = r) <=> (rec[o] = r)
    BY <1>2
  <2> HIDE DEF r
  <2>2. RecipeAt(s) = [stage |-> IF rec[o] = r THEN "imported" ELSE mealie[s].state,
                       of |-> <<o[2], item[o].rev>>]
    BY <1>2 DEF RecipeAt, r
  <2>3. RecipeAt(s)' = [stage |-> IF rec'[o] = r THEN "imported" ELSE mealie[s].state,
                        of |-> <<o[2], item'[o].rev>>]
    BY <1>2 DEF RecipeAt, r
  <2> QED
    BY <1>2, <2>1, <2>2, <2>3
<1> QED
  BY <1>1, <1>2

(* Where every recipe stays, the step is one of nobody. *)
LEMMA AllStay ==
  ASSUME \A s \in Slugs : RecipeAt(s)' = RecipeAt(s)
  PROVE  [Idempotent!Next]_RecipesInMealie
BY DEF RecipesInMealie

(* A step that changes no record, no recipe and no content. *)
LEMMA RecordsStay ==
  ASSUME UNCHANGED <<rec, mealie>>,
         \A s \in Slugs : mealie[s].state # "free"
           => item'[mealie[s].owner].rev = item[mealie[s].owner].rev
  PROVE  [Idempotent!Next]_RecipesInMealie
BY RecipeStays, AllStay

(* One recipe advances, the others stay. *)
LEMMA OneAdvances ==
  ASSUME NEW s \in Slugs, NEW from, NEW to, NEW c,
         \A u \in Slugs \ {s} : RecipeAt(u)' = RecipeAt(u),
         RecipeAt(s) = [stage |-> from, of |-> c],
         RecipeAt(s)' = [stage |-> to, of |-> c]
  PROVE  Idempotent!Advance(s, from, to)
<1>1. RecipesInMealie[s].stage = from
  BY DEF RecipesInMealie
<1>2. RecipesInMealie' = [RecipesInMealie EXCEPT ![s].stage = to]
  <2>1. [RecipesInMealie[s] EXCEPT !.stage = to] = [stage |-> to, of |-> c]
    BY DEF RecipesInMealie
  <2> QED
    BY <2>1 DEF RecipesInMealie
<1> QED
  BY <1>1, <1>2 DEF Idempotent!Advance

(* The record of an import in flight, and the recipes of its item. *)
LEMMA ItsRecipes ==
  ASSUME Accounted, NEW q \in Requests, req[q].pc \in PastClaim
  PROVE  LET t == req[q].it
             s == req[q].slug
         IN  /\ t \in Items /\ rec[t].state = "importing" /\ rec[t] \in RecordRow
             /\ DOMAIN rec = Items /\ DOMAIN mealie = Slugs
             /\ req[q].pc \in {"create", "undone"} =>
                  \A u \in Slugs : mealie[u].state # "free" => mealie[u].owner # t
             /\ req[q].pc \in HasRecipe \cup {"stranded"} =>
                  /\ s \in Slugs /\ mealie[s].state # "free" /\ mealie[s].owner = t
                  /\ mealie[s].state \in {"blank", "managed"}
                  /\ \A u \in Slugs \ {s} : mealie[u].state # "free" => mealie[u].owner # t
             /\ req[q].pc = "verify" => mealie[s].state = "managed"
<1> DEFINE t == req[q].it
           s == req[q].slug
<1>1. /\ req[q].op = "import" /\ t \in Items /\ Handles(req[q]) /\ UpToDate(req[q])
      /\ DOMAIN rec = Items /\ DOMAIN mealie = Slugs /\ rec[t] \in RecordRow
      /\ \A u \in Slugs : mealie[u] \in MealieRow
  BY HandledRecord, KnownItem DEF HasTarget, Accounted, Sole, Alone, TypeOK
<1>2. rec[t].state = "importing"
  BY <1>1 DEF Handles
<1>3. req[q].pc \in {"create", "undone"} =>
        \A u \in Slugs : mealie[u].state # "free" => mealie[u].owner # t
  BY <1>1 DEF Handles
<1>4. ASSUME req[q].pc \in HasRecipe \cup {"stranded"}
      PROVE  /\ s \in Slugs /\ mealie[s].state # "free" /\ mealie[s].owner = t
             /\ mealie[s].state \in {"blank", "managed"}
             /\ \A u \in Slugs \ {s} : mealie[u].state # "free" => mealie[u].owner # t
  <2>1. s \in Slugs /\ mealie[s].state # "free" /\ mealie[s].owner = t
    BY <1>1, <1>4 DEF Handles
  <2>2. mealie[s].state \in {"blank", "managed"}
    BY <1>1, <2>1 DEF MealieRow
  <2>3. \A u \in Slugs \ {s} : mealie[u].state # "free" => mealie[u].owner # t
    BY <2>1, OneRecipeEach DEF SameKey
  <2> QED
    BY <2>1, <2>2, <2>3
<1>5. req[q].pc = "verify" => mealie[s].state = "managed"
  BY <1>1 DEF UpToDate
<1> QED
  BY <1>1, <1>2, <1>3, <1>4, <1>5

(* A step after which only the record of item t differs, and t has no recipe. *)
LEMMA RecordOfNoRecipe ==
  ASSUME NEW t, UNCHANGED mealie, \A i \in Items : item'[i].rev = item[i].rev,
         \A i \in Items : i # t => rec'[i] = rec[i],
         \A s \in Slugs : mealie[s].state # "free"
           => mealie[s].owner \in Items /\ mealie[s].owner # t
  PROVE  [Idempotent!Next]_RecipesInMealie
<1>1. \A s \in Slugs : RecipeAt(s)' = RecipeAt(s)
  BY RecipeStays
<1> QED
  BY <1>1, AllStay

(* A step that makes the record of item t say that its recipe s is imported. *)
LEMMA RecordKeeps ==
  ASSUME NEW t \in Items, NEW s \in Slugs, UNCHANGED mealie,
         \A i \in Items : item'[i].rev = item[i].rev,
         \A i \in Items : i # t => rec'[i] = rec[i],
         rec'[t] = [state |-> "imported", slug |-> s],
         mealie[s].state = "managed", mealie[s].owner = t,
         \A u \in Slugs \ {s} : mealie[u].state # "free"
           => mealie[u].owner \in Items /\ mealie[u].owner # t
  PROVE  [Idempotent!Next]_RecipesInMealie
<1> DEFINE c == <<t[2], item[t].rev>>
<1>1. \A u \in Slugs \ {s} : RecipeAt(u)' = RecipeAt(u)
  BY RecipeStays
<1>2. RecipeAt(s)' = [stage |-> "imported", of |-> c]
  BY DEF RecipeAt
<1>3. CASE rec[t] = [state |-> "imported", slug |-> s]
  <2>1. RecipeAt(s)' = RecipeAt(s)
    BY <1>3, RecipeStays
  <2> QED
    BY <1>1, <2>1, AllStay
<1>4. CASE rec[t] # [state |-> "imported", slug |-> s]
  <2>1. RecipeAt(s) = [stage |-> "managed", of |-> c]
    BY <1>4 DEF RecipeAt
  <2> HIDE DEF c
  <2>2. Idempotent!Advance(s, "managed", "imported")
    BY <1>1, <1>2, <2>1, OneAdvances
  <2> QED
    BY <2>2 DEF Idempotent!Next, Idempotent!Keep
<1> QED
  BY <1>3, <1>4

(* Every recipe is of an item that has a record. *)
LEMMA Owners ==
  ASSUME Accounted, NEW s \in Slugs, mealie[s].state # "free"
  PROVE  /\ mealie[s].owner \in Items
         /\ rec[mealie[s].owner].state \in DUPLICATE_IMPORT_STATES
BY DEF Accounted, RecipesInvariant, RecipeKnown

(* A reconciliation keeps the recipe it found, or nothing. *)
LEMMA ReconcileImplements ==
  ASSUME Accounted, NEW q \in Requests, CommitReconcile(q),
         \A i \in Items : item'[i].rev = item[i].rev
  PROVE  [Idempotent!Next]_RecipesInMealie
<1> DEFINE t == req[q].it
           s == req[q].slug
<1>1. /\ t \in Items /\ s \in Slugs /\ mealie[s].state = "managed" /\ SameKey(t, mealie[s].owner)
      /\ DOMAIN rec = Items /\ UNCHANGED mealie
  <2>1. req[q].op = "reconcile" /\ UNCHANGED mealie
    BY DEF CommitReconcile, Committing
  <2> QED
    BY <2>1, HandledRecord DEF Handles
<1>2. CASE UNCHANGED rec
  BY <1>1, <1>2, Owners, RecordsStay
<1>3. CASE UpsertReconciledRecord(t, s)
  <2>1. /\ rec'[t] = [state |-> "imported", slug |-> s]
        /\ \A i \in Items : i # t => rec'[i] = rec[i]
        /\ CanStartRecord(t)
    BY <1>1, <1>3 DEF UpsertReconciledRecord
  <2>2. mealie[s].owner \in Items /\ rec[mealie[s].owner].state # "none"
    BY <1>1, Owners DEF DUPLICATE_IMPORT_STATES
  <2>3. mealie[s].owner = t
    <3>1. SameKey(mealie[s].owner, t) /\ OneRecordPerRevision
      BY <1>1 DEF SameKey, Accounted, Sole, Alone, ImportInvariant
    <3> QED
      BY <1>1, <2>1, <2>2, <3>1 DEF CanStartRecord, KeyTaken, OneRecordPerRevision
  <2>4. \A u \in Slugs \ {s} : mealie[u].state # "free"
          => mealie[u].owner \in Items /\ mealie[u].owner # t
    BY <1>1, <2>3, Owners, OneRecipeEach DEF SameKey
  <2> QED
    BY <1>1, <2>1, <2>3, <2>4, RecordKeeps
<1> QED
  BY <1>2, <1>3 DEF CommitReconcile

(* The claim: the record that starts anew is of an item without a recipe. *)
LEMMA ClaimImplements ==
  ASSUME Accounted, NEW q \in Requests, ClaimImport(q),
         \A i \in Items : item'[i].rev = item[i].rev
  PROVE  [Idempotent!Next]_RecipesInMealie
<1> DEFINE t == req[q].it
<1>1. /\ item[t].status = "approved_for_import" /\ UNCHANGED mealie
      /\ rec' = [rec EXCEPT ![t] = [state |-> "importing", slug |-> None]]
  BY DEF ClaimImport, ClaimableForImport
<1>2. \A s \in Slugs : mealie[s].state # "free" => mealie[s].owner \in Items /\ mealie[s].owner # t
  BY <1>1, Owners DEF Accounted, RecipesInvariant, RecordSettled, Settled
<1>3. \A i \in Items : i # t => rec'[i] = rec[i]
  BY <1>1, HandledRecord
<1> QED
  BY <1>1, <1>2, <1>3, RecordOfNoRecipe

(* A creation, where the content has no recipe. *)
LEMMA CreateImplements ==
  ASSUME Accounted, NEW q \in Requests, CreateBlank(q)
  PROVE  [Idempotent!Next]_RecipesInMealie
<1> DEFINE t == req[q].it
           c == <<t[2], item[t].rev>>
<1>1. PICK s \in Slugs : Created(q, s)
  BY DEF CreateBlank
<1>2. /\ req[q].pc = "create" /\ mealie[s].state = "free" /\ UNCHANGED <<item, rec>>
      /\ mealie' = [mealie EXCEPT ![s] = [state |-> "blank", owner |-> t]]
  BY <1>1 DEF Created, Importing, CreateBlank
<1>3. /\ t \in Items /\ rec[t].state = "importing" /\ DOMAIN mealie = Slugs
      /\ \A u \in Slugs : mealie[u].state # "free" => mealie[u].owner # t
  BY <1>2, ItsRecipes DEF PastClaim
<1>4. /\ mealie'[s].state = "blank" /\ mealie'[s].owner = t
      /\ \A u \in Slugs : u # s => mealie'[u] = mealie[u]
  BY <1>2, <1>3
<1>5. \A u \in Slugs \ {s} : RecipeAt(u)' = RecipeAt(u)
  BY <1>2, <1>4, RecipeStays
<1>6. RecipeAt(s) = [stage |-> "free", of |-> None]
  BY <1>2 DEF RecipeAt
<1>7. RecipeAt(s)' = [stage |-> "blank", of |-> c]
  BY <1>2, <1>3, <1>4 DEF RecipeAt
<1>8. ASSUME NEW u \in Slugs, RecipeAt(u).stage # "free"
      PROVE  RecipeAt(u).of # c
  <2>1. mealie[u].state # "free"
    BY <1>8 DEF RecipeAt
  <2>2. RecipeAt(u).of = <<mealie[u].owner[2], item[mealie[u].owner].rev>>
    BY <2>1 DEF RecipeAt
  <2>3. mealie[u].owner \in Items /\ rec[mealie[u].owner].state # "none" /\ mealie[u].owner # t
    BY <1>3, <2>1, Owners DEF DUPLICATE_IMPORT_STATES
  <2>4. ~SameKey(mealie[u].owner, t)
    <3>1. OneRecordPerRevision
      BY DEF Accounted, Sole, Alone, ImportInvariant
    <3> QED
      BY <1>3, <2>3, <3>1 DEF OneRecordPerRevision
  <2> QED
    BY <2>2, <2>4 DEF SameKey
<1>9. c \in Recipes \X (Revisions \cup {None})
  BY <1>3 DEF Items, Accounted, Sole, Alone, TypeOK, ItemRow
<1> HIDE DEF c
<1>10. Idempotent!Create(s, c)
  <2>1. RecipesInMealie[s] = Idempotent!Free
    BY <1>6 DEF RecipesInMealie, Idempotent!Free
  <2>2. \A u \in Slugs : RecipesInMealie[u].stage # "free" => RecipesInMealie[u].of # c
    BY <1>8 DEF RecipesInMealie
  <2>3. RecipesInMealie' = [RecipesInMealie EXCEPT ![s] = [stage |-> "blank", of |-> c]]
    BY <1>5, <1>7 DEF RecipesInMealie
  <2> QED
    BY <2>1, <2>2, <2>3 DEF Idempotent!Create
<1> QED
  BY <1>9, <1>10 DEF Idempotent!Next

(* The clean-up undoes a recipe that is not imported. *)
LEMMA DeleteImplements ==
  ASSUME Accounted, NEW q \in Requests, DeleteCreated(q)
  PROVE  [Idempotent!Next]_RecipesInMealie
<1>1. /\ req[q].pc = "delete" /\ UNCHANGED <<item, rec>>
      /\ mealie' = [mealie EXCEPT ![req[q].slug] = FreeSlug]
  BY DEF DeleteCreated, Importing
<1>2. PICK s \in Slugs : /\ s = req[q].slug /\ mealie[s].owner = req[q].it
                        /\ mealie[s].state \in {"blank", "managed"}
                        /\ rec[req[q].it].state = "importing" /\ DOMAIN mealie = Slugs
  BY <1>1, ItsRecipes DEF PastClaim, HasRecipe
<1>3. mealie'[s].state = "free" /\ \A u \in Slugs : u # s => mealie'[u] = mealie[u]
  BY <1>1, <1>2 DEF FreeSlug
<1>4. \A u \in Slugs \ {s} : RecipeAt(u)' = RecipeAt(u)
  BY <1>1, <1>3, RecipeStays
<1>5. RecipeAt(s)' = [stage |-> "free", of |-> None]
  BY <1>3 DEF RecipeAt
<1>6. RecipeAt(s).stage \in {"blank", "managed"}
  BY <1>2 DEF RecipeAt
<1>7. Idempotent!Undo(s)
  <2>1. RecipesInMealie[s].stage \in {"blank", "managed"}
    BY <1>2, <1>6 DEF RecipesInMealie
  <2>2. RecipesInMealie' = [RecipesInMealie EXCEPT ![s] = Idempotent!Free]
    BY <1>2, <1>4, <1>5 DEF RecipesInMealie, Idempotent!Free
  <2> QED
    BY <2>1, <2>2 DEF Idempotent!Undo
<1> QED
  BY <1>2, <1>7 DEF Idempotent!Next

(* The patch completes the recipe. *)
LEMMA PatchImplements ==
  ASSUME Accounted, NEW q \in Requests, PatchApplied(q)
  PROVE  [Idempotent!Next]_RecipesInMealie
<1> DEFINE t == req[q].it
           c == <<t[2], item[t].rev>>
<1>1. /\ req[q].pc = "patch" /\ UNCHANGED <<item, rec>>
      /\ mealie' = [mealie EXCEPT ![req[q].slug].state = "managed"]
  BY DEF PatchApplied, Importing
<1>2. PICK s \in Slugs : /\ s = req[q].slug /\ mealie[s].owner = t
                        /\ mealie[s].state \in {"blank", "managed"}
                        /\ rec[t].state = "importing" /\ DOMAIN mealie = Slugs
  BY <1>1, ItsRecipes DEF PastClaim, HasRecipe
<1>3. mealie[s] \in MealieRow
  BY <1>2 DEF Accounted, Sole, Alone, TypeOK
<1>4. /\ mealie'[s].state = "managed" /\ mealie'[s].owner = t
      /\ \A u \in Slugs : u # s => mealie'[u] = mealie[u]
  BY <1>1, <1>2, <1>3 DEF MealieRow
<1>5. \A u \in Slugs \ {s} : RecipeAt(u)' = RecipeAt(u)
  BY <1>1, <1>4, RecipeStays
<1>6. RecipeAt(s) = [stage |-> mealie[s].state, of |-> c]
  BY <1>2 DEF RecipeAt
<1>7. RecipeAt(s)' = [stage |-> "managed", of |-> c]
  BY <1>1, <1>2, <1>4 DEF RecipeAt
<1> HIDE DEF c
<1>8. CASE mealie[s].state = "managed"
  BY <1>5, <1>6, <1>7, <1>8, AllStay
<1>9. CASE mealie[s].state = "blank"
  <2>1. Idempotent!Advance(s, "blank", "managed")
    BY <1>2, <1>5, <1>6, <1>7, <1>9, OneAdvances
  <2> QED
    BY <1>2, <2>1 DEF Idempotent!Next, Idempotent!Complete
<1> QED
  BY <1>2, <1>8, <1>9

(* The last commit of an import. *)
LEMMA SettleImplements ==
  ASSUME Accounted, NEW q \in Requests, \A i \in Items : item'[i].rev = item[i].rev,
         ImportVerified(q) \/ ImportUndone(q) \/ ImportStranded(q)
  PROVE  [Idempotent!Next]_RecipesInMealie
<1> DEFINE t == req[q].it
           s == req[q].slug
<1>1. req[q].pc \in {"verify", "undone", "stranded"} /\ UNCHANGED mealie
  BY DEF ImportVerified, ImportUndone, ImportStranded, SettleImport, Importing
<1>2. /\ t \in Items /\ rec[t].state = "importing" /\ rec[t] \in RecordRow /\ DOMAIN rec = Items
      /\ req[q].pc = "undone" => \A u \in Slugs : mealie[u].state # "free" => mealie[u].owner # t
      /\ req[q].pc = "verify" =>
           /\ s \in Slugs /\ mealie[s].state = "managed" /\ mealie[s].owner = t
           /\ \A u \in Slugs \ {s} : mealie[u].state # "free" => mealie[u].owner # t
  BY <1>1, ItsRecipes DEF PastClaim, HasRecipe
<1>3. CASE ImportVerified(q)
  <2>1. req[q].pc = "verify" /\ rec' = [rec EXCEPT ![t] = [state |-> "imported", slug |-> s]]
    BY <1>3 DEF ImportVerified, Importing, MarkRecordImported
  <2>2. /\ rec'[t] = [state |-> "imported", slug |-> s]
        /\ \A i \in Items : i # t => rec'[i] = rec[i]
    BY <1>2, <2>1
  <2>3. \A u \in Slugs \ {s} : mealie[u].state # "free"
          => mealie[u].owner \in Items /\ mealie[u].owner # t
    BY <1>2, <2>1, Owners
  <2> QED
    BY <1>1, <1>2, <2>1, <2>2, <2>3, RecordKeeps
<1>4. CASE ImportUndone(q)
  <2>1. req[q].pc = "undone" /\ rec' = [rec EXCEPT ![t].state = "rolled_back"]
    BY <1>4 DEF ImportUndone, Importing, MarkRecordFailed
  <2>2. \A i \in Items : i # t => rec'[i] = rec[i]
    BY <1>2, <2>1
  <2>3. \A u \in Slugs : mealie[u].state # "free"
          => mealie[u].owner \in Items /\ mealie[u].owner # t
    BY <1>2, <2>1, Owners
  <2> QED
    BY <1>1, <2>2, <2>3, RecordOfNoRecipe
<1>5. CASE ImportStranded(q)
  <2>1. rec' = [rec EXCEPT ![t].state = "orphaned"]
    BY <1>5 DEF ImportStranded, MarkRecordFailed
  <2>2. rec'[t].state = "orphaned" /\ \A i \in Items : i # t => rec'[i] = rec[i]
    BY <1>2, <2>1 DEF RecordRow
  <2>3. \A u \in Slugs : RecipeAt(u)' = RecipeAt(u)
    BY <1>1, <1>2, <2>2, Owners, RecipeStays
  <2> QED
    BY <2>3, AllStay
<1> QED
  BY <1>3, <1>4, <1>5

(* The slug is recorded: the import goes on, the recipe stays what it is. *)
LEMMA RecordSlugImplements ==
  ASSUME Accounted, NEW q \in Requests, RecordSlug(q)
  PROVE  [Idempotent!Next]_RecipesInMealie
<1> DEFINE t == req[q].it
<1>1. /\ req[q].pc = "created" /\ UNCHANGED <<item, mealie>>
      /\ rec' = [rec EXCEPT ![t].slug = req[q].slug]
  BY DEF RecordSlug, Importing
<1>2. t \in Items /\ rec[t].state = "importing" /\ rec[t] \in RecordRow /\ DOMAIN rec = Items
  BY <1>1, ItsRecipes DEF PastClaim
<1>3. rec'[t].state = "importing" /\ \A i \in Items : i # t => rec'[i] = rec[i]
  BY <1>1, <1>2 DEF RecordRow
<1>4. \A u \in Slugs : RecipeAt(u)' = RecipeAt(u)
  BY <1>1, <1>2, <1>3, Owners, RecipeStays
<1> QED
  BY <1>4, AllStay

(* Every step is one of IdempotentImport, or of nobody. *)
LEMMA IdempotentStep == Accounted /\ [Next]_vars => [Idempotent!Next]_RecipesInMealie
<1> SUFFICES ASSUME Accounted, [Next]_vars
             PROVE  [Idempotent!Next]_RecipesInMealie
  OBVIOUS
<1>1. ASSUME UNCHANGED <<rec, mealie>>, \A i \in Items : rec[i].state # "none" => item'[i].rev = item[i].rev
      PROVE  [Idempotent!Next]_RecipesInMealie
  BY <1>1, Owners, RecordsStay DEF DUPLICATE_IMPORT_STATES
<1>2. CASE UNCHANGED vars \/ ResetWorkingTree \/ SyncRows \/ Crash
  <2>1. UNCHANGED <<item, rec, mealie>>
    BY <1>2 DEF vars, ResetWorkingTree, SyncRows, Crash
  <2> QED
    BY <1>1, <2>1
<1>3. ASSUME NEW j \in Jobs, NEW selected \in SUBSET Recipes, CreateJob(j, selected)
      PROVE  [Idempotent!Next]_RecipesInMealie
  <2>1. /\ UNCHANGED <<rec, mealie>>
        /\ \A i \in Items : job[i[1]] # "absent" => item'[i] = item[i]
    BY <1>3, CreateJobRows DEF Accounted, Sole, Alone
  <2>2. \A i \in Items : rec[i].state # "none" => item'[i] = item[i]
    BY <2>1 DEF Accounted, Sole, Alone, ImportInvariant, AbsentJobIsEmpty
  <2> QED
    BY <1>1, <2>1, <2>2
<1>4. ASSUME NEW q \in Requests, JobRequest(q) \/ ItemRequest(q) \/ Progress(q)
      PROVE  [Idempotent!Next]_RecipesInMealie
  <2>1. \A i \in Items : item'[i].rev = item[i].rev
    <3>1. Gentle(q)
      BY <1>4, JobRequestSole, ItemRequestSole, ReviewCommitSole, ProcessStepSole,
         ImportStepSole, AutoImportStepSole
      DEF Progress, SoleStep, Accounted
    <3> QED
      BY <3>1 DEF Gentle
  <2>2. UNCHANGED <<rec, mealie>> => [Idempotent!Next]_RecipesInMealie
    BY <1>1, <2>1
  <2>3. CASE JobRequest(q) \/ ItemRequest(q)
    <3>1. UNCHANGED <<rec, mealie>>
      BY <2>3
      DEF JobRequest, BeginApproveJob, BeginCancelJob, BeginRequeue, BeginAutoImport, BeginProcess,
          ItemRequest, BeginReview, BeginImport, BeginReconcile
    <3> QED
      BY <2>2, <3>1
  <2>4. CASE ProcessStep(q) \/ AutoImportStep(q)
    <3>1. UNCHANGED <<rec, mealie>>
      BY <2>4
      DEF ProcessStep, ProcessNothing, ProcessStale, ClaimProcess, ClaimLost, Normalized,
          NextOfBatch, NormalizationFailed, CommitRequeue, AutoImportStep, ChooseNext,
          ApproveChosen, StartChosen
    <3> QED
      BY <2>2, <3>1
  <2>5. CASE ReviewCommit(q)
    <3>1. UNCHANGED <<rec, mealie>> \/ CommitReconcile(q)
      BY <2>5
      DEF ReviewCommit, CommitApproveJob, CommitCancelJob, CommitRetry, CommitEdit, CommitApprove,
          CommitReject, CommitRestore, CommitRevalidate, CommitRevalidateStale
    <3> QED
      BY <2>1, <2>2, <3>1, ReconcileImplements
  <2>6. CASE ImportStep(q)
    <3>1. CASE ImportRefused(q) \/ CreateFailed(q) \/ ImportFailed(q) \/ DeleteFailed(q)
      <4>1. UNCHANGED <<rec, mealie>>
        BY <3>1 DEF ImportRefused, CreateFailed, ImportFailed, DeleteFailed
      <4> QED
        BY <2>2, <4>1
    <3>2. CASE CreateReplyLost(q)
      BY <3>2 DEF CreateReplyLost, Accounted, NoReplyLost
    <3>3. CASE ImportVerified(q) \/ ImportUndone(q) \/ ImportStranded(q)
      BY <2>1, <3>3, SettleImplements
    <3> QED
      BY <2>1, <2>6, <3>1, <3>2, <3>3, ClaimImplements, CreateImplements, RecordSlugImplements,
         PatchImplements, DeleteImplements
      DEF ImportStep
  <2> QED
    BY <1>4, <2>3, <2>4, <2>5, <2>6 DEF Progress
<1> QED
  BY <1>2, <1>3, <1>4 DEF Next

(* At first no slug of Mealie is in use. *)
LEMMA IdempotentInit == Init => Idempotent!Init
<1> SUFFICES ASSUME Init PROVE Idempotent!Init
  OBVIOUS
<1>1. \A s \in Slugs : RecipeAt(s) = [stage |-> "free", of |-> None]
  BY DEF Init, FreeSlug, RecipeAt
<1> QED
  BY <1>1 DEF RecipesInMealie, Idempotent!Init, Idempotent!Free

(***************************************************************************)
(* The queue implements IdempotentImport: whatever fails, crashes, is      *)
(* retried, reconciled or cancelled, a content gets one recipe at most,    *)
(* and a recipe recorded as imported is complete, stays in Mealie and      *)
(* stays recorded.                                                         *)
(***************************************************************************)
THEOREM ImportsAreIdempotentHolds ==
  OneAtATime /\ NoRevalidation /\ NoReplyLost => (Spec => ImportsAreIdempotent)
<1> SUFFICES ASSUME OneAtATime, NoRevalidation, NoReplyLost PROVE Spec => ImportsAreIdempotent
  OBVIOUS
<1>1. TypeOK /\ ImportInvariant /\ AloneInvariant /\ CompletionInvariant
      /\ RecipesInvariant /\ [Next]_vars => [Idempotent!Next]_RecipesInMealie
  BY IdempotentStep DEF Accounted, Sole, Alone
<1> QED
  BY IdempotentInit, TypeAndInvariant, AloneInvariantHolds, CompletionInvariantHolds,
     RecipesInvariantHolds, <1>1, PTL
  DEF Spec, ImportsAreIdempotent, Idempotent!Spec

===============================================================================

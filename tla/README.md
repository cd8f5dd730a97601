# Verification of the food assistant

TLA+ models of the parts of this repository in which order, overlap and failure
decide whether the program is right, TLC configurations that check them on small
instances, and proofs, checked by TLAPS, of what matters most.

The application is one FastAPI process over one SQLite file (`app/database.py`:
WAL, `autoflush=False`, `expire_on_commit=False`). `def` handlers run in threads,
`async def` handlers share an event loop, two maintenance commands run in
processes of their own. Mealie (the recipe server), a language model, git and
Home Assistant are outside.

## 1. Inventory

| Component | State it keeps | Operations | What makes it correct | Model |
|---|---|---|---|---|
| Recipe import queue, `app/import_queue.py` | `recipe_import_jobs`, `recipe_import_items` | create, approve, cancel a job; process next / one / a batch / and auto-import; retry, edit, approve, reject, restore, revalidate, import an item; upgrade an imported recipe | one source revision enters Mealie at most once; the quality gate holds; nothing is lost or stuck; a job's status follows from its items | `ImportStatus`, `ImportQueue`, `IdempotentImport`; the upgrade in `Entities` |
| Import records, `app/mealie_import_records.py` | `mealie_import_records`, unique import key | start, record slug, imported, failed, reconcile | one record per revision; every recipe created is on record | `ImportQueue` |
| Mealie writer, `app/mealie_importer.py` | recipes held by Mealie | POST, GET, PATCH, DELETE | a failed import leaves nothing, or a record of what it left | `ImportQueue` (calls); the payload is not modelled |
| Mealie entities, `app/mealie_entities.py`, `app/mealie_client.py` | foods, units, categories and tags held by Mealie | look up, create, recover from a conflict | an entity that is there is used, and none is created twice; an upgrade is kept or undone | `Entities` |
| Reconciliation, `app/maintenance/reconcile_mealie_import.py` | the queue's tables | mark an item imported after a search in Mealie | only a managed recipe of the revision is accepted | `ImportQueue` |
| Duplicate resolution, `app/maintenance/resolve_duplicate_import.py` | the queue's tables | point a duplicate item at the first one | | not modelled |
| Recipe sources, `app/github_sources.py` | git working tree, `source_recipes`, `recipe_sources` | create, synchronize, synchronize what is due | rows and files agree after a synchronization | `Sources`; environment of `ImportQueue` |
| Pantry, `app/inventory.py` | `pantry_items` | create, change, consume, restock, open, delete | what the ledger says is what there is | `Pantry` |
| Consumption reviews, `app/consumption.py` | `consumption_reviews`, `inventory_adjustments` | propose, confirm, dismiss, undo | a review is applied once and undone once; the ledger explains the stock | `Pantry`, `StockLedger` |
| Shopping list, `app/shopping.py` | `shopping_list_items` | add or merge, edit, complete with restock, dismiss, restore, delete, from recipe | a completion that restocks is in the ledger | `Pantry` |
| Cooking sessions, `app/cooking_sessions.py`, `app/cooking_history.py` | `cooking_sessions`, `cooking_timers`, `cooking_history` | start, steps, timers, finish, cancel | one active session per owner; finish is all or nothing and leaves no timer running; every timer that is due rings | `CookingSessions` |
| Home Assistant selection, `app/home_assistant.py` | the selection and its history, in-process owner locks | state, next, mark cooked, refresh | a valid selection is kept; a cooked recipe is recorded once and before the selection moves on | `Selection` |
| Recipe cache, `app/recommendations.py` | in-process cache and fetches in flight | cached fetch, clear, recommend | one fetch per recipe at a time; a refresh reads Mealie; every call is answered | `RecipeCache` |
| AI recipes, quality gate, semantics, model providers | none of their own | computations around external calls | | not modelled |
| Names, aliases, units | alias table | normalize, compare | | not modelled |
| Authentication, system API, schema, pages | none of their own | | | not modelled |

How they interact: a synchronization changes the files and rows the queue reads;
the queue calls the model provider and the quality gate between its claim and its
result, and Mealie between its claim and its settlement; the maintenance commands
write the queue's tables from another process; a finished cooking session writes
the cooking history and a consumption review, and may select the next recipe for
Home Assistant, which computes recommendations over the recipe cache; a
confirmed review writes the pantry and the shopping list, and a completed
shopping item writes the pantry back.

What is hard here:

* **Overlap.** Threaded handlers read their rows, decide, and write later,
  without a lock in between. The session writes only attributes that differ
  from what it read, so two handlers mix their columns in one row.
* **Order of flush and count.** With autoflush off a recount before a flush sees
  the old statuses.
* **Awaits.** A normalization takes minutes and an import several calls; the
  session that goes on afterwards still holds the rows from before.
* **Failure.** Every call to Mealie can fail before or after it took effect, the
  clean-up too, and the process can stop anywhere.

`PROJECT.json` lists each hazard at its line with the properties that watch it.

## 2. The modules, and what is left

| Module | Models | Composed with |
|---|---|---|
| `ImportStatus` | statuses and the recount of a job | |
| `ImportQueue` | jobs, items, import records, Mealie's recipes, requests in flight | extends `ImportStatus`; implements `IdempotentImport`; takes the sources as its environment |
| `IdempotentImport` | how far the import of each recipe in Mealie has come, with every call a single step | |
| `CookingSessions` | sessions, timers, history, the two locks | |
| `Pantry` | stock, reviews, ledger and shopping list, which write one another | implements `StockLedger` |
| `StockLedger` | the same with every operation a single step | |
| `Selection` | the selection of Home Assistant and the cooking history | |
| `RecipeCache` | the cache of recipe details and its fetches | |
| `Sources` | a clone, its working tree and the rows of its files | |
| `Entities` | Mealie's foods and organizers, and the upgrade of a recipe | |

`MC<module>` gives the constants of a module their values for TLC,
`<module>Proofs` has its theorems; those of `ImportQueue` for a single request are in
`ImportSingleProofs`.

Left: history rows added and deleted by hand, in `CookingSessions` and `Selection`.

## 3. The import queue

### Modules

* `ImportStatus` has the statuses and `update_job_status` as an operator on the
  set of statuses present. The code compares sums of counts with
  `total_items`; as no item is ever deleted the two say the same.
* `ImportQueue` has the tables as variables (`job`, `item`, `rec`, `row`), the
  world (`file`, the working tree; `mealie`, the recipes in Mealie) and `req`, the
  requests in flight. A request slot is a handler with its session: `pc` is the
  point it has reached, `seen` and `sjob` are the item row and the job status
  its session holds, `set` the items it loaded to change, `slug` what Mealie
  returned.
* `IdempotentImport` is what the queue promises of Mealie's recipes. A content, a
  recipe of a source at a revision, gets one recipe at most; that one is blank, then
  managed by the application, then imported; a blank or managed one may be taken
  away again, or stay for good; an imported one stays.
* `MCImportQueue` gives the constants values. `ImportQueueProofs` proves what holds
  for any number of overlapping requests, `ImportSingleProofs` what holds as long as
  one is made at a time.

`RecipeAt` maps the queue's state to that: a recipe is imported from the commit on in
which the record of its item says `imported` and names its slug, before that it is
what Mealie has, and its content is the source recipe and the revision of the item it
was made for. So a step of Mealie alone (`CreateBlank`, `PatchApplied`, `DeleteCreated`) and
a step of the tables alone (`ImportVerified`, `CommitReconcile`) each change the mapped
state once, and everything else must leave it alone: no retry, edit, crash or
reconciliation may take the record of an imported recipe, or the revision of its item.

### How code and actions correspond

| Code | Actions |
|---|---|
| `create_import_job` | `CreateJob` |
| `approve_import_job`, `cancel_import_job` | `BeginApproveJob`/`CommitApproveJob`, `BeginCancelJob`/`CommitCancelJob` |
| `retry_import_item`, `update_review_item`, `approve_item_for_import`, `reject_review_item`, `restore_rejected_item`, `revalidate_import_item` | `BeginReview`, then `CommitRetry`, `CommitEdit`, `CommitApprove`, `CommitReject`, `CommitRestore`, `CommitRevalidate` or `CommitRevalidateStale` |
| `_process_import_item` | `BeginProcess` (or `NextOfBatch`), `ProcessNothing`, `ProcessStale`, `ClaimProcess`, `ClaimLost`, `Normalized`, `NormalizationFailed` |
| `process_specific_import_item`, `process_and_auto_import`: requeue | `NormalizationFailed`, `BeginRequeue`, `CommitRequeue` |
| `import_item_to_mealie` | `BeginImport`, `ClaimImport`, `ImportRefused`, `CreateBlank`, `CreateFailed`, `CreateReplyLost`, `RecordSlug`, `PatchApplied`, `ImportFailed`, `ImportVerified`, `DeleteCreated`, `DeleteFailed`, `ImportUndone`, `ImportStranded` |
| `auto_import_eligible_items` | `BeginAutoImport`, then for each item `ChooseNext`, `ApproveChosen` if it is in review, `StartChosen`, and the steps of `import_item_to_mealie` |
| `process_and_auto_import`: import | `Normalized`, then `ChooseNext`, `ApproveChosen`, `StartChosen` and the steps of `import_item_to_mealie` |
| `reconcile_import` | `BeginReconcile`, `CommitReconcile` |
| `synchronize_source` | `ResetWorkingTree`, `SyncRows` |
| the process stops | `Crash` |

Decisions a reader should know:

* A threaded handler is two steps, its reads and its writes to the commit.
  SQLite takes the write lock at the first flush, so a recount after the flush is
  part of the commit. A recount before the flush counts what is stored, in the
  same step as the commit.
* `OrmSet` is the rule of the unit of work: an attribute is written only if it
  differs from the value read. `OrmRow` applies it to a row.
* An async handler keeps the event loop between two awaits. `LoopHeld` names the
  points where it does; `LoopFree` stands in every step by which another async
  handler starts or resumes. Calls to Mealie that no database access follows
  need no loop.
* An automatic import keeps the items it chose in `set` and reads each of them
  afresh. What it refuses counts as a failure, and failures in a row may stop it:
  `StopOrGoOn`. The loop of `process_and_auto_import` expires its session before each
  item, so its next iteration is a request the model issues anyway. A batch
  (`process-batch`) keeps its session, and with it a job status that may be
  stale: `NextOfBatch`.
* The duplicate check of `create_import_job` and its insert are one step: the
  check is repeated before every claim and does not decide anything by itself.
* `normalized_json` is its verdict: none, clean, confirm (a human must
  acknowledge), block. The error text is whether it reads as an
  infrastructure error.
* Mealie never gives a slug that is in use.
* `ResetWorkingTree` and `SyncRows` are what the queue sees of `Sources`: at any
  moment the files change, and at any other the rows follow.
* Not modelled: previews and lists, the duplicate-resolution command, deletion of
  sources (the API has none). `upgrade_mealie_structure` patches recipes in place
  and is in `Entities`.

### Properties and runs

| Run | Instance | Shows |
|---|---|---|
| `import_race` | 2 jobs, 1 recipe, 2 overlapping requests, the model and Mealie failing, lost replies, crashes | `TypeOK`, `OneItemPerRevision`, `OneNormalizationPerRevision`: of two items of one revision only one is ever being normalized, and only one importing or imported |
| `faults` | 2 jobs, 2 recipes, 1 request, Mealie failing, clean-up failing, crashes | `EveryRecipeTracked`, `NoDuplicateRecipe`, `CompletedIsTerminal`, `ImportsAreIdempotent` (the queue implements `IdempotentImport`) |
| `everything` | 1 job, 1 recipe, 2 revisions, every operation and fault, 1 request | `ImportedIsInMealie`, `BlockedIsNotImported`, `CancelledStaysCancelled` |
| `progress` | 1 job, 1 recipe, 2 overlapping requests, failures but no crash | `ImportEnds`, `NormalizationEnds` |

What the code does not keep is in section 11.

Bounds. The hazards need two items of one revision, hence two jobs, and two
requests: one more job or request repeats the roles of the first. Two recipes make
a job with several items, and the order in which processing tries them. Two
slugs let a duplicate exist, three let two recipes and a duplicate exist. Two
revisions let a source change under an item and change back. Properties that the
code keeps only as long as requests do not overlap are checked with one
request, and say so; what overlap does to them is in the hazards.
`CHECK_DEADLOCK FALSE`: the system may stop, when all jobs are
completed or cancelled. `SYMMETRY` covers jobs, requests and slugs, which nothing
orders; the liveness run has none.

Fairness. `Fairness` is strong fairness of what the server does by itself once a
request is in flight, for each request. Every await has a timeout (httpx clients,
`LLM_TIMEOUT_SECONDS`), threads are scheduled by the operating system, and the
event loop resumes ready tasks in the order they became ready. A task that is
ready can find the loop busy again and again, which disables its step in the
model, so weak fairness would not say that. Nothing is assumed of
clients. A crash leaves items `importing` or `processing` that nothing
repairs, so the liveness properties are stated without crashes.

## 4. Cooking sessions

### The model

`CookingSessions` has the tables `session`, `timer`, `history` and `review`, the
owner's `selection` (only whose finish chose it), and `req`, the requests that wait.

| Code | Actions |
|---|---|
| `start_session` | `BeginStart`, then `CommitStart` or `AbortStart` |
| `finish_session` | `Finish`; with `select_next`: `BeginFinish`, then `CommitFinish` or `AbortFinish` |
| `cancel_session` | `Cancel` |
| `create_timer`, `_timer_action`, `delete_timer` | `CreateTimer`, `TimerAction`, `DeleteTimer` |
| `_materialize_timer` in `_timers` | `Deadline` (time), `BeginRead`, then `CommitRead` or `ReadLocked` |
| the process stops | `Crash` |

* An async handler that does not await is one step: the event loop runs nothing
  else meanwhile. `start_session` awaits the recipe, `finish_session` the next
  recommendation, both under the owner's lock; these are two steps.
* `record_cooked_recipe` flushes, so that the finish holds SQLite's write lock
  while it awaits. A handler of another owner that writes then blocks the event
  loop, and with it the finish that would release the lock, until
  `busy_timeout` (five seconds) makes it fail. The failed handler has
  changed nothing; in the model the step does not happen (`WriteLockFree`).
* `def` handlers read in threads without the owner's lock and mark a due timer
  finished in a second step. SQLAlchemy writes the row by its primary key,
  whatever it holds by then; SQLite gives the id of a deleted newest timer again
  (`NextTimerId`).
* A timer whose deadline has passed is `due`; the table says `running` until a
  read or an action changes it.
* Not modelled: the current step and the checked ingredients, which nothing else
  reads; history rows added or deleted by hand; what is in a snapshot or
  a review.

### Properties and runs

| Run | Instance | Shows |
|---|---|---|
| `sessions` | 2 owners, 2 sessions, 2 timers, 2 requests, at most 2 timers per session, failures and crashes | `TypeOK`, `LockProtects`, `FinishIsAtomic`, `NoTimerOutlivesItsSession`, `EndedStaysEnded`, `EveryDueTimerEnds` |

Bounds. Two requests let a reader overlap a finish, two finishes of two
owners meet the write lock, and two sessions let one owner cook again. Two timers
are enough for one read to leave a second one due. The limit is 2 instead of 8. `CHECK_DEADLOCK FALSE`: session ids are
finite in the model, so that it stops when all are used and ended.

Fairness. A handler that awaits comes back, because the clients it awaits have
timeouts: weak fairness of `Awaited`. A session that is active is read every ten
seconds by the cooking page (`app/cooking_ui.py:75`) and by the Home Assistant
sensor (`scan_interval: 10`); finishes hold the write lock only now and then,
and the polls between them write: strong fairness of a poll that finds the lock
free, and of the commit of a session's reads. `EveryDueTimerEnds` says
that this is enough although each read marks one timer only.

## 5. The pantry, reviews and shopping list

### The model

`Pantry` has the stock of each item, the reviews, the ledger, the shopping list
and the requests in flight; `raced` notes which items and reviews two requests
have handled at once, and decides nothing.

| Code | Actions |
|---|---|
| `create_inventory_item`, `update_`, `restock_`, `consume_inventory_item`, `delete_inventory_item` | `CreateItem`, `SetQuantity`, `DeleteItem` |
| `create_review_for_session`, `build_consumption_proposal` | `CreateReview` |
| `confirm_review` | `BeginConfirm`, then `CommitConfirm` or `RefuseConfirm` |
| `dismiss_review` | `BeginDismiss`, `CommitDismiss` |
| `undo_review` | `BeginUndo`, then `CommitUndo` or `RefuseUndo` |
| `complete_item` without restock, with an existing item, with a new one | `BeginComplete` or `BeginRestock`, then `CommitComplete`, `CommitRestock`, `CommitCreate` |
| `add_or_merge` for `create_item` and `from_recipe` | `BeginAdd`, `CommitAdd` |
| `update_item`, dismiss, restore, `delete_item` | `BeginRow`, `CommitRow` or `RefuseRow` |

* A `def` handler runs in a thread. SQLite begins a transaction at the first
  write, so a handler reads its review or row, and the first pantry item,
  without a lock; from its first flush to its commit it holds the write lock.
  Every handler is therefore two steps, `Begin` reads and `Commit` writes, and what
  `Commit` uses of the first item is what `Begin` read.
* A line of a confirmation that leaves its item unchanged writes nothing, and the
  session's identity map, which holds what was not changed by weak references, has let
  go of its item by the time another line may withdraw from it: such lines are left
  out. That their item is gone can refuse the confirmation (`RefuseConfirm`).
  Confirmations refused for their lines alone change nothing and are left out too.
* Stock is written as an absolute value, and not at all where it equals the
  value read.
* An item's id is used again after the newest item was deleted (`NewId`), and the
  ledger rows of a deleted item lose their item (`Forget`).
* `_shopping_add` is part of the confirmation that runs low on an item.
* The proposal is only the candidates it offers: confirmation reads nothing else of
  it. What the model does not show of it: a recipe quantity of 0 is proposed as a
  deduction of 0.0 (`consumption.py:64-67`, `87-89`), which the confirmation's schema
  refuses (`schemas.py:224`): such a proposal cannot be confirmed as it stands.
* Abstracted: units are compatible, a name stands for the items that have it, one
  owner. What a merge changes of the shopping row it found, expiry dates,
  packages and locations are left out: nothing here reads them.

`StockLedger` is the same system with every operation a single step, and with no
requests: a pending review is confirmed once or dismissed, a confirmation takes
what the ledger then says it took, an undo gives back exactly that. It
promises so for the items and reviews no two requests handled at once: they leave
the domain of its functions (`Disturb`). `Pantry!ImplementsLedger` is the
refinement, with what each review took read off the ledger rows; TLC checks it on
the instance below, and section 10 proves it for every one.

### Properties and runs

| Run | Instance | Shows |
|---|---|---|
| `consumption` | 2 items, 1 review, 2 requests, confirmations of up to 2 lines, no shopping rows | `TypeOK`, `ReviewMatchesLedger`, `ImplementsLedger` |
| `restocking` | 1 item, 1 review, 1 shopping row, 2 requests, stock up to 2 | `LedgerExplainsStock` |
| `double_confirm` | violation; 1 item, 1 review, 2 requests | two confirmations of one review both withdraw: a finding |

Bounds. Two requests race; a third repeats one of them. Two items are the least
for which the first is read before the lock and the second under it. Stock up to
1 tells nothing, some and unknown apart, up to 2 lets a restock be told from an
undo. The two runs share what they can: the shopping list meets the reviews at
one item. `SYMMETRY` exchanges the two requests.

## 6. The Home Assistant selection

`Selection` has the selection of one owner, its recent history, the rows of the
cooking history of the last five minutes, and what each filter offers.

| Code | Actions |
|---|---|
| `home_assistant_state` | `BeginPoll`, `FinishState` |
| `refresh_home_assistant_state` | `BeginRefresh`, `TakeLock`, `FinishState` |
| `next_selection`, `select_next_for_owner` | `BeginNext`, `CommitNext`, `FinishState` |
| `mark_selection_cooked`, `record_cooked_recipe` | `MarkOnly`, or `BeginMark` and `CommitMark`; `FinishState` |
| anything fails | `Fail` |

* The handlers are `async`; each awaits the recommendations under the lock of its
  owner, and then decides and commits in one step. `next` and `mark cooked` do so
  twice, since they answer with a state computed anew.
* `refresh` alone reads the selection before it waits for the lock; SQLAlchemy's
  identity map keeps that row, so it decides on it (`Decided`).
* `Save` writes only the attributes that differ from the row the session read.
* Candidates and their scores are an arbitrary offer that may change at any time
  (`Reoffer`). A request that awaits them reads Mealie's recipes one after another, so
  that its list may mix the offers there were meanwhile: it has every recipe that was
  offered throughout (`sure`) and some of those that were offered at any time (`maybe`).

| Run | Instance | Shows |
|---|---|---|
| `selection` | 2 recipes, 2 filters, 2 requests, recent limit 1 | `TypeOK`, `CookedOnce`, `PollKeepsValidSelection`, `CookedMovesOn`, `EveryRequestIsAnswered` |

Bounds. Two requests are one that holds the lock and one that waits or repeats
it. With two recipes and a limit of 1 (5 in the code) a recipe can be current,
recent or neither. `MaxCooked` is 2: one more than `CookedOnce` allows.
Fairness: asyncio hands a lock to those who wait in turn (strong fairness
of `TakeLock`), and what awaits the recommendations comes back because the
client of Mealie has a timeout (weak fairness of the commits and `Ends`).

## 7. The recipe cache

`RecipeCache` has the answers kept, the tasks registered, the tasks that fetch and
the calls in progress; `generation` and `served` only serve the properties.

| Code (`app/recommendations.py`) | Actions |
|---|---|
| `get_recipe_detail_cached`, a recommendation | `BeginCall` |
| `clear_recipe_detail_cache`, a recommendation that refreshes | `BeginRefresh` |
| `_fetch_cached_detail`, first locked section | `Hit`, `Join`, `Miss` |
| `fetch_recipe_detail` in its task | `Answer` |
| `_fetch_cached_detail`, second locked section | `Resume` |
| time, and Mealie | `Expire`, `Change` |

* Everything runs on one event loop, and the sections under `_recipe_cache_lock`
  await nothing: each is one step.
* `fetch_recipe_detail` turns every failure into an answer, so a task always has
  one. Everyone who waited for it stores it again, and takes the task off if
  it is still the one registered.
* Expiry may come at any time; the semaphore and the sooner expiry of errors
  change how long things take and nothing else.

| Run | Instance | Shows |
|---|---|---|
| `cache` | 1 recipe, 3 calls, 3 tasks, 1 clear, 2 versions in Mealie | `TypeOK`, `SingleFlight`, `RegisteredIsAwaited`, `QuietRefreshReadsMealie`, `EveryCallIsAnswered` |

Bounds. Calls of different recipes meet only in a clear, so one recipe is enough.
Three calls are a fetch begun before the clear, the refresh, and one that joins;
three tasks never run out. Fairness: the event loop runs what is ready, and
requests to Mealie end (weak fairness of each call's next step and each answer).

## 8. The sources

`Sources` has GitHub's commits, the clone of one source (`repo`, `head`,
`fetched` = FETCH_HEAD), the rows of its files, the row of the source, and the
requests in progress.

| Code (`app/github_sources.py`) | Actions |
|---|---|
| `create_github_source`, `sync_github_source`, `sync_due_sources` | `BeginSync`, `BeginDue` |
| `synchronize_source`: clone, or fetch and reset, rev-parse | `FindNoClone`, `BeginClone`, `EndClone`, or `Fetch`, `Reset`; `ReadHead` |
| the rows are read, the directory listed, the files read | `ReadRows`, `List`, `ReadFile` |
| rows added, changed and deactivated, commit | `CommitSync` |
| any error handler | `FailSync` |
| the server stops | `Restart` |

* Nothing keeps two requests from synchronizing one source: handlers are threads
  and share the working tree, FETCH_HEAD and the rows. Each git command and each
  access to the file system is a step of its own.
* A commit writes the attributes that differ from the rows read (`Changed`), of the
  files as of the source itself: two synchronizations that race can leave the commit
  or the error of the other in the source's row (`SourceWritten`). A row inserted
  meanwhile is refused by the unique constraint (`Conflict`).
* A digest stands for the content. The status of a row is left out: the code
  compares it with `imported` (about line 436), which nothing ever stores.
* What the model shows of the code beside its properties: a clone killed at its
  timeout leaves a `.git` without a commit, which later synchronizations take for
  a clone and fail at rev-parse; a source whose synchronization fails stays
  due; a configured path that is gone ends the synchronization before any row
  is deactivated.

| Run | Instance | Shows |
|---|---|---|
| `sources` | 1 file, 2 contents, 2 requests, 2 commits | `TypeOK`, `LoneSyncIsExact`, `IndexFollowsRepository` |

Bounds. Files meet only in the commit and the working tree they share; one file can
be added, changed, removed and added again within two commits and the races of
two requests. Fairness: `run_git` bounds each command and a thread waits for
nobody (weak fairness of a request's next step); nothing is assumed of clients:
`IndexFollowsRepository` says what follows if synchronizations keep succeeding.

## 9. The entities of Mealie

`Entities` has the entities Mealie holds, what each recipe is linked to, and the
requests in progress: imports, which resolve names, and upgrades, which go on to
patch, verify and roll back.

| Code | Actions |
|---|---|
| `resolve_recipe_entities`, `EntityResolver` | `BeginImport`, `ReadCollection`, `Reuse`, `Create`, `CreateRefused`, `CreateLost`, `Recover`, `EndResolution`, `FailResolution` |
| `upgrade_mealie_structure` of `app/import_queue.py` | `BeginUpgrade`, then the resolution, `Patch`, `EndUpgrade`, `RejectUpgrade`, `Rollback` |
| a user of Mealie | `AddByHand` |

* Requests run on one event loop and await every call: those of another may come
  between any two. A resolution reads each collection once and keeps it.
* Mealie is external. As the code expects it, organizers are unique by slug,
  foods and units by name; entities are neither renamed nor deleted.
* `Alike` is how the code compares names: by `normalize_name`, and for foods by
  Mealie's `nameNormalized` too.
* What the error of a refused creation tells is arbitrary (`Hints`): its group, name
  and slug, or less. The read-back skips entities that are listed without the group the
  error names (`Matches`), first under the name the error tells, then under the
  recipe's own (`Recovered`). `Grouped` says which entities are listed with a group.
* `CHANGELOG.md:127` says conflicts recover. What keeps them from it is stated in
  `ConflictsAreRecovered`, and is Mealie's to exclude: an error that names a group
  where the listing names none, and an error without a slug where an organizer
  of another name has the slug.
* What the model shows of the code beside its properties: a food that was matched by
  its `nameNormalized` never passes the verification, which compares names, so that
  the upgrade of its recipe is rolled back each time; a recipe with a tag
  that was recovered by its slug is upgraded again at every request; a failed
  upgrade writes back the recipe as it read it, over what another upgrade has
  written since (`disturbed`).

| Run | Instance | Shows |
|---|---|---|
| `entities` | 3 foods (two differ in case, one in an accent; listed without a group), 2 tags with one slug (listed with one), every hint, a recipe to import, one to upgrade, 2 requests | `TypeOK`, `UpgradeIsKept`, `NoDuplicateCreation`, `ConflictsAreRecovered` |

Bounds. The five names are the ways in which two names can be alike without being
the same. Two requests create the same entity at once, or upgrade one recipe at
once. There is no liveness: a resolution is a bounded number of calls.

## 10. What is proved

Each theorem holds for every value of the constants its module's assumption
allows: any number of requests at once (one, where the table says so), of rows, of
items. What a theorem assumes beyond that stands behind its name, and below is why
the code needs it. The proofs are by an
inductive invariant each: the initial states satisfy it, every step of every
action keeps it, and the properties follow from it. TLC checked the invariants on
the instances above before they were proved.

| Module | Theorem | Property |
|---|---|---|
| `ImportQueueProofs` | `TypeAndInvariant` | `ImportInvariant` |
| | `ImportTypeOK` | `TypeOK` |
| | `ImportsAreExclusive` | `OneItemPerRevision` |
| | `NormalizationInvariantHolds` (`Undisturbed`) | `NormalizationInvariant` |
| | `OneNormalizationPerRevisionHolds` (`Undisturbed`) | the property named |
| `ImportSingleProofs` (one request) | `AloneInvariantHolds` | `AloneInvariant` |
| | `BlockedIsNotImportedHolds`, `ImportedIsInMealieHolds`, `CancelledStaysCancelledHolds` | the property named |
| | `CompletionInvariantHolds` (`NoRevalidation`) | `CompletionInvariant` |
| | `CompletedIsTerminalHolds` (`NoRevalidation`) | the property named |
| | `RecipesInvariantHolds` (`NoRevalidation`, `NoReplyLost`) | `RecipesInvariant` |
| | `NoDuplicateRecipeHolds`, `EveryRecipeTrackedHolds` (`NoRevalidation`, `NoReplyLost`) | the property named |
| | `ImportsAreIdempotentHolds` (`NoRevalidation`, `NoReplyLost`) | `ImportsAreIdempotent` |
| `CookingSessionsProofs` | `SessionsInvariantHolds`, `SessionsTypeOK` | `SessionsInvariant`, `TypeOK` |
| | `LockProtectsHolds`, `FinishIsAtomicHolds`, `NoTimerOutlivesItsSessionHolds`, `EndedStaysEndedHolds` | the property named |
| `PantryProofs` | `PantryInvariantHolds`, `PantryTypeOK` | `PantryInvariant`, `TypeOK` |
| | `ReviewMatchesLedgerHolds`, `LedgerExplainsStockHolds` | the property named |
| | `ImplementsLedgerHolds` | `ImplementsLedger` |
| `SelectionProofs` | `SelectionInvariantHolds`, `SelectionTypeOK` | `SelectionInvariant`, `TypeOK` |
| | `CookedOnceHolds`, `CookedMovesOnHolds`, `PollKeepsValidSelectionHolds` | the property named |
| `RecipeCacheProofs` | `CacheInvariantHolds`, `CacheTypeOK` | `CacheInvariant`, `TypeOK` |
| | `SingleFlightHolds`, `RegisteredIsAwaitedHolds`, `QuietRefreshHolds` | the first two by name, `QuietRefreshReadsMealie` |
| `SourcesProofs` | `SourcesInvariantHolds`, `SourcesTypeOK` | `SourcesInvariant`, `TypeOK` |
| | `LoneSyncIsExactHolds` | `LoneSyncIsExact` |
| `EntitiesProofs` | `EntitiesInvariantHolds`, `EntitiesTypeOK` | `EntitiesInvariant`, `TypeOK` |
| | `UpgradeIsKeptHolds`, `NoDuplicateCreationHolds`, `ConflictsAreRecoveredHolds` | the property named |

### The import queue

`OneItemPerRevision` is not inductive: a commit step may write `importing` or
`imported` from what its session saw long ago. The invariant adds what every request
in flight relies on (`HasTarget`: its rows exist, and past the claim its item has a
record), that an item being imported or imported has a record
(`ImportedHasRecord`), and that no two records have one key
(`OneRecordPerRevision`, which the unique index keeps). From the last two
exclusion follows: both items would have a record. Most steps never take away a
record or a job and never write those two statuses; `SafeStep` says so once,
`SafeStepKeepsInvariant` shows that such steps keep the invariant, and the proof
of a step is that it is safe, with the claim, the settlement and the
reconciliation argued by themselves.

`OneNormalizationPerRevision` holds for any number of overlapping requests, automatic
imports, reviews, crashes and faults of Mealie among them, as long as nothing takes
an item out of the hands of the handler that normalizes it (`Undisturbed`): no client
cancels a job or retries an item, no infrastructure error requeues one, and the source
stays as it is, as in the run `import_race`. Without any one of these TLC finds two
normalizations of one revision at once: a retry takes an item from its handler by
design; a source that changes and changes back, a rejection that meets a requeue, and
a recount from stale rows that revives a cancelled job let a second item, or the same
one again, be claimed while the first handler still awaits the model. The proof
follows the event loop: a processing request holds it from its look-up of other active
items to its claim (`OneHoldsTheLoop`), and whoever runs meanwhile works on items that
have left the queue (`Works`, `Settles`); so the item that is claimed is queued, no
other of its recipe is being normalized (`OneProcessing`), and a second handler
cannot await the model for it (`OneNormalizesEach`).

Seven properties hold only as long as requests do not overlap. Their theorems assume
`OneAtATime`, one request slot, as in the runs `everything` and `faults`. Three of them
(`BlockedIsNotImported`, `ImportedIsInMealie`, `CancelledStaysCancelled`) assume nothing else: any jobs,
recipes and revisions, every operation, every fault, a crash between any two steps,
jobs created and sources changed while the request waits. `UpToDate` is the heart: what
the request has read still holds when it writes; an automatic import has approved an
item, or found it approved, before it imports it. So the ORM writes exactly what the
handler meant (`FlushAlone`, `WriteJobAlone`), an approval rests on the verdict that is
stored, and a slug Mealie has just given out names no earlier import
(`ImportStepAlone`), so that undoing an import takes away no other one's recipe.

`CompletedIsTerminal` also assumes `NoRevalidation`: a revalidation takes an item in any
status and, when its source changed, does not recount the job, which leaves it
completed with an item that waits. `CompletionInvariant` adds what a request `Knows`
of the items it is about to change: they are those of its job, and in a status its
operation starts from. Several handlers count an item before its new status is flushed.
Where such a count finds only terminal statuses, the item had one, and by `Knows` that
is possible only for a reconciliation, which writes a terminal one
(`EarlierCountKeepsCompleted`); the others count what they write
(`RecountKeepsCompleted`). `Gentle` is proved beside it, step by step: no item that has
a recipe, or may have one, loses its status but by the end of an undone import.

`NoDuplicateRecipe` and `EveryRecipeTracked` rest on that and assume `NoReplyLost`
besides: a recipe whose slug never arrived cannot be undone, and the next import of the
item makes a second one (a known divergence, section 11; so is the second import after
a revalidation). Every other fault is allowed: failed creations, patches and read-backs,
a clean-up that fails, a crash between any two steps, sources that change.
`RecipesInvariant` says that the item of a recipe has a record in a state that counts
as existing (`RecipeKnown`), that such an item is in a status from which no import
starts (`RecordSettled`), and that an import in flight knows its recipe, or that there
is none yet (`Handles`). With `OneRecordPerRevision` a creation then finds no recipe of
its revision (`CreateBlankAccounted`), an import never restarts the record of an item
that has a recipe (`ClaimImportAccounted`), and a reconciliation can write its record
only for the very item the recipe was created for (`ReconcileAccounted`).
With two overlapping requests and a crash TLC finds a duplicate, so `OneAtATime` cannot
go.

`ImportsAreIdempotentHolds` is the refinement of `IdempotentImport`, under the same
assumptions and from the same invariants. `RecipeStays` says when a recipe stays what
it is: Mealie leaves it alone, and the revision of its item and what its record says of it
do too; a step where that holds of every recipe is a stutter (`AllStay`, `RecordsStay`),
and one where it holds of every recipe but one is an abstract step of that one
(`OneAdvances`). A claim writes a record anew, but by `RecordSettled` not that of an
imported recipe, and by `Handles` the recipes an import deletes or patches are its own
(`DeleteImplements`, `PatchImplements`). What carries weight is `CreateImplements`, that
no recipe of the content is there yet, and `SettleImplements` and `ReconcileImplements`,
that what is recorded as imported is a managed recipe of that item.

### The cooking sessions

The invariant is the conjunction of `TypeOK`, `LockProtects`, `FinishIsAtomic`
and `NoTimerOutlivesItsSession`, and needs all four. A finish that commits after
its await ends a session that was active when it began: without `LockProtects`
it could complete one that was cancelled since, which breaks `FinishIsAtomic` and
`EndedStaysEnded`. `LockProtects` in turn survives the end of a session because no
other request of its owner is under way (`OthersUnderWay`). Steps that change a
session are `StartKeepsInvariant` and `EndKeepsInvariant`, those that change
timers only are `TimersKeepInvariant`, and a request that only returns is
`ReturnKeepsInvariant`.

### The pantry

What a handler writes rests on what it read in an earlier step. `SeenIsCurrent` and
`ReviewIsCurrent` say that both still hold of the first item and of the review,
unless `raced` has them, and `Noticed` that two requests which handle something in
common are in `raced`: so a step that changes an item or a review disturbs nobody
unnoticed (`StockChanges`). The ledger's part is `NothingTakenYet`,
`NotTakenAgain` and `WithdrawnOnce`: a review that is open has taken nothing, and
one that is confirmed takes no item twice, so that `CommitUndo`, which puts back
what the last withdrawal of an item found, puts back what the only one found.
`UndoOfConfirmed` keeps an undo from marking a review that is open again, and is
proved beside the invariant because it needs only the types.

`ImplementsLedgerHolds` maps every step to one of `StockLedger` or to none. A request
that meets another on an item or a review is a `Disturb` (`DisturbStep`), a write of
inventory.py or the shopping list a `Set` (`SetStep`, `OverwriteIsSet`), a new,
ignored or dismissed review a `Pass` (`PassStep`), and the rest changes nothing the
ledger sees (`KeepStep`). What carries weight is `CommitConfirmIsWithdraw` and
`CommitUndoIsGiveBack`: the amounts were read in an earlier step, and `SeenIsCurrent`
and `ReviewIsCurrent` say they still hold; an undo finds its amounts in the ledger
rows, and `WithdrawnOnce` says there is one for each item. Deleting an item takes its
rows with it, and the ledger forgets what was taken of it (`ForgetTaken`).

### The selection

`OneHolder` is the owner's lock: of the requests past it there is one. From it follows that
a mark-cooked which awaits its recommendations finds the selection, and the
absence of a recent row, as it left them, which makes `CookedOnce` inductive;
`CookedMovesOn` and `PollKeepsValidSelection` are properties of single steps that
need the same.

### The recipe cache

`SingleFlight` needs that a running fetch which began after the last clear is the one
registered for its recipe, so that a call which finds none registered may begin
one. `RegisteredIsAwaited` needs that a call which waits has a task of its own
recipe. `QuietRefreshReadsMealie` needs a bound on the past: in a quiet refresh
every answer kept and every fetch begun since is at least as new as the version
it noted.

### The sources

`LoneSyncIsExact` says what a synchronization leaves that ran alone: `AloneIsAlone`
(no other request is in progress), `AloneSeesAll` (what it read of the files is what
the commit checked out has, the rest is still to be read, and the rows and the source
are as it read them), `RowsStay` (a path that has a row keeps one) and `CommitIsKnown` (the
commit it writes exists). Whatever raced before it only shaped the rows it
reads, and `Written` corrects each of them.

### The entities

`CalmCache` (a request beside which nobody created anything remembers all there is of
the collections it read) gives `NoDuplicateCreation`, `ConflictsStand` (what made
Mealie refuse is still there) gives `ConflictsAreRecovered`: what was in the way is
in the collection read again, so if nothing matches, the filter by group took it
out (`GivenUpUnmatched`) or its name is another (`UnmatchedIsUnlike`). `UpgradeIsKept` needs
that a request past its resolution has found an entity for each name
(`Resolved`), that one upgrade of an undisturbed recipe runs at a time
(`UpgradesAlone`), and that what it would roll back to is what was reported
(`KeptMeanwhile`).

### What is only model-checked

* Liveness (`ImportEnds`, `NormalizationEnds`, `EveryDueTimerEnds`,
  `EveryRequestIsAnswered`, `EveryCallIsAnswered`, `IndexFollowsRepository`):
  fairness and `ENABLED` are out of the prover's reach, and so is induction over
  data, on which no theorem here relies.
* `OneNormalizationPerRevision` where a job was cancelled in between: the property
  excepts it, the theorem leaves cancellation out.

No module declares a `RECURSIVE` operator.

## 11. Known divergences

What the repository says of itself and the code does not do. The modules define each
property; a configuration that lists it as its only `INVARIANT`, with the
constants below, makes TLC print the shortest history. One has a run of its own,
`double_confirm`, and is the finding of `PROJECT.json`.

| Property | The repository says | The code | Instance |
|---|---|---|---|
| `Pantry!ItemAdjustedOncePerReview` | `app/consumption.py:392`: "A pantry item cannot be adjusted twice in one review" | `confirm_review` reads `pending` (342) and claims nothing before it commits: two confirmations that overlap withdraw twice | run `double_confirm` |
| `ImportQueue!NotStuckProcessing` | comment at `app/import_queue.py:2116`: without the flush "the job may remain stuck at processing" | the two error branches recount without it (2054), and the job stays `processing` | 1 job, 1 recipe, 1 request; `Faults` `{"llm"}` |
| `ImportQueue!QueuedCanRun` | `docs/providers.md:33`: batch processing "can stop and requeue instead of damaging individual item state" | the requeue recounts before its flush (2196): the job becomes `review` with a queued item that nothing processes | 1 job, 1 recipe, 1 request; `Faults` `{"llm_infra"}` |
| `ImportQueue!ImportedJobIsCompleted` | `tests/test_reconcile_mealie_import.py:203`: the job of a reconciled item is completed | `reconcile_import` recounts before its flush (221) | 1 job, 1 recipe, 1 request; `Faults` `{"mealie"}` |
| `ImportQueue!NoDuplicateRecipe` | `README.md:22`: "Idempotent Mealie import" | revalidate takes an imported item (5261), which can then be approved and imported again | 1 job, 1 recipe, 1 request; `Ops` with `revalidate`; no faults |
| `ImportQueue!EveryRecipeTracked` | `app/import_queue.py:3617`: a recipe that may exist is kept on record as orphaned | a POST whose answer is lost left no slug to record (3591) | 1 job, 1 recipe, 1 request; `Faults` `{"lost_reply"}` |
| `CookingSessions!TimerLimit` | `CHANGELOG.md:63`: "an eight-timer safety limit" | a read in a thread writes `finished` over a cancellation (229), after another timer took the place | 1 owner, 1 session, 3 timers, 2 requests, `MaxTimers` 2 |
| `RecipeCache!RefreshReadsMealie` | `docs/home-assistant.md:65`: "explicit cache refresh reads Mealie" | a fetch begun before the clear stores its answer after it (247), for a refresh beside waiting calls | as the run `cache` |

In the models of section 3 the runs that check `NoDuplicateRecipe` and
`EveryRecipeTracked` leave out `revalidate` and `lost_reply`.

## 12. Not modelled

* Computations without state: the quality gate and the semantics (any verdict is
  possible in `ImportQueue`), names, aliases and units, the scoring of
  recommendations, AI recipes, payloads and read-back comparison of the Mealie
  writer, the scaling of amounts.
* External calls by themselves: the model providers (the queue lets them fail with
  or without an infrastructure error).
* The duplicate-resolution command (`resolve_duplicate_import.py:112-132`): it acts on
  two items of one job whose source recipes are the same, by path or by
  normalized path and content. Two items of one job have different source recipes
  (`uq_import_job_source_recipe`), these have different paths
  (`uq_source_recipe_path`), and the queue normalizes each with its own path
  (`import_queue.py:2565`). An action for it could never be taken; the command can
  only serve rows that an older version left.
* Lists, previews, reports, authentication, start-up, migrations, request schemas
  and the browser pages, which only call the API: the models allow every order
  of calls the API accepts.

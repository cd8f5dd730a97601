----------------------------- MODULE RecipeCache -----------------------------
(***************************************************************************)
(* The cache of recipe details of app/recommendations.py, which the        *)
(* recommendations, the cooking sessions and the shopping list share.      *)
(*                                                                         *)
(* Everything runs on one event loop, and the sections under               *)
(* _recipe_cache_lock await nothing, so that each of them is one step.  A  *)
(* call that misses starts a fetch in a task of its own; the calls that    *)
(* come while it runs await the same task, and each of them stores the     *)
(* answer when it resumes.  A clear forgets answers and tasks, and stops   *)
(* neither the fetches that run nor those who wait for them.               *)
(*                                                                         *)
(* A recommendation makes one call for each recipe; a call stands for one  *)
(* of them.  Expiry may come at any time; that errors expire sooner, and   *)
(* the semaphore that bounds how many fetches run at once, change only how *)
(* long things take.                                                       *)
(***************************************************************************)
EXTENDS Naturals, FiniteSets

CONSTANTS
  Slugs,       \* recipes of Mealie
  Calls,       \* calls that may be in progress at once
  Tasks,       \* fetches that may be in progress at once, numbered
  MaxVersion,  \* bound on how often Mealie's recipes change
  MaxClears,   \* bound on how often the cache is cleared
  Error,       \* the answer of a fetch that failed
  None

ASSUME CacheAssumption ==
  /\ MaxVersion \in Nat
  /\ MaxClears \in Nat
  /\ Tasks \subseteq Nat
  /\ None \notin Slugs \cup Tasks
  /\ None # Error
  /\ {None, Error} \cap Nat = {}

VARIABLES
  version,     \* Mealie's recipes: how often each was changed
  cache,       \* _recipe_cache: the answer kept of each recipe
  inflight,    \* _recipe_inflight: the task registered for each recipe
  task,        \* the tasks that fetch
  call,        \* the calls in progress
  generation,  \* how often the cache was cleared (for checking)
  served       \* the last refreshing call answered (for checking)

vars == <<version, cache, inflight, task, call, generation, served>>

Answers == (0..MaxVersion) \cup {Error}

(* A fetch: of what, begun after how many clears, and its answer if any. *)
Task == [slug: Slugs, began: 0..MaxClears, answer: Answers \cup {None}]
NoTask == [slug |-> None, began |-> 0, answer |-> None]

(***************************************************************************)
(* A call is about to clear the cache and fetch the list of recipes (it    *)
(* refreshes), to look for its recipe, or waits for a task.  since is the  *)
(* version of its recipe when it cleared the cache, and quiet whether no   *)
(* other call was waiting then.                                            *)
(***************************************************************************)
Call == [pc: {"lookup", "wait"}, slug: Slugs, task: Tasks \cup {None},
         since: (0..MaxVersion) \cup {None}, quiet: BOOLEAN]
NoCall == [pc |-> "idle", slug |-> None, task |-> None, since |-> None, quiet |-> TRUE]

(* Whether the answer was as new as the refresh, and asked for in quiet. *)
Served == [current: BOOLEAN, quiet: BOOLEAN]

TypeOK ==
  /\ version \in [Slugs -> 0..MaxVersion]
  /\ cache \in [Slugs -> Answers \cup {None}]
  /\ inflight \in [Slugs -> Tasks \cup {None}]
  /\ task \in [Tasks -> Task \cup {NoTask}]
  /\ call \in [Calls -> Call \cup {NoCall}]
  /\ generation \in 0..MaxClears
  /\ served \in Served \cup {None}

Init ==
  /\ version = [s \in Slugs |-> 0]
  /\ cache = [s \in Slugs |-> None]
  /\ inflight = [s \in Slugs |-> None]
  /\ task = [t \in Tasks |-> NoTask]
  /\ call = [c \in Calls |-> NoCall]
  /\ generation = 0
  /\ served = None

-----------------------------------------------------------------------------
(* Mealie, and time *)

Change(s) ==
  /\ version[s] < MaxVersion
  /\ version' = [version EXCEPT ![s] = @ + 1]
  /\ UNCHANGED <<cache, inflight, task, call, generation, served>>

(* An entry expires; it is dropped when it is next looked for or counted. *)
Expire(s) ==
  /\ cache[s] # None
  /\ cache' = [cache EXCEPT ![s] = None]
  /\ UNCHANGED <<version, inflight, task, call, generation, served>>

-----------------------------------------------------------------------------
(* Calls *)

Waiters(t) == {c \in Calls : call[c].task = t}

(* The next task to begin. *)
Fresh(t) == task[t] = NoTask /\ \A u \in Tasks : task[u] = NoTask => t <= u

(* get_recipe_detail_cached, or a recommendation that does not refresh *)
BeginCall(c, s) ==
  /\ call[c] = NoCall
  /\ call' = [call EXCEPT ![c] = [pc |-> "lookup", slug |-> s, task |-> None,
                                  since |-> None, quiet |-> TRUE]]
  /\ UNCHANGED <<version, cache, inflight, task, generation, served>>

(* Wrong variant: answers are kept. *)
KeptAnswers == cache' = cache

(* clear_recipe_detail_cache, first thing a recommendation that refreshes does. *)
ClearedAnswers == cache' = [s \in Slugs |-> None]

BeginRefresh(c, s) ==
  /\ call[c] = NoCall
  /\ generation < MaxClears
  /\ ClearedAnswers
  /\ inflight' = [r \in Slugs |-> None]
  /\ generation' = generation + 1
  /\ call' = [call EXCEPT ![c] =
                [pc |-> "lookup", slug |-> s, task |-> None, since |-> version[s],
                 quiet |-> \A d \in Calls : call[d].pc # "wait"]]
  /\ UNCHANGED <<version, task, served>>

Serve(c, answer) ==
  /\ served' = IF call[c].since = None THEN served
               ELSE [current |-> answer = Error \/ answer >= call[c].since,
                     quiet |-> call[c].quiet]
  /\ call' = [call EXCEPT ![c] = NoCall]

AwaitTask(c, t) ==
  call' = [call EXCEPT ![c] = [pc |-> "wait", slug |-> call[c].slug, task |-> t,
                               since |-> call[c].since, quiet |-> call[c].quiet]]

(* The first locked section of _fetch_cached_detail: an answer is kept, *)
Hit(c) ==
  /\ call[c].pc = "lookup"
  /\ cache[call[c].slug] # None
  /\ Serve(c, cache[call[c].slug])
  /\ UNCHANGED <<version, cache, inflight, task, generation>>

(* or a fetch is registered, *)
Join(c) ==
  /\ call[c].pc = "lookup"
  /\ cache[call[c].slug] = None
  /\ inflight[call[c].slug] # None
  /\ AwaitTask(c, inflight[call[c].slug])
  /\ UNCHANGED <<version, cache, inflight, task, generation, served>>

(* Wrong variant: a fetch that runs is not joined. *)
UnregisteredHere(s) == cache[s] = None

Unregistered(s) == cache[s] = None /\ inflight[s] = None

(* or one is begun. *)
Miss(c, t) ==
  /\ call[c].pc = "lookup"
  /\ Unregistered(call[c].slug)
  /\ Fresh(t)
  /\ task' = [task EXCEPT ![t] = [slug |-> call[c].slug, began |-> generation, answer |-> None]]
  /\ inflight' = [inflight EXCEPT ![call[c].slug] = t]
  /\ AwaitTask(c, t)
  /\ UNCHANGED <<version, cache, generation, served>>

(* fetch_recipe_detail: every failure is an answer, and none an exception. *)
Answer(t) ==
  /\ task[t] # NoTask
  /\ task[t].answer = None
  /\ \E a \in {version[task[t].slug], Error} :
       task' = [task EXCEPT ![t] = [slug |-> @.slug, began |-> @.began, answer |-> a]]
  /\ UNCHANGED <<version, cache, inflight, call, generation, served>>

(* Wrong variants: an error is left where the task was; a task is not taken off. *)
DeregisterLeavingError(s, t) ==
  inflight' = [inflight EXCEPT ![s] = IF task[t].answer = Error THEN Error ELSE None]
DeregisterNone(s, t) == inflight' = inflight

Deregister(s, t) ==
  inflight' = IF inflight[s] = t THEN [inflight EXCEPT ![s] = None] ELSE inflight

(* Wrong variant: the first who has the answer drops the task. *)
ReleaseAtOnce(c, t) == task' = [task EXCEPT ![t] = NoTask]

(* A task that nobody awaits and that is not registered is no more. *)
Release(c, t) ==
  task' = IF Waiters(t) = {c} /\ \A s \in Slugs : inflight'[s] # t
          THEN [task EXCEPT ![t] = NoTask] ELSE task

(* The second locked section, for each of those who waited. *)
Resume(c) ==
  LET s == call[c].slug
      t == call[c].task IN
  /\ call[c].pc = "wait"
  /\ task[t].answer # None
  /\ cache' = [cache EXCEPT ![s] = task[t].answer]
  /\ Deregister(s, t)
  /\ Serve(c, task[t].answer)
  /\ Release(c, t)
  /\ UNCHANGED <<version, generation>>

-----------------------------------------------------------------------------
(* What one call goes on to do when it may. *)
CallStep(c) ==
  Hit(c) \/ Join(c) \/ (\E t \in Tasks : Miss(c, t)) \/ Resume(c)

Next ==
  \/ \E s \in Slugs : Change(s) \/ Expire(s)
  \/ \E c \in Calls, s \in Slugs : BeginCall(c, s) \/ BeginRefresh(c, s)
  \/ \E c \in Calls : CallStep(c)
  \/ \E t \in Tasks : Answer(t)

Spec == Init /\ [][Next]_vars

(***************************************************************************)
(* The event loop runs every task that is ready, and every request to      *)
(* Mealie ends, by its timeout at the latest.                              *)
(***************************************************************************)
Fairness ==
  /\ \A c \in Calls : WF_vars(CallStep(c))
  /\ \A t \in Tasks : WF_vars(Answer(t))

FairSpec == Spec /\ Fairness

-----------------------------------------------------------------------------
(* Properties *)

Running(t) == task[t] # NoTask /\ task[t].answer = None

(***************************************************************************)
(* Two fetches of one recipe run at once only when the cache was cleared   *)
(* between their beginnings.                                               *)
(***************************************************************************)
SingleFlight ==
  \A t, u \in Tasks :
    Running(t) /\ Running(u) /\ t # u /\ task[t].slug = task[u].slug
      => task[t].began # task[u].began

(***************************************************************************)
(* A task is registered only while somebody waits for it, of the recipe it *)
(* fetches: whoever resumes takes it off, so that no answer is handed out  *)
(* later, past its time, by way of a task that ended long ago.             *)
(***************************************************************************)
RegisteredIsAwaited ==
  \A s \in Slugs : inflight[s] # None =>
    /\ \E c \in Calls : call[c].pc = "wait" /\ call[c].task = inflight[s]
    /\ task[inflight[s]].slug = s

(***************************************************************************)
(* A call that refreshes while no other call waits gets what Mealie held   *)
(* when it cleared the cache, or holds by now.                             *)
(***************************************************************************)
QuietRefreshReadsMealie == served # None /\ served.quiet => served.current

(* Every call is answered, however many others wait, clear or fail. *)
EveryCallIsAnswered == \A c \in Calls : call[c].pc = "lookup" ~> call[c].pc = "idle"

(***************************************************************************)
(* docs/home-assistant.md:65: "first load or explicit cache refresh reads  *)
(* Mealie": no refresh is answered with what was fetched before it.  The   *)
(* code does not keep this: README, "Known divergences".                   *)
(***************************************************************************)
RefreshReadsMealie == served # None => served.current
=============================================================================

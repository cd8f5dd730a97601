------------------------------ MODULE Selection ------------------------------
(***************************************************************************)
(* The recipe that Home Assistant shows, app/home_assistant.py, and the    *)
(* cooking history it records, app/cooking_history.py.                     *)
(*                                                                         *)
(* The handlers are async.  Each awaits the recommendations, holding the   *)
(* lock of its owner, and then reads, decides and commits in one step;     *)
(* next and mark-cooked do so twice, for they answer with a state that is  *)
(* computed anew.  Refresh alone reads the selection before it waits for   *)
(* the lock, and the session's identity map keeps what it read: it decides *)
(* on that, and writes only the attributes that differ from it.            *)
(*                                                                         *)
(* One owner is modelled: owners share nothing but SQLite's write lock,    *)
(* for which see CookingSessions.                                          *)
(***************************************************************************)
EXTENDS Naturals, Sequences, FiniteSets

CONSTANTS
  Recipes,      \* recipes of Mealie
  Filters,      \* modes and hard filters a client may ask for
  Requests,     \* requests that may be in progress at once
  RecentLimit,  \* how many selections count as recent: 5 in the code
  MaxCooked,    \* bound on the history rows of one recipe in five minutes
  None

ASSUME SelectionAssumption ==
  /\ RecentLimit \in Nat
  /\ MaxCooked \in Nat \ {0}
  /\ None \notin Recipes \cup Filters

VARIABLES
  offer,      \* what build_recommendations lists under each filter
  selection,  \* the row of home_assistant_selections
  recent,     \* home_assistant_selection_history, newest first
  cooked,     \* cooking_history: rows of the last five minutes by mark-cooked
  req         \* the requests in progress

vars == <<offer, selection, recent, cooked, req>>

Row == [slug: Recipes \cup {None}, filters: Filters \cup {None}]

(* A row without filters does not exist yet. *)
NoRow == [slug |-> None, filters |-> None]

(***************************************************************************)
(* A request waits for the lock (queued), or holds it and awaits the       *)
(* recommendations: to choose the next recipe, to choose it after one was  *)
(* cooked, or to answer with the state.  sure is what has been offered all *)
(* the while since it asked, maybe what was at some moment, row the        *)
(* selection it decides on when that is not read again, and fresh whether  *)
(* it has put a row into the history, yet to be committed.                 *)
(***************************************************************************)
Request == [pc: {"queued", "next", "mark", "state"}, op: {"poll", "next", "mark", "refresh"},
            filters: Filters, sure: SUBSET Recipes, maybe: SUBSET Recipes, row: Row,
            fresh: BOOLEAN]
Idle == [pc |-> "idle", op |-> "idle", filters |-> None, sure |-> {}, maybe |-> {},
         row |-> NoRow, fresh |-> FALSE]

TypeOK ==
  /\ offer \in [Filters -> SUBSET Recipes]
  /\ selection \in Row
  /\ recent \in Seq(Recipes) /\ Len(recent) <= RecentLimit
  /\ cooked \in [Recipes -> 0..MaxCooked]
  /\ req \in [Requests -> Request \cup {Idle}]

Init ==
  /\ offer \in [Filters -> SUBSET Recipes]
  /\ selection = NoRow
  /\ recent = <<>>
  /\ cooked = [r \in Recipes |-> 0]
  /\ req = [q \in Requests |-> Idle]

-----------------------------------------------------------------------------
(* Surroundings *)

Awaiting(q) == req[q].pc \in {"next", "mark", "state"}

(* The pantry changes, or a recipe in Mealie, while requests await the list. *)
Reoffer(f, r) ==
  /\ offer' = [offer EXCEPT ![f] = IF r \in @ THEN @ \ {r} ELSE @ \cup {r}]
  /\ req' = [q \in Requests |->
               IF Awaiting(q) /\ req[q].filters = f
               THEN [req[q] EXCEPT !.sure = @ \ {r}, !.maybe = @ \cup {r}]
               ELSE req[q]]
  /\ UNCHANGED <<selection, recent, cooked>>

(* Five minutes pass. *)
WindowPasses ==
  /\ \E r \in Recipes : cooked[r] > 0
  /\ cooked' = [r \in Recipes |-> 0]
  /\ UNCHANGED <<offer, selection, recent, req>>

-----------------------------------------------------------------------------
(* Requests *)

(* Wrong variant: the lock is not held across awaits. *)
LockFreeAnyway == TRUE

LockFree == \A q \in Requests : req[q].pc \in {"idle", "queued"}

Asking(q, pc, op, f, row, fresh) ==
  LET listed == IF pc = "queued" THEN {} ELSE offer[f] IN
  req' = [req EXCEPT ![q] = [pc |-> pc, op |-> op, filters |-> f, sure |-> listed,
                             maybe |-> listed, row |-> row, fresh |-> fresh]]

Ask(q, pc, op, f, row) == Asking(q, pc, op, f, row, FALSE)

Return(q) == req' = [req EXCEPT ![q] = Idle]

(* home_assistant_state *)
BeginPoll(q, f) ==
  /\ req[q] = Idle
  /\ LockFree
  /\ Ask(q, "state", "poll", f, NoRow)
  /\ UNCHANGED <<offer, selection, recent, cooked>>

(* refresh_home_assistant_state: the selection is read, then the lock awaited. *)
BeginRefresh(q) ==
  /\ req[q] = Idle
  /\ \E f \in IF selection.filters = None THEN Filters ELSE {selection.filters} :
       Ask(q, "queued", "refresh", f, selection)
  /\ UNCHANGED <<offer, selection, recent, cooked>>

TakeLock(q) ==
  /\ req[q].pc = "queued"
  /\ LockFree
  /\ Ask(q, "state", "refresh", req[q].filters, req[q].row)
  /\ UNCHANGED <<offer, selection, recent, cooked>>

(* next_selection *)
BeginNext(q, f) ==
  /\ req[q] = Idle
  /\ LockFree
  /\ Ask(q, "next", "next", f, NoRow)
  /\ UNCHANGED <<offer, selection, recent, cooked>>

(* What the recommendations list: each recipe is read some time since they *)
(* were asked for.                                                         *)
Lists(q) == {C \in SUBSET req[q].maybe : req[q].sure \subseteq C}

Recent == {recent[k] : k \in DOMAIN recent}

(* _choose_next: not the current recipe nor a recent one, if it can be. *)
Choices(C, current) ==
  LET others == C \ {current} IN
  IF others \ Recent # {} THEN others \ Recent
  ELSE IF others # {} THEN others ELSE C

(* Wrong variant: the history is read without its limit. *)
NewestUntrimmed(r) == <<r>> \o recent

(* The rows that _recent_selection_slugs reads after r was selected. *)
Newest(r) ==
  SubSeq(<<r>> \o recent, 1, IF Len(recent) < RecentLimit THEN Len(recent) + 1 ELSE RecentLimit)

(* _save_selection: attributes that equal those of the row read stay as they are. *)
Save(r, f, row) ==
  /\ selection' = [slug |-> IF r # row.slug THEN r ELSE selection.slug,
                   filters |-> IF f # row.filters THEN f ELSE selection.filters]
  /\ recent' = IF r = None THEN recent ELSE Newest(r)

(* select_next_for_owner commits, and the state is asked for. *)
CommitNext(q) ==
  /\ req[q].pc = "next"
  /\ \E C \in Lists(q) : \E r \in Choices(C, selection.slug) :
       Save(r, req[q].filters, selection)
  /\ Ask(q, "state", "next", req[q].filters, NoRow)
  /\ UNCHANGED <<offer, cooked>>

(***************************************************************************)
(* record_cooked_recipe: a row of the last five minutes is taken for this  *)
(* one, else a row is flushed.                                             *)
(***************************************************************************)
Fresh(r) == cooked[r] = 0

Record(r, fresh) ==
  cooked' = [cooked EXCEPT ![r] = IF fresh /\ @ < MaxCooked THEN @ + 1 ELSE @]

(* mark_selection_cooked of the recipe that is selected, without a next one, *)
MarkOnly(q, r) ==
  /\ req[q] = Idle
  /\ LockFree
  /\ selection.slug = r
  /\ Record(r, Fresh(r))
  /\ Ask(q, "state", "mark", selection.filters, NoRow)
  /\ UNCHANGED <<offer, selection, recent>>

(* or with one: the history row awaits its commit with the recommendations. *)
BeginMark(q, r) ==
  /\ req[q] = Idle
  /\ LockFree
  /\ selection.slug = r
  /\ Asking(q, "mark", "mark", selection.filters, selection, Fresh(r))
  /\ UNCHANGED <<offer, selection, recent, cooked>>

CommitMark(q) ==
  /\ req[q].pc = "mark"
  /\ \E C \in Lists(q) : \E r \in Choices(C, req[q].row.slug) :
       Save(r, req[q].filters, req[q].row)
  /\ Record(req[q].row.slug, req[q].fresh)
  /\ Ask(q, "state", "mark", req[q].filters, NoRow)
  /\ UNCHANGED offer

(* The row that _state decides on. *)
Decided(q) == IF req[q].op = "refresh" /\ req[q].row # NoRow THEN req[q].row ELSE selection

(* Wrong variant: a recipe selected of late is not kept, as if next were asked for. *)
KeepsUnlessRecent(row, f, C) == row.filters = f /\ row.slug \in C \ Recent

Keeps(row, f, C) == row.filters = f /\ row.slug \in C

(* _state: the selection is kept, replaced by a candidate, or cleared. *)
FinishState(q) ==
  /\ req[q].pc = "state"
  /\ \E C \in Lists(q) :
       LET row == Decided(q)
           f == req[q].filters IN
       \/ /\ Keeps(row, f, C) \/ (C = {} /\ row.slug = None)
          /\ UNCHANGED <<selection, recent>>
       \/ /\ ~Keeps(row, f, C)
          /\ \E r \in C : Save(r, f, row)
       \/ /\ ~Keeps(row, f, C)
          /\ C = {}
          /\ row.slug # None
          /\ Save(None, f, row)
  /\ Return(q)
  /\ UNCHANGED <<offer, cooked>>

(* Wrong variant: a request that fails keeps the lock. *)
FailLocked(q) ==
  /\ Awaiting(q)
  /\ UNCHANGED vars

(* No candidate, or Mealie does not answer: nothing flushed is kept. *)
Fail(q) ==
  /\ Awaiting(q)
  /\ Return(q)
  /\ UNCHANGED <<offer, selection, recent, cooked>>

-----------------------------------------------------------------------------
Ends(q) == FinishState(q) \/ Fail(q)

Next ==
  \/ WindowPasses
  \/ \E f \in Filters, r \in Recipes : Reoffer(f, r)
  \/ \E q \in Requests :
       \/ \E f \in Filters : BeginPoll(q, f) \/ BeginNext(q, f)
       \/ \E r \in Recipes : MarkOnly(q, r) \/ BeginMark(q, r)
       \/ BeginRefresh(q)
       \/ TakeLock(q)
       \/ CommitNext(q)
       \/ CommitMark(q)
       \/ FinishState(q)
       \/ Fail(q)

Spec == Init /\ [][Next]_vars

(***************************************************************************)
(* asyncio runs what is ready and hands a lock to those who wait in turn,  *)
(* and recommendations end, by Mealie's timeout at the latest.             *)
(***************************************************************************)
Fairness ==
  \A q \in Requests :
    /\ SF_vars(TakeLock(q))
    /\ WF_vars(CommitNext(q) \/ CommitMark(q) \/ Ends(q))

FairSpec == Spec /\ Fairness

-----------------------------------------------------------------------------
(* Properties *)

(* The selection is one that its own filters have offered all the while. *)
ValidFor(q) ==
  /\ selection.filters = req[q].filters
  /\ selection.slug \in req[q].sure

Finishes(q) == req[q].pc = "state" /\ req'[q].pc = "idle"

(***************************************************************************)
(* docs/home-assistant.md:69: a poll, and the answer to next and to        *)
(* mark-cooked, never changes a selection that is valid.                   *)
(***************************************************************************)
PollKeepsValidSelection ==
  [][\A q \in Requests :
       Finishes(q) /\ req[q].op # "refresh" /\ ValidFor(q) => selection' = selection]_vars

(***************************************************************************)
(* What is recorded as cooked is the recipe that is selected at that       *)
(* moment, though it was checked before the recommendations were awaited;  *)
(* and a mark-cooked never moves the selection on from a recipe without    *)
(* having recorded it, or found it recorded.                               *)
(***************************************************************************)
CookedMovesOn ==
  [][/\ \A r \in Recipes : cooked[r] < cooked'[r] => selection.slug = r
     /\ \A q \in Requests :
          req[q].pc = "mark" /\ req'[q].pc = "state" =>
            ~req[q].fresh \/ cooked'[req[q].row.slug] > 0]_vars

(***************************************************************************)
(* A mark-cooked that is repeated within five minutes, even while the      *)
(* first still awaits its recommendations, leaves one row in the history.  *)
(***************************************************************************)
CookedOnce == \A r \in Recipes : cooked[r] <= 1

(* Every request is answered: a lock that is taken is given back. *)
EveryRequestIsAnswered ==
  \A q \in Requests : req[q].pc # "idle" ~> req[q].pc = "idle"
=============================================================================

--------------------------- MODULE CookingSessions ---------------------------
(***************************************************************************)
(* The cooking sessions and timers of app/cooking_sessions.py, with the    *)
(* history row and the consumption review that a finished session leaves.  *)
(*                                                                         *)
(* The handlers that change a session are async and run under a lock of    *)
(* its owner (owner_lock of app/home_assistant.py).  Only two of them      *)
(* await while they hold it: start_session loads the recipe, and           *)
(* finish_session may choose the next recipe.  The latter has flushed its  *)
(* first writes by then, so that it also holds SQLite's write lock: a      *)
(* handler of another owner that writes meanwhile blocks the event loop,   *)
(* and the finish with it, until busy_timeout makes it fail.  Every other  *)
(* handler is a single step.                                               *)
(*                                                                         *)
(* The handlers that read a session are `def` and run in threads, without  *)
(* the owner's lock.  They write too: a read marks a timer finished whose  *)
(* deadline has passed, in a step of its own after it saw the timer.       *)
(***************************************************************************)
EXTENDS Naturals, FiniteSets

CONSTANTS
  Owners,     \* who cooks
  Sessions,   \* session ids that may be used
  Timers,     \* timer ids that may be used
  Requests,   \* request slots: how many handlers may be in flight at once
  MaxTimers,  \* timers of a session that are not cancelled: 8 in the code
  None

ASSUME SessionsAssumption ==
  /\ Timers \subseteq Nat \ {0}
  /\ MaxTimers \in Nat
  /\ None \notin Owners \cup Sessions \cup Timers

VARIABLES
  session,    \* cooking_sessions: owner and status of each session
  timer,      \* cooking_timers: session and state of each timer
  history,    \* cooking_history: rows that carry the session's marker
  review,     \* consumption_reviews: whether the session has one
  selection,  \* home_assistant_selections: the session whose finish chose it
  req         \* the requests in flight

vars == <<session, timer, history, review, selection, req>>

SessionRow == [owner: Owners, status: {"active", "completed", "cancelled"}]

(* A "due" timer is stored as running, and its deadline has passed. *)
TimerRow == [session: Sessions,
             state: {"running", "due", "paused", "finished", "cancelled"}]

(***************************************************************************)
(* Where a request is: awaiting the recipe of a session to start, awaiting *)
(* the next recommendation while it finishes a session, or in a thread     *)
(* about to mark a timer finished that it saw due.                         *)
(***************************************************************************)
Starting == [pc: {"recipe"}, owner: Owners, session: {None}, timer: {None}]
Finishing == [pc: {"select"}, owner: Owners, session: Sessions, timer: {None}]
Reading == [pc: {"ring"}, owner: {None}, session: Sessions, timer: Timers]

NoSession == [owner |-> None, status |-> "absent"]
NoTimer == [session |-> None, state |-> "absent"]
Idle == [pc |-> "idle", owner |-> None, session |-> None, timer |-> None]

TypeOK ==
  /\ session \in [Sessions -> SessionRow \cup {NoSession}]
  /\ timer \in [Timers -> TimerRow \cup {NoTimer}]
  /\ history \in [Sessions -> {0, 1}]
  /\ review \in [Sessions -> BOOLEAN]
  /\ selection \in [Owners -> Sessions \cup {None}]
  /\ req \in [Requests -> {Idle} \cup Starting \cup Finishing \cup Reading]

Init ==
  /\ session = [s \in Sessions |-> NoSession]
  /\ timer = [t \in Timers |-> NoTimer]
  /\ history = [s \in Sessions |-> 0]
  /\ review = [s \in Sessions |-> FALSE]
  /\ selection = [o \in Owners |-> None]
  /\ req = [q \in Requests |-> Idle]

-----------------------------------------------------------------------------
(* Locks and look-ups *)

(* Wrong variant: the lock is not held across awaits. *)
OwnerLockFreeAnyway(o) == \A q \in Requests : req[q].owner = o => req[q].pc # "select"

(* The owner's lock is free: no handler of the owner is awaiting under it. *)
OwnerLockFree(o) == \A q \in Requests : req[q].owner = o => req[q].pc = "idle"

(* SQLite's write lock is free: no finish is suspended with flushed writes. *)
WriteLockFree == \A q \in Requests : req[q].pc # "select"

(***************************************************************************)
(* A handler on session s may change the database now.                     *)
(***************************************************************************)
MayWrite(s) == OwnerLockFree(session[s].owner) /\ WriteLockFree

(* _active: what the owner cooks at the moment. *)
Active(o) == {s \in Sessions : session[s].owner = o /\ session[s].status = "active"}

(* Wrong variant: any session that exists will do. *)
RequireFound(s) == session[s].status # "absent"

RequireActive(s) == session[s].status = "active"

TimersOf(s) == {t \in Timers : timer[t].session = s}

(* Wrong variant: paused timers are left as they are. *)
CountingDown == {"running", "due"}

(* The states a session that ends has to end its timers in. *)
LiveStates == {"running", "due", "paused"}

(***************************************************************************)
(* SQLite's rowid: one more than the largest id in the table, so that the  *)
(* id of the newest timer is used again after its deletion.                *)
(***************************************************************************)
NextTimerId(t) ==
  /\ \A u \in Timers : u >= t => timer[u] = NoTimer
  /\ \A u \in Timers : u = t - 1 => timer[u] # NoTimer

(* The row of a session, of a timer, with another status, another state. *)
SessionAs(s, status) == [owner |-> session[s].owner, status |-> status]
TimerAs(t, state) == [session |-> timer[t].session, state |-> state]

(* The timers of s that still count down or are paused become `state`. *)
EndTimers(s, state) ==
  timer' = [t \in Timers |->
              IF timer[t].session = s /\ timer[t].state \in LiveStates
              THEN TimerAs(t, state) ELSE timer[t]]

Await(q, pc, o, s) ==
  /\ req[q] = Idle
  /\ req' = [req EXCEPT ![q] = [pc |-> pc, owner |-> o, session |-> s, timer |-> None]]

Return(q) == req' = [req EXCEPT ![q] = Idle]

-----------------------------------------------------------------------------
(* start_session *)

(* The owner cooks nothing, and the handler awaits the recipe. *)
BeginStart(q, o) ==
  /\ OwnerLockFree(o)
  /\ Active(o) = {}
  /\ Await(q, "recipe", o, None)
  /\ UNCHANGED <<session, timer, history, review, selection>>

(***************************************************************************)
(* The recipe is there.  The partial unique index on the owner's active    *)
(* session refuses a second one.                                           *)
(***************************************************************************)
CommitStart(q) ==
  /\ req[q].pc = "recipe"
  /\ WriteLockFree
  /\ \E s \in Sessions :
       /\ session[s] = NoSession
       /\ session' = IF Active(req[q].owner) # {} THEN session
                     ELSE [session EXCEPT ![s] = [owner |-> req[q].owner,
                                                  status |-> "active"]]
  /\ Return(q)
  /\ UNCHANGED <<timer, history, review, selection>>

(* The recipe cannot be loaded, has no steps, or the database is locked. *)
AbortStart(q) ==
  /\ req[q].pc = "recipe"
  /\ Return(q)
  /\ UNCHANGED <<session, timer, history, review, selection>>

-----------------------------------------------------------------------------
(* finish_session and cancel_session *)

(***************************************************************************)
(* All that a finish writes in the database, by its one commit.  The       *)
(* session's marker keeps its history row unique.                          *)
(***************************************************************************)
Complete(s) ==
  /\ EndTimers(s, "finished")
  /\ history' = [history EXCEPT ![s] = 1]
  /\ review' = [review EXCEPT ![s] = TRUE]
  /\ session' = [session EXCEPT ![s] = SessionAs(s, "completed")]

(* A finish that does not select the next recipe. *)
Finish(s) ==
  /\ MayWrite(s)
  /\ RequireActive(s)
  /\ Complete(s)
  /\ UNCHANGED <<selection, req>>

(* Wrong variant: the history row is committed by the function that adds it. *)
BeginFinishRecorded(q, s) ==
  /\ MayWrite(s)
  /\ RequireActive(s)
  /\ Await(q, "select", session[s].owner, s)
  /\ history' = [history EXCEPT ![s] = 1]
  /\ UNCHANGED <<session, timer, review, selection>>

(* The writes so far are flushed, and the handler awaits recommendations. *)
BeginFinish(q, s) ==
  /\ MayWrite(s)
  /\ RequireActive(s)
  /\ Await(q, "select", session[s].owner, s)
  /\ UNCHANGED <<session, timer, history, review, selection>>

CommitFinish(q) ==
  /\ req[q].pc = "select"
  /\ Complete(req[q].session)
  /\ selection' = [selection EXCEPT ![req[q].owner] = req[q].session]
  /\ Return(q)

(* No recommendation, or no candidate: the transaction is rolled back. *)
AbortFinish(q) ==
  /\ req[q].pc = "select"
  /\ Return(q)
  /\ UNCHANGED <<session, timer, history, review, selection>>

Cancel(s) ==
  /\ MayWrite(s)
  /\ RequireActive(s)
  /\ EndTimers(s, "cancelled")
  /\ session' = [session EXCEPT ![s] = SessionAs(s, "cancelled")]
  /\ UNCHANGED <<history, review, selection, req>>

-----------------------------------------------------------------------------
(* Timers *)

(* The timers of s that count against the limit. *)
Counted(s) == {t \in TimersOf(s) : timer[t].state # "cancelled"}

CreateTimer(s, state) ==
  /\ MayWrite(s)
  /\ RequireActive(s)
  /\ Cardinality(Counted(s)) < MaxTimers
  /\ \E t \in Timers :
       /\ NextTimerId(t)
       /\ timer' = [timer EXCEPT ![t] = [session |-> s, state |-> state]]
  /\ UNCHANGED <<session, history, review, selection, req>>

(* Wrong variant: the state is named after the action. *)
TimerAfterNamed(action, state) ==
  IF action = "pause" /\ state = "running" THEN "paused"
  ELSE IF action = "resume" /\ state = "paused" THEN "resumed"
  ELSE IF action = "cancel" THEN "cancelled"
  ELSE IF action = "finish" /\ state \in {"running", "paused"} THEN "finished"
  ELSE state

(***************************************************************************)
(* The state _timer_action commits.  It materializes the timer first: for  *)
(* one that is due, pause and resume are then refused, and finish returns  *)
(* early; neither commits, so that the timer stays due.                    *)
(***************************************************************************)
TimerAfter(action, state) ==
  IF action = "pause" /\ state = "running" THEN "paused"
  ELSE IF action = "resume" /\ state = "paused" THEN "running"
  ELSE IF action = "cancel" THEN "cancelled"
  ELSE IF action = "finish" /\ state \in {"running", "paused"} THEN "finished"
  ELSE state

(* Whether the session is still active is not asked. *)
TimerAction(t, action) ==
  /\ timer[t] # NoTimer
  /\ MayWrite(timer[t].session)
  /\ TimerAfter(action, timer[t].state) # timer[t].state
  /\ timer' = [timer EXCEPT ![t] = TimerAs(t, TimerAfter(action, timer[t].state))]
  /\ UNCHANGED <<session, history, review, selection, req>>

DeleteTimer(t) ==
  /\ timer[t].state \in {"finished", "cancelled"}
  /\ MayWrite(timer[t].session)
  /\ timer' = [timer EXCEPT ![t] = NoTimer]
  /\ UNCHANGED <<session, history, review, selection, req>>

(* Time passes the deadline of a running timer. *)
Deadline(t) ==
  /\ timer[t].state = "running"
  /\ timer' = [timer EXCEPT ![t] = TimerAs(t, "due")]
  /\ UNCHANGED <<session, history, review, selection, req>>

-----------------------------------------------------------------------------
(* Reads: _timers, called by every handler that returns a session *)

(***************************************************************************)
(* any() stops at the first timer that it finished: a read marks one timer *)
(* only, the due one with the least id.                                    *)
(***************************************************************************)
FirstDue(s, t) ==
  /\ timer[t].session = s /\ timer[t].state = "due"
  /\ \A u \in TimersOf(s) : timer[u].state = "due" => t <= u

(* A thread has read the timers of s and found t due. *)
BeginRead(q, s) ==
  /\ req[q] = Idle
  /\ \E t \in Timers :
       /\ FirstDue(s, t)
       /\ req' = [req EXCEPT ![q] = [pc |-> "ring", owner |-> None,
                                     session |-> s, timer |-> t]]
  /\ UNCHANGED <<session, timer, history, review, selection>>

(* Wrong variant: the change is not committed. *)
CommitReadUnsaved(q) ==
  /\ req[q].pc = "ring"
  /\ WriteLockFree
  /\ Return(q)
  /\ UNCHANGED <<session, timer, history, review, selection>>

(***************************************************************************)
(* It writes "finished" over whatever the row of that id holds by now; the *)
(* UPDATE of a row that is gone raises StaleDataError.                     *)
(***************************************************************************)
CommitRead(q) ==
  /\ req[q].pc = "ring"
  /\ WriteLockFree
  /\ timer' = IF timer[req[q].timer] = NoTimer THEN timer
              ELSE [timer EXCEPT ![req[q].timer] = TimerAs(req[q].timer, "finished")]
  /\ Return(q)
  /\ UNCHANGED <<session, history, review, selection>>

(* A finish holds the write lock for longer than busy_timeout. *)
ReadLocked(q) ==
  /\ req[q].pc = "ring"
  /\ ~WriteLockFree
  /\ Return(q)
  /\ UNCHANGED <<session, timer, history, review, selection>>

-----------------------------------------------------------------------------
(* The process stops: transactions that were not committed are gone. *)
Crash ==
  /\ req' = [q \in Requests |-> Idle]
  /\ req' # req
  /\ UNCHANGED <<session, timer, history, review, selection>>

TimerActions == {"pause", "resume", "finish", "cancel"}

Awaited(q) == CommitStart(q) \/ AbortStart(q) \/ CommitFinish(q) \/ AbortFinish(q)

SessionStep(s) ==
  \/ Finish(s) \/ Cancel(s)
  \/ \E state \in {"running", "paused"} : CreateTimer(s, state)
  \/ \E q \in Requests : BeginFinish(q, s) \/ BeginRead(q, s)

TimerStep(t) ==
  \/ DeleteTimer(t) \/ Deadline(t)
  \/ \E action \in TimerActions : TimerAction(t, action)

Next ==
  \/ \E q \in Requests, o \in Owners : BeginStart(q, o)
  \/ \E q \in Requests : Awaited(q) \/ CommitRead(q) \/ ReadLocked(q)
  \/ \E s \in Sessions : SessionStep(s)
  \/ \E t \in Timers : TimerStep(t)
  \/ Crash

Spec == Init /\ [][Next]_vars

(***************************************************************************)
(* Mealie's calls have timeouts, so that a handler does not await for      *)
(* ever.  An active session is polled (by the page, and by Home Assistant  *)
(* every ten seconds), also when no finish holds the write lock, and a     *)
(* poll that again and again could have written its timer does so.         *)
(***************************************************************************)
Polled(q, s) == RequireActive(s) /\ WriteLockFree /\ BeginRead(q, s)
Answered(q, s) == req[q].session = s /\ CommitRead(q)

Fairness ==
  /\ \A q \in Requests : WF_vars(Awaited(q))
  /\ \A s \in Sessions : SF_vars(\E q \in Requests : Polled(q, s))
  /\ \A s \in Sessions : SF_vars(\E q \in Requests : Answered(q, s))

FairSpec == Spec /\ Fairness

-----------------------------------------------------------------------------
(* Properties *)

(***************************************************************************)
(* What the owner's lock gives to the two handlers that await under it:    *)
(* no other handler of the owner is under way, nothing else starts while   *)
(* start_session awaits the recipe (the unique index never has to refuse   *)
(* what the lock let pass), and the session that finish_session read as    *)
(* active is active when it commits.  Only one handler of all owners is    *)
(* suspended within a transaction.                                         *)
(***************************************************************************)
LockProtects ==
  /\ \A p, q \in Requests :
       p # q /\ req[p].owner # None => req[p].owner # req[q].owner
  /\ \A p, q \in Requests : req[p].pc = "select" /\ req[q].pc = "select" => p = q
  /\ \A q \in Requests : req[q].pc = "recipe" => Active(req[q].owner) = {}
  /\ \A q \in Requests : req[q].pc = "select" =>
       session[req[q].session] = [owner |-> req[q].owner, status |-> "active"]

(***************************************************************************)
(* docs/home-assistant.md: a finish "atomically records cooking history,   *)
(* queues a consumption review, completes timers, and selects another      *)
(* recommendation".  Whatever fails or stops in between, a session has its *)
(* history row and its review exactly if it is completed, and only then    *)
(* has its finish replaced the selection.                                  *)
(***************************************************************************)
FinishIsAtomic ==
  /\ \A s \in Sessions :
       /\ session[s].status = "completed" <=> history[s] = 1
       /\ session[s].status = "completed" <=> review[s]
  /\ \A o \in Owners : selection[o] # None => session[selection[o]].status = "completed"

(* No timer counts down, or can be resumed, once its session has ended. *)
NoTimerOutlivesItsSession ==
  \A t \in Timers : timer[t].state \in {"running", "due", "paused"}
                      => session[timer[t].session].status = "active"

(* A session that has ended keeps its status and its owner. *)
EndedStaysEnded ==
  [][\A s \in Sessions : session[s].status \in {"completed", "cancelled"}
                           => session'[s] = session[s]]_vars

(***************************************************************************)
(* A timer that is due is marked finished by some read, or ended           *)
(* otherwise, although each read marks only one, some time out on the      *)
(* write lock, and some find another timer under the id they saw.          *)
(***************************************************************************)
EveryDueTimerEnds ==
  \A t \in Timers : timer[t].state = "due" ~> timer[t].state # "due"

(***************************************************************************)
(* CHANGELOG.md: "an eight-timer safety limit": a session has at most      *)
(* MaxTimers timers that are not cancelled.  The code does not keep this:  *)
(* README, "Known divergences".                                            *)
(***************************************************************************)
TimerLimit == \A s \in Sessions : Cardinality(Counted(s)) <= MaxTimers
=============================================================================

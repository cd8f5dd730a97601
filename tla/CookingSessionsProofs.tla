----------------------- MODULE CookingSessionsProofs -----------------------
(***************************************************************************)
(* Proofs about CookingSessions, for any owners, ids, requests and limit.  *)
(***************************************************************************)
EXTENDS CookingSessions, TLAPS

(* The inductive invariant. *)
SessionsInvariant ==
  TypeOK /\ LockProtects /\ FinishIsAtomic /\ NoTimerOutlivesItsSession

(* Nothing has happened yet. *)
LEMMA SessionsInit == Init => SessionsInvariant
BY SessionsAssumption
   DEF Init, SessionsInvariant, TypeOK, LockProtects, FinishIsAtomic,
       NoTimerOutlivesItsSession, NoSession, NoTimer, Idle, Active

(***************************************************************************)
(* A request that returns, or whose process stops, takes nothing with it   *)
(* that the others rely on.                                                *)
(***************************************************************************)
LEMMA ReturnKeepsInvariant ==
  ASSUME SessionsInvariant,
         \A q \in Requests : req'[q] = req[q] \/ req'[q] = Idle,
         req' \in [Requests -> {Idle} \cup Starting \cup Finishing \cup Reading],
         UNCHANGED <<session, timer, history, review, selection>>
  PROVE  SessionsInvariant'
BY SessionsAssumption
   DEF SessionsInvariant, TypeOK, LockProtects, FinishIsAtomic,
       NoTimerOutlivesItsSession, NoSession, NoTimer, Idle, Active

(* A step that changes only timers keeps the types and what it does not touch. *)
LEMMA TimersKeepInvariant ==
  ASSUME SessionsInvariant,
         timer' \in [Timers -> TimerRow \cup {NoTimer}],
         \A t \in Timers : timer'[t].state \in {"running", "due", "paused"} =>
           session[timer'[t].session].status = "active",
         UNCHANGED <<session, history, review, selection, req>>
  PROVE  SessionsInvariant'
BY DEF SessionsInvariant, TypeOK, LockProtects, FinishIsAtomic,
       NoTimerOutlivesItsSession, Active

(* A handler that holds its owner's lock meets no other handler of the owner. *)
LEMMA BeginKeepsInvariant ==
  ASSUME SessionsInvariant, NEW q \in Requests, NEW o \in Owners,
         NEW r \in Starting \cup Finishing,
         req[q] = Idle, req' = [req EXCEPT ![q] = r], r.owner = o, OwnerLockFree(o),
         r.pc = "recipe" => Active(o) = {},
         r.pc = "select" => /\ WriteLockFree
                            /\ session[r.session] = [owner |-> o, status |-> "active"],
         UNCHANGED <<session, timer, history, review, selection>>
  PROVE  SessionsInvariant'
<1>1. TypeOK'
  BY DEF SessionsInvariant, TypeOK
<1>2. \A p \in Requests \ {q} : req'[p] = req[p] /\ req[p].owner # o
  BY SessionsAssumption
     DEF SessionsInvariant, TypeOK, OwnerLockFree, Idle, Starting, Finishing, Reading
<1>3. req'[q] = r
  BY DEF SessionsInvariant, TypeOK
<1>4. LockProtects'
  <2>1. \A p1, p2 \in Requests : p1 # p2 /\ req'[p1].owner # None =>
          req'[p1].owner # req'[p2].owner
    BY <1>2, <1>3 DEF SessionsInvariant, LockProtects
  <2>2. \A p1, p2 \in Requests : req'[p1].pc = "select" /\ req'[p2].pc = "select" => p1 = p2
    BY <1>2, <1>3 DEF SessionsInvariant, LockProtects, WriteLockFree
  <2>3. \A p \in Requests : req'[p].pc = "recipe" => Active(req[p].owner)' = {}
    BY <1>2, <1>3 DEF SessionsInvariant, LockProtects, Active
  <2>4. \A p \in Requests : req'[p].pc = "select" =>
          session'[req'[p].session] = [owner |-> req'[p].owner, status |-> "active"]
    BY <1>2, <1>3 DEF SessionsInvariant, LockProtects
  <2> QED
    BY <2>1, <2>2, <2>3, <2>4 DEF LockProtects
<1>5. FinishIsAtomic' /\ NoTimerOutlivesItsSession'
  BY DEF SessionsInvariant, FinishIsAtomic, NoTimerOutlivesItsSession
<1> QED
  BY <1>1, <1>4, <1>5 DEF SessionsInvariant

(***************************************************************************)
(* A session ends together with its timers, with its history row and its   *)
(* review if it is completed, and with no other handler of its owner at    *)
(* work.  `status` is the status it ends in.                               *)
(***************************************************************************)
LEMMA EndKeepsInvariant ==
  ASSUME SessionsInvariant, NEW s \in Sessions,
         NEW status \in {"completed", "cancelled"},
         NEW state \in {"finished", "cancelled"},
         RequireActive(s), EndTimers(s, state),
         session' = [session EXCEPT ![s] = SessionAs(s, status)],
         history' = IF status = "completed" THEN [history EXCEPT ![s] = 1] ELSE history,
         review' = IF status = "completed" THEN [review EXCEPT ![s] = TRUE] ELSE review,
         \A o \in Owners : \/ selection'[o] = selection[o]
                           \/ selection'[o] = s /\ status = "completed",
         selection' \in [Owners -> Sessions \cup {None}],
         \A q \in Requests : \/ req'[q] = Idle
                             \/ req'[q] = req[q] /\ req[q].owner # session[s].owner,
         req' \in [Requests -> {Idle} \cup Starting \cup Finishing \cup Reading]
  PROVE  SessionsInvariant'
<1>1. /\ session[s] \in SessionRow
      /\ session'[s] = [owner |-> session[s].owner, status |-> status]
      /\ \A u \in Sessions \ {s} : session'[u] = session[u]
  BY DEF SessionsInvariant, TypeOK, RequireActive, NoSession, SessionRow, SessionAs
<1>2. TypeOK'
  <2>1. session' \in [Sessions -> SessionRow \cup {NoSession}]
    BY <1>1 DEF SessionsInvariant, TypeOK, SessionRow
  <2>2. timer' \in [Timers -> TimerRow \cup {NoTimer}]
    BY DEF SessionsInvariant, TypeOK, EndTimers, TimerRow, NoTimer, LiveStates, TimerAs
  <2>3. history' \in [Sessions -> {0, 1}] /\ review' \in [Sessions -> BOOLEAN]
    BY DEF SessionsInvariant, TypeOK
  <2> QED
    BY <2>1, <2>2, <2>3 DEF TypeOK
<1>3. LockProtects'
  <2>1. \A p, q \in Requests : p # q /\ req'[p].owner # None =>
          req'[p].owner # req'[q].owner
    BY DEF SessionsInvariant, LockProtects, Idle
  <2>2. \A p, q \in Requests : req'[p].pc = "select" /\ req'[q].pc = "select" => p = q
    BY DEF SessionsInvariant, LockProtects, Idle
  <2>3. \A q \in Requests : req'[q].pc = "recipe" => Active(req[q].owner)' = {}
    BY <1>1 DEF SessionsInvariant, LockProtects, Idle, Active, SessionRow
  <2>4. \A q \in Requests : req'[q].pc = "select" =>
          session'[req'[q].session] = [owner |-> req'[q].owner, status |-> "active"]
    <3>1. SUFFICES ASSUME NEW q \in Requests, req'[q].pc = "select"
                   PROVE  session'[req'[q].session]
                            = [owner |-> req'[q].owner, status |-> "active"]
      OBVIOUS
    <3>2. req'[q] = req[q] /\ req[q].owner # session[s].owner
      BY <3>1 DEF Idle
    <3>3. session[req[q].session] = [owner |-> req[q].owner, status |-> "active"]
      BY <3>1, <3>2 DEF SessionsInvariant, LockProtects
    <3>4. req[q].session \in Sessions /\ req[q].session # s
      BY <3>1, <3>2, <3>3
         DEF SessionsInvariant, TypeOK, Idle, Starting, Finishing, Reading
    <3> QED
      BY <1>1, <3>2, <3>3, <3>4
  <2> QED
    BY <2>1, <2>2, <2>3, <2>4 DEF LockProtects
<1>4. FinishIsAtomic'
  <2>1. \A u \in Sessions : /\ session'[u].status = "completed" <=> history'[u] = 1
                            /\ session'[u].status = "completed" <=> review'[u]
    BY <1>1 DEF SessionsInvariant, TypeOK, FinishIsAtomic, RequireActive, SessionRow
  <2>2. \A o \in Owners : selection'[o] # None =>
                            session'[selection'[o]].status = "completed"
    BY <1>1 DEF SessionsInvariant, TypeOK, FinishIsAtomic, RequireActive, SessionRow
  <2> QED
    BY <2>1, <2>2 DEF FinishIsAtomic
<1>5. NoTimerOutlivesItsSession'
  <2>1. SUFFICES ASSUME NEW t \in Timers,
                        timer'[t].state \in {"running", "due", "paused"}
                 PROVE  session'[timer'[t].session].status = "active"
    BY DEF NoTimerOutlivesItsSession
  <2>2. timer'[t] = timer[t] /\ timer[t].session # s
    BY <2>1 DEF SessionsInvariant, TypeOK, EndTimers, LiveStates, TimerRow, NoTimer, TimerAs
  <2>3. timer[t].session \in Sessions
    BY <2>1, <2>2 DEF SessionsInvariant, TypeOK, TimerRow, NoTimer
  <2> QED
    BY <1>1, <2>1, <2>2, <2>3 DEF SessionsInvariant, NoTimerOutlivesItsSession
<1> QED
  BY <1>2, <1>3, <1>4, <1>5 DEF SessionsInvariant

(***************************************************************************)
(* A session starts when its owner cooks nothing; the only handler of the  *)
(* owner is the one that started it.                                       *)
(***************************************************************************)
LEMMA StartKeepsInvariant ==
  ASSUME SessionsInvariant, NEW q \in Requests, CommitStart(q)
  PROVE  SessionsInvariant'
<1>1. PICK s \in Sessions :
        /\ session[s] = NoSession
        /\ session' = IF Active(req[q].owner) # {} THEN session
                      ELSE [session EXCEPT ![s] = [owner |-> req[q].owner,
                                                   status |-> "active"]]
  BY DEF CommitStart
<1>2. req[q].owner \in Owners /\ Active(req[q].owner) = {}
  BY DEF SessionsInvariant, TypeOK, LockProtects, CommitStart, Idle, Starting,
         Finishing, Reading
<1>3. /\ session'[s] = [owner |-> req[q].owner, status |-> "active"]
      /\ \A u \in Sessions \ {s} : session'[u] = session[u]
  BY <1>1, <1>2 DEF SessionsInvariant, TypeOK
<1>4. req'[q] = Idle /\ \A p \in Requests \ {q} : req'[p] = req[p]
  BY DEF SessionsInvariant, TypeOK, CommitStart, Return
<1>5. TypeOK'
  BY <1>1, <1>2 DEF SessionsInvariant, TypeOK, CommitStart, Return, SessionRow
<1>6. LockProtects'
  <2>1. \A p \in Requests \ {q} : req[p].owner # req[q].owner
    BY <1>2, SessionsAssumption DEF SessionsInvariant, LockProtects
  <2>2. \A p1, p2 \in Requests :
          /\ p1 # p2 /\ req'[p1].owner # None => req'[p1].owner # req'[p2].owner
          /\ req'[p1].pc = "select" /\ req'[p2].pc = "select" => p1 = p2
    BY <1>4 DEF SessionsInvariant, LockProtects, Idle
  <2>3. \A p \in Requests : req'[p].pc = "recipe" => Active(req[p].owner)' = {}
    BY <1>3, <1>4, <2>1 DEF SessionsInvariant, LockProtects, Idle, Active
  <2>4. \A p \in Requests : req'[p].pc = "select" =>
          session'[req'[p].session] = [owner |-> req'[p].owner, status |-> "active"]
    <3>1. SUFFICES ASSUME NEW p \in Requests, req'[p].pc = "select"
                   PROVE  session'[req'[p].session]
                            = [owner |-> req'[p].owner, status |-> "active"]
      OBVIOUS
    <3>2. p # q /\ req'[p] = req[p]
      BY <1>4, <3>1 DEF Idle
    <3>3. session[req[p].session] = [owner |-> req[p].owner, status |-> "active"]
      BY <3>1, <3>2 DEF SessionsInvariant, LockProtects
    <3>4. req[p].session \in Sessions /\ req[p].session # s
      BY <1>1, <3>1, <3>2, <3>3
         DEF SessionsInvariant, TypeOK, Idle, Starting, Finishing, Reading, NoSession
    <3> QED
      BY <1>3, <3>2, <3>3, <3>4
  <2> QED
    BY <2>2, <2>3, <2>4 DEF LockProtects
<1>7. FinishIsAtomic'
  <2>1. history' = history /\ review' = review /\ selection' = selection
    BY DEF CommitStart
  <2>2. history[s] # 1 /\ ~review[s]
    BY <1>1 DEF SessionsInvariant, FinishIsAtomic, NoSession
  <2>3. \A u \in Sessions : /\ session'[u].status = "completed" <=> history'[u] = 1
                            /\ session'[u].status = "completed" <=> review'[u]
    BY <1>3, <2>1, <2>2 DEF SessionsInvariant, FinishIsAtomic
  <2>4. \A o \in Owners : selection'[o] # None =>
                            session'[selection'[o]].status = "completed"
    BY <1>1, <1>3, <2>1 DEF SessionsInvariant, TypeOK, FinishIsAtomic, NoSession
  <2> QED
    BY <2>3, <2>4 DEF FinishIsAtomic
<1>8. NoTimerOutlivesItsSession'
  <2>1. timer' = timer
    BY DEF CommitStart
  <2>2. \A t \in Timers : timer[t].state \in {"running", "due", "paused"} =>
          timer[t].session \in Sessions
    BY DEF SessionsInvariant, TypeOK, TimerRow, NoTimer
  <2> QED
    BY <1>3, <2>1, <2>2 DEF SessionsInvariant, NoTimerOutlivesItsSession
<1> QED
  BY <1>5, <1>6, <1>7, <1>8 DEF SessionsInvariant

(* A finish that selected the next recipe commits. *)
LEMMA CommitFinishKeepsInvariant ==
  ASSUME SessionsInvariant, NEW q \in Requests, CommitFinish(q)
  PROVE  SessionsInvariant'
<1> DEFINE s == req[q].session
<1>1. s \in Sessions /\ req[q].owner \in Owners
  BY DEF SessionsInvariant, TypeOK, CommitFinish, Idle, Starting, Finishing, Reading
<1>2. session[s] = [owner |-> req[q].owner, status |-> "active"]
  BY DEF SessionsInvariant, LockProtects, CommitFinish
<1>3. \A p \in Requests \ {q} : req'[p] = req[p] /\ req[p].owner # session[s].owner
  BY <1>1, <1>2, SessionsAssumption
     DEF SessionsInvariant, TypeOK, LockProtects, CommitFinish, Return
<1>4. req'[q] = Idle /\ req' \in [Requests -> {Idle} \cup Starting \cup Finishing \cup Reading]
  BY DEF SessionsInvariant, TypeOK, CommitFinish, Return
<1>5. /\ \A o \in Owners : selection'[o] = selection[o] \/ selection'[o] = s
      /\ selection' \in [Owners -> Sessions \cup {None}]
  BY <1>1 DEF SessionsInvariant, TypeOK, CommitFinish
<1>6. RequireActive(s)
  BY <1>2 DEF RequireActive
<1>7. /\ EndTimers(s, "finished")
      /\ history' = [history EXCEPT ![s] = 1] /\ review' = [review EXCEPT ![s] = TRUE]
      /\ session' = [session EXCEPT ![s] = SessionAs(s, "completed")]
  BY DEF CommitFinish, Complete
<1> QED
  BY <1>1, <1>3, <1>4, <1>5, <1>6, <1>7, EndKeepsInvariant

(* The requests of other owners are all that is under way when s may be changed. *)
LEMMA OthersUnderWay ==
  ASSUME SessionsInvariant, NEW s \in Sessions, RequireActive(s), MayWrite(s)
  PROVE  /\ session[s].owner \in Owners
         /\ \A q \in Requests : req[q] = Idle \/ req[q].owner # session[s].owner
<1>1. session[s].owner \in Owners
  BY DEF SessionsInvariant, TypeOK, RequireActive, NoSession, SessionRow
<1> QED
  BY <1>1, SessionsAssumption
     DEF SessionsInvariant, TypeOK, MayWrite, OwnerLockFree, Idle, Starting, Finishing,
         Reading

(* A session ends without awaiting. *)
LEMMA EndsAtOnce ==
  ASSUME SessionsInvariant, NEW s \in Sessions, Finish(s) \/ Cancel(s)
  PROVE  SessionsInvariant'
<1>1. RequireActive(s) /\ MayWrite(s) /\ UNCHANGED <<selection, req>>
  BY DEF Finish, Cancel
<1>2. /\ \A q \in Requests : \/ req'[q] = Idle
                             \/ req'[q] = req[q] /\ req[q].owner # session[s].owner
      /\ req' \in [Requests -> {Idle} \cup Starting \cup Finishing \cup Reading]
      /\ selection' \in [Owners -> Sessions \cup {None}]
      /\ \A o \in Owners : selection'[o] = selection[o]
  BY <1>1, OthersUnderWay DEF SessionsInvariant, TypeOK
<1>3. CASE Finish(s)
  <2>1. /\ EndTimers(s, "finished")
        /\ history' = [history EXCEPT ![s] = 1] /\ review' = [review EXCEPT ![s] = TRUE]
        /\ session' = [session EXCEPT ![s] = SessionAs(s, "completed")]
    BY <1>3 DEF Finish, Complete
  <2>2. "completed" \in {"completed", "cancelled"} /\ "finished" \in {"finished", "cancelled"}
    OBVIOUS
  <2> QED
    BY <1>1, <1>2, <2>1, <2>2, EndKeepsInvariant
<1>4. CASE Cancel(s)
  <2>1. PICK status \in {"completed", "cancelled"} : status = "cancelled"
    OBVIOUS
  <2>2. PICK state \in {"finished", "cancelled"} : state = "cancelled"
    OBVIOUS
  <2>3. EndTimers(s, state) /\ session' = [session EXCEPT ![s] = SessionAs(s, status)]
    BY <1>4, <2>1, <2>2 DEF Cancel
  <2>4. /\ history' = IF status = "completed" THEN [history EXCEPT ![s] = 1] ELSE history
        /\ review' = IF status = "completed" THEN [review EXCEPT ![s] = TRUE] ELSE review
    BY <1>4, <2>1 DEF Cancel
  <2> QED
    BY <1>1, <1>2, <2>1, <2>2, <2>3, <2>4, EndKeepsInvariant
<1> QED
  BY <1>3, <1>4

(***************************************************************************)
(* No timer action leaves a timer running, due or paused that was not:    *)
(* only the creation of a timer does, in an active session.                *)
(***************************************************************************)
LEMMA TimerStepKeepsInvariant ==
  ASSUME SessionsInvariant,
         \/ \E s \in Sessions, state \in {"running", "paused"} : CreateTimer(s, state)
         \/ \E t \in Timers : TimerStep(t)
  PROVE  SessionsInvariant'
<1>1. ASSUME NEW s \in Sessions, NEW state \in {"running", "paused"}, CreateTimer(s, state)
      PROVE  SessionsInvariant'
  <2>1. PICK t \in Timers : timer' = [timer EXCEPT ![t] = [session |-> s, state |-> state]]
    BY <1>1 DEF CreateTimer
  <2>2. timer' \in [Timers -> TimerRow \cup {NoTimer}]
    BY <2>1 DEF SessionsInvariant, TypeOK, TimerRow
  <2>3. \A u \in Timers : timer'[u].state \in {"running", "due", "paused"} =>
          session[timer'[u].session].status = "active"
    BY <1>1, <2>1 DEF CreateTimer, RequireActive, SessionsInvariant, TypeOK,
                      NoTimerOutlivesItsSession
  <2> QED
    BY <1>1, <2>2, <2>3, TimersKeepInvariant DEF CreateTimer
<1>2. ASSUME NEW t \in Timers, NEW row \in TimerRow \cup {NoTimer},
             row.state \in {"running", "due", "paused"} =>
               /\ row.session = timer[t].session
               /\ timer[t].state \in {"running", "due", "paused"},
             timer' = [timer EXCEPT ![t] = row],
             UNCHANGED <<session, history, review, selection, req>>
      PROVE  SessionsInvariant'
  <2>1. timer' \in [Timers -> TimerRow \cup {NoTimer}]
    BY <1>2 DEF SessionsInvariant, TypeOK
  <2>2. \A u \in Timers : timer'[u].state \in {"running", "due", "paused"} =>
          session[timer'[u].session].status = "active"
    BY <1>2 DEF SessionsInvariant, TypeOK, NoTimerOutlivesItsSession
  <2> QED
    BY <1>2, <2>1, <2>2, TimersKeepInvariant
<1>3. ASSUME NEW t \in Timers, NEW state \in {"running", "due", "paused", "finished", "cancelled"},
             timer[t] # NoTimer,
             state \in {"running", "due", "paused"} =>
               timer[t].state \in {"running", "due", "paused"},
             timer' = [timer EXCEPT ![t] = TimerAs(t, state)],
             UNCHANGED <<session, history, review, selection, req>>
      PROVE  SessionsInvariant'
  <2>1. TimerAs(t, state) \in TimerRow
    BY <1>3 DEF SessionsInvariant, TypeOK, TimerAs, TimerRow
  <2>2. /\ TimerAs(t, state).session = timer[t].session
        /\ TimerAs(t, state).state = state
    BY DEF TimerAs
  <2> QED
    BY <1>2, <1>3, <2>1, <2>2
<1>4. ASSUME NEW t \in Timers, TimerStep(t)
      PROVE  SessionsInvariant'
  <2>1. CASE DeleteTimer(t)
    BY <1>2, <2>1 DEF DeleteTimer, NoTimer
  <2>2. CASE Deadline(t)
    <3>1. /\ timer[t] # NoTimer /\ timer[t].state = "running"
          /\ timer' = [timer EXCEPT ![t] = TimerAs(t, "due")]
          /\ UNCHANGED <<session, history, review, selection, req>>
      BY <2>2 DEF Deadline, NoTimer
    <3>2. "due" \in {"running", "due", "paused", "finished", "cancelled"}
      OBVIOUS
    <3> QED
      BY <1>3, <3>1, <3>2
  <2>3. ASSUME NEW action \in TimerActions, TimerAction(t, action)
        PROVE  SessionsInvariant'
    <3>1. timer[t] \in TimerRow
      BY <2>3 DEF TimerAction, SessionsInvariant, TypeOK
    <3>2. /\ TimerAfter(action, timer[t].state)
               \in {"running", "due", "paused", "finished", "cancelled"}
          /\ TimerAfter(action, timer[t].state) \in {"running", "due", "paused"} =>
               timer[t].state \in {"running", "due", "paused"}
      BY <2>3, <3>1 DEF TimerRow, TimerAfter, TimerActions
    <3> QED
      BY <1>3, <2>3, <3>2 DEF TimerAction
  <2> QED
    BY <1>4, <2>1, <2>2, <2>3 DEF TimerStep
<1> QED
  BY <1>1, <1>4

(* A read that marks a timer finished changes nothing that others rely on. *)
LEMMA CommitReadKeepsInvariant ==
  ASSUME SessionsInvariant, NEW q \in Requests, CommitRead(q)
  PROVE  SessionsInvariant'
<1>1. UNCHANGED <<session, history, review, selection>>
  BY DEF CommitRead
<1>2. req[q].timer \in Timers
  BY DEF SessionsInvariant, TypeOK, CommitRead, Idle, Starting, Finishing, Reading
<1>3. \A t \in Timers : \/ timer'[t] = timer[t]
                        \/ /\ timer'[t] \in TimerRow
                           /\ timer'[t].state = "finished"
  BY <1>2 DEF SessionsInvariant, TypeOK, CommitRead, TimerAs, TimerRow
<1>4. timer' \in [Timers -> TimerRow \cup {NoTimer}]
  BY <1>3 DEF SessionsInvariant, TypeOK, CommitRead
<1>5. /\ req'[q] = Idle /\ \A p \in Requests \ {q} : req'[p] = req[p]
      /\ req' \in [Requests -> {Idle} \cup Starting \cup Finishing \cup Reading]
  BY DEF SessionsInvariant, TypeOK, CommitRead, Return
<1>6. TypeOK'
  BY <1>1, <1>4, <1>5 DEF SessionsInvariant, TypeOK
<1>7. LockProtects' /\ FinishIsAtomic'
  BY <1>1, <1>5 DEF SessionsInvariant, LockProtects, FinishIsAtomic, Idle, Active
<1>8. NoTimerOutlivesItsSession'
  BY <1>1, <1>3 DEF SessionsInvariant, NoTimerOutlivesItsSession
<1> QED
  BY <1>6, <1>7, <1>8 DEF SessionsInvariant

(* A read that saw a due timer holds no lock. *)
LEMMA BeginReadKeepsInvariant ==
  ASSUME SessionsInvariant, NEW q \in Requests, NEW s \in Sessions, BeginRead(q, s)
  PROVE  SessionsInvariant'
<1>1. PICK t \in Timers :
        req' = [req EXCEPT ![q] = [pc |-> "ring", owner |-> None,
                                   session |-> s, timer |-> t]]
  BY DEF BeginRead
<1>2. UNCHANGED <<session, timer, history, review, selection>>
  BY DEF BeginRead
<1>3. /\ req'[q].pc = "ring" /\ req'[q].owner = None
      /\ \A p \in Requests \ {q} : req'[p] = req[p]
  BY <1>1 DEF SessionsInvariant, TypeOK
<1>4. TypeOK'
  BY <1>1, <1>2 DEF SessionsInvariant, TypeOK, Reading
<1>5. LockProtects' /\ FinishIsAtomic' /\ NoTimerOutlivesItsSession'
  BY <1>2, <1>3 DEF SessionsInvariant, LockProtects, FinishIsAtomic,
                    NoTimerOutlivesItsSession, Active
<1> QED
  BY <1>4, <1>5 DEF SessionsInvariant

(* The step of a request that begins to await or returns from it. *)
LEMMA RequestKeepsInvariant ==
  ASSUME SessionsInvariant, NEW q \in Requests,
         \/ \E o \in Owners : BeginStart(q, o)
         \/ \E s \in Sessions : BeginFinish(q, s)
         \/ Awaited(q) \/ ReadLocked(q)
  PROVE  SessionsInvariant'
<1>1. ASSUME NEW o \in Owners, BeginStart(q, o)
      PROVE  SessionsInvariant'
  <2>1. PICK r \in Starting \cup Finishing :
          r = [pc |-> "recipe", owner |-> o, session |-> None, timer |-> None]
    BY DEF Starting
  <2>2. /\ req[q] = Idle /\ req' = [req EXCEPT ![q] = r] /\ OwnerLockFree(o)
        /\ Active(o) = {} /\ UNCHANGED <<session, timer, history, review, selection>>
    BY <1>1, <2>1 DEF BeginStart, Await
  <2> QED
    BY <2>1, <2>2, BeginKeepsInvariant
<1>2. ASSUME NEW s \in Sessions, BeginFinish(q, s)
      PROVE  SessionsInvariant'
  <2>1. session[s] = [owner |-> session[s].owner, status |-> "active"]
        /\ session[s].owner \in Owners
    BY <1>2 DEF BeginFinish, RequireActive, SessionsInvariant, TypeOK, NoSession, SessionRow
  <2>2. PICK r \in Starting \cup Finishing :
          r = [pc |-> "select", owner |-> session[s].owner, session |-> s, timer |-> None]
    BY <2>1 DEF Finishing
  <2>3. /\ req[q] = Idle /\ req' = [req EXCEPT ![q] = r]
        /\ OwnerLockFree(session[s].owner) /\ WriteLockFree
        /\ UNCHANGED <<session, timer, history, review, selection>>
    BY <1>2, <2>2 DEF BeginFinish, Await, MayWrite
  <2> QED
    BY <2>1, <2>2, <2>3, BeginKeepsInvariant
<1>3. CASE AbortStart(q) \/ AbortFinish(q) \/ ReadLocked(q)
  <2>1. /\ \A p \in Requests : req'[p] = req[p] \/ req'[p] = Idle
        /\ req' \in [Requests -> {Idle} \cup Starting \cup Finishing \cup Reading]
        /\ UNCHANGED <<session, timer, history, review, selection>>
    BY <1>3 DEF AbortStart, AbortFinish, ReadLocked, Return, SessionsInvariant, TypeOK
  <2> QED
    BY <2>1, ReturnKeepsInvariant
<1> QED
  BY <1>1, <1>2, <1>3, StartKeepsInvariant, CommitFinishKeepsInvariant DEF Awaited

(***************************************************************************)
(* Every step of the handlers, of the threads that read, and of time.      *)
(***************************************************************************)
LEMMA StepKeepsInvariant ==
  ASSUME SessionsInvariant, [Next]_vars
  PROVE  SessionsInvariant'
<1>1. ASSUME NEW q \in Requests, \/ \E o \in Owners : BeginStart(q, o)
                                \/ Awaited(q) \/ CommitRead(q) \/ ReadLocked(q)
      PROVE  SessionsInvariant'
  BY <1>1, RequestKeepsInvariant, CommitReadKeepsInvariant
<1>2. ASSUME NEW s \in Sessions, SessionStep(s)
      PROVE  SessionsInvariant'
  <2>1. CASE Finish(s) \/ Cancel(s)
    BY <2>1, EndsAtOnce
  <2>2. CASE \E state \in {"running", "paused"} : CreateTimer(s, state)
    BY <2>2, TimerStepKeepsInvariant
  <2>3. CASE \E q \in Requests : BeginFinish(q, s) \/ BeginRead(q, s)
    BY <2>3, RequestKeepsInvariant, BeginReadKeepsInvariant
  <2> QED
    BY <1>2, <2>1, <2>2, <2>3 DEF SessionStep
<1>3. ASSUME NEW t \in Timers, TimerStep(t)
      PROVE  SessionsInvariant'
  BY <1>3, TimerStepKeepsInvariant
<1>4. CASE Crash
  <2>1. /\ \A p \in Requests : req'[p] = req[p] \/ req'[p] = Idle
        /\ req' \in [Requests -> {Idle} \cup Starting \cup Finishing \cup Reading]
        /\ UNCHANGED <<session, timer, history, review, selection>>
    BY <1>4 DEF Crash
  <2> QED
    BY <2>1, ReturnKeepsInvariant
<1>5. CASE UNCHANGED vars
  <2>1. /\ \A p \in Requests : req'[p] = req[p] \/ req'[p] = Idle
        /\ req' \in [Requests -> {Idle} \cup Starting \cup Finishing \cup Reading]
        /\ UNCHANGED <<session, timer, history, review, selection>>
    BY <1>5 DEF vars, SessionsInvariant, TypeOK
  <2> QED
    BY <2>1, ReturnKeepsInvariant
<1> QED
  BY <1>1, <1>2, <1>3, <1>4, <1>5 DEF Next

(* The inductive invariant holds in every reachable state. *)
THEOREM SessionsInvariantHolds == Spec => []SessionsInvariant
<1>1. SessionsInvariant /\ [Next]_vars => SessionsInvariant'
  BY StepKeepsInvariant
<1> QED
  BY SessionsInit, <1>1, PTL DEF Spec

(* Sessions, timers and the requests in flight stay well typed. *)
THEOREM SessionsTypeOK == Spec => []TypeOK
<1>1. SessionsInvariant => TypeOK
  BY DEF SessionsInvariant
<1> QED
  BY SessionsInvariantHolds, <1>1, PTL

(***************************************************************************)
(* The owner's lock and SQLite's write lock do what the two handlers that  *)
(* await under them need, for any number of owners and requests.           *)
(***************************************************************************)
THEOREM LockProtectsHolds == Spec => []LockProtects
<1>1. SessionsInvariant => LockProtects
  BY DEF SessionsInvariant
<1> QED
  BY SessionsInvariantHolds, <1>1, PTL

(* A finish is atomic: history, review, status and selection agree. *)
THEOREM FinishIsAtomicHolds == Spec => []FinishIsAtomic
<1>1. SessionsInvariant => FinishIsAtomic
  BY DEF SessionsInvariant
<1> QED
  BY SessionsInvariantHolds, <1>1, PTL

(* Every timer that is not over belongs to an active session. *)
THEOREM NoTimerOutlivesItsSessionHolds == Spec => []NoTimerOutlivesItsSession
<1>1. SessionsInvariant => NoTimerOutlivesItsSession
  BY DEF SessionsInvariant
<1> QED
  BY SessionsInvariantHolds, <1>1, PTL

(***************************************************************************)
(* A step that changes a session starts one under an unused id or ends an  *)
(* active one; the finish that commits after its await is one of them      *)
(* because the lock kept its session active.                               *)
(***************************************************************************)
THEOREM EndedStaysEndedHolds == Spec => EndedStaysEnded
<1> DEFINE Kept == \A s \in Sessions :
                     session[s].status \in {"completed", "cancelled"}
                       => session'[s] = session[s]
<1>1. ASSUME SessionsInvariant, Next
      PROVE  Kept
  <2>1. CASE UNCHANGED session
    BY <2>1
  <2>2. ASSUME NEW s \in Sessions, NEW row, session' = [session EXCEPT ![s] = row],
               session[s].status \notin {"completed", "cancelled"}
        PROVE  Kept
    BY <1>1, <2>2 DEF SessionsInvariant, TypeOK
  <2>3. ASSUME NEW q \in Requests, CommitStart(q)
        PROVE  Kept
    BY <2>1, <2>2, <2>3 DEF CommitStart, NoSession
  <2>4. ASSUME NEW q \in Requests, CommitFinish(q)
        PROVE  Kept
    <3>1. req[q].session \in Sessions
      BY <1>1, <2>4
         DEF SessionsInvariant, TypeOK, CommitFinish, Idle, Starting, Finishing, Reading
    <3>2. session[req[q].session] = [owner |-> req[q].owner, status |-> "active"]
      BY <1>1, <2>4 DEF SessionsInvariant, LockProtects, CommitFinish
    <3> QED
      BY <2>2, <2>4, <3>1, <3>2 DEF CommitFinish, Complete
  <2>5. ASSUME NEW s \in Sessions, Finish(s) \/ Cancel(s)
        PROVE  Kept
    BY <2>2, <2>5 DEF Finish, Cancel, Complete, RequireActive
  <2>6. \/ UNCHANGED session
        \/ \E q \in Requests : CommitStart(q) \/ CommitFinish(q)
        \/ \E s \in Sessions : Finish(s) \/ Cancel(s)
    BY <1>1 DEF Next, SessionStep, TimerStep, Awaited, BeginStart, AbortStart, AbortFinish,
                CommitRead, ReadLocked, CreateTimer, BeginFinish, BeginRead, DeleteTimer,
                Deadline, TimerAction, Crash
  <2> QED
    BY <2>1, <2>3, <2>4, <2>5, <2>6
<1>2. SessionsInvariant /\ [Next]_vars => [Kept]_vars
  BY <1>1
<1> QED
  BY SessionsInvariantHolds, <1>2, PTL DEF Spec, EndedStaysEnded
=============================================================================

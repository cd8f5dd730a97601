--------------------------- MODULE SelectionProofs ---------------------------
(***************************************************************************)
(* Proofs about Selection, for any recipes, filters, requests and limits.  *)
(***************************************************************************)
EXTENDS Selection, SequenceTheorems, TLAPS

(* Where a request holds the lock of the owner. *)
Held == {"next", "mark", "state"}

OneHolder ==
  \A p, q \in Requests : req[p].pc \in Held /\ req[q].pc \in Held => p = q

(* The row exists once it was written, and every row that was read was it. *)
RowsExist ==
  /\ selection.filters = None => selection = NoRow
  /\ \A q \in Requests :
       /\ req[q].row.filters = None => req[q].row = NoRow
       /\ req[q].row # NoRow => selection.filters # None

(* What a mark-cooked checked before it awaits still holds. *)
MarkStillHolds ==
  \A q \in Requests : req[q].pc = "mark" =>
    /\ req[q].row = selection
    /\ selection.slug \in Recipes
    /\ req[q].fresh => cooked[selection.slug] = 0

(* The inductive invariant. *)
SelectionInvariant == TypeOK /\ OneHolder /\ RowsExist /\ MarkStillHolds /\ CookedOnce

-----------------------------------------------------------------------------
(* What is read back of the history after a selection is short enough. *)
LEMMA NewestType ==
  ASSUME NEW r \in Recipes, recent \in Seq(Recipes), Len(recent) <= RecentLimit
  PROVE  Newest(r) \in Seq(Recipes) /\ Len(Newest(r)) <= RecentLimit
<1> DEFINE s == <<r>> \o recent
           n == IF Len(recent) < RecentLimit THEN Len(recent) + 1 ELSE RecentLimit
<1>1. /\ s \in Seq(Recipes)
      /\ Len(s) = Len(recent) + 1
      /\ \A i \in 1..Len(s) : s[i] \in Recipes
  <2>1. <<r>> \in Seq(Recipes) /\ Len(<<r>>) = 1
    OBVIOUS
  <2>2. s \in Seq(Recipes) /\ Len(s) = Len(recent) + 1
    BY <2>1, ConcatProperties
  <2> QED
    BY <2>2, ElementOfSeq
<1>2. n \in 0..RecentLimit /\ n <= Len(s)
  BY <1>1, SelectionAssumption
<1>3. \A i \in 1..n : s[i] \in Recipes
  BY <1>1, <1>2
<1> HIDE DEF s, n
<1>4. SubSeq(s, 1, n) \in Seq(Recipes) /\ Len(SubSeq(s, 1, n)) <= RecentLimit
  BY <1>2, <1>3, SubSeqProperties, SelectionAssumption
<1> QED
  BY <1>4 DEF Newest, s, n

(***************************************************************************)
(* A selection that is saved exists from then on, provided that the row it *)
(* was decided on was the selection at some time.                          *)
(***************************************************************************)
LEMMA SaveKeepsRows ==
  ASSUME TypeOK, RowsExist, NEW r \in Recipes \cup {None}, NEW f \in Filters, NEW row \in Row,
         row.filters = None => row = NoRow,
         row # NoRow => selection.filters # None,
         Save(r, f, row)
  PROVE  /\ selection' \in Row
         /\ selection'.filters # None
         /\ recent' \in Seq(Recipes) /\ Len(recent') <= RecentLimit
<1>1. selection' \in Row /\ selection'.filters # None
  BY SelectionAssumption DEF Save, TypeOK, RowsExist, Row, NoRow
<1>2. recent' \in Seq(Recipes) /\ Len(recent') <= RecentLimit
  BY NewestType DEF Save, TypeOK
<1> QED
  BY <1>1, <1>2

(***************************************************************************)
(* A step of the request q, which becomes x: who takes the lock finds it   *)
(* free, and who does not have it writes nothing.                          *)
(***************************************************************************)
LEMMA StepKeepsInvariant ==
  ASSUME SelectionInvariant, NEW q \in Requests, NEW x \in Request \cup {Idle},
         req' = [req EXCEPT ![q] = x],
         x.pc \in Held => LockFree \/ req[q].pc \in Held,
         LockFree \/ req[q].pc \in Held \/ UNCHANGED <<selection, cooked>>,
         UNCHANGED offer,
         selection' \in Row,
         selection'.filters = None => selection' = NoRow,
         selection.filters # None => selection'.filters # None,
         recent' \in Seq(Recipes), Len(recent') <= RecentLimit,
         x.row.filters = None => x.row = NoRow,
         x.row # NoRow => selection'.filters # None,
         x.pc = "mark" => /\ x.row = selection'
                          /\ selection'.slug \in Recipes
                          /\ x.fresh => cooked'[selection'.slug] = 0,
         cooked' \in [Recipes -> 0..MaxCooked],
         \A r \in Recipes : cooked'[r] <= 1
  PROVE  SelectionInvariant'
<1>1. req'[q] = x /\ \A p \in Requests \ {q} : req'[p] = req[p]
  BY DEF SelectionInvariant, TypeOK
<1>2. TypeOK'
  BY DEF SelectionInvariant, TypeOK
<1>3. \A p \in Requests : req[p].pc \notin {"idle", "queued"} <=> req[p].pc \in Held
  BY DEF SelectionInvariant, TypeOK, Request, Idle, Held
<1>4. LockFree => \A p \in Requests : req[p].pc \notin Held
  BY <1>3 DEF LockFree
<1>5. OneHolder'
  BY <1>1, <1>4 DEF SelectionInvariant, OneHolder
<1>6. RowsExist'
  BY <1>1 DEF SelectionInvariant, RowsExist
<1>7. MarkStillHolds'
  <2>1. SUFFICES ASSUME NEW p \in Requests, req'[p].pc = "mark", p # q
                 PROVE  /\ req'[p].row = selection'
                        /\ selection'.slug \in Recipes
                        /\ req'[p].fresh => cooked'[selection'.slug] = 0
    BY <1>1 DEF MarkStillHolds
  <2>2. req'[p] = req[p] /\ req[p].pc \in Held
    BY <1>1, <2>1 DEF Held
  <2>3. UNCHANGED <<selection, cooked>>
    BY <1>4, <2>1, <2>2 DEF SelectionInvariant, OneHolder
  <2> QED
    BY <2>1, <2>2, <2>3 DEF SelectionInvariant, MarkStillHolds
<1> QED
  BY <1>2, <1>5, <1>6, <1>7 DEF SelectionInvariant, CookedOnce

-----------------------------------------------------------------------------
(* Nothing is selected, and nobody asks. *)
LEMMA SelectionInit == Init => SelectionInvariant
<1> SUFFICES ASSUME Init PROVE SelectionInvariant
  OBVIOUS
<1>1. TypeOK
  BY SelectionAssumption DEF Init, TypeOK, Row, NoRow
<1>2. OneHolder /\ RowsExist /\ MarkStillHolds /\ CookedOnce
  BY SelectionAssumption
     DEF Init, OneHolder, RowsExist, MarkStillHolds, CookedOnce, Held, Idle, NoRow
<1> QED
  BY <1>1, <1>2 DEF SelectionInvariant

(* What a request asks with is a request. *)
LEMMA AskingIsRequest ==
  ASSUME TypeOK, NEW pc \in {"queued", "next", "mark", "state"},
         NEW op \in {"poll", "next", "mark", "refresh"}, NEW f \in Filters,
         NEW row \in Row, NEW fresh \in BOOLEAN
  PROVE  [pc |-> pc, op |-> op, filters |-> f,
          sure |-> IF pc = "queued" THEN {} ELSE offer[f],
          maybe |-> IF pc = "queued" THEN {} ELSE offer[f],
          row |-> row, fresh |-> fresh] \in Request
BY DEF TypeOK, Request

(* The history gains at most the first row of a recipe. *)
LEMMA RecordKeepsOnce ==
  ASSUME TypeOK, CookedOnce, NEW r \in Recipes, NEW fresh \in BOOLEAN,
         fresh => cooked[r] = 0, Record(r, fresh)
  PROVE  /\ cooked' \in [Recipes -> 0..MaxCooked]
         /\ \A s \in Recipes : cooked'[s] <= 1
         /\ \A s \in Recipes : cooked[s] < cooked'[s] => s = r
         /\ fresh => cooked'[r] > 0
BY SelectionAssumption DEF TypeOK, CookedOnce, Record

LEMMA WindowKeepsInvariant ==
  ASSUME SelectionInvariant, WindowPasses
  PROVE  SelectionInvariant'
<1>1. TypeOK'
  BY SelectionAssumption DEF SelectionInvariant, TypeOK, WindowPasses
<1>2. OneHolder' /\ RowsExist' /\ MarkStillHolds' /\ CookedOnce'
  BY DEF SelectionInvariant, WindowPasses, OneHolder, RowsExist, MarkStillHolds, CookedOnce
<1> QED
  BY <1>1, <1>2 DEF SelectionInvariant

(* While the offer changes the requests go on waiting. *)
LEMMA ReofferLeavesRequests ==
  ASSUME TypeOK, NEW f \in Filters, NEW r \in Recipes, Reoffer(f, r)
  PROVE  /\ req' \in [Requests -> Request \cup {Idle}]
         /\ \A q \in Requests :
              /\ req'[q].pc = req[q].pc /\ req'[q].row = req[q].row
              /\ req'[q].fresh = req[q].fresh
<1> DEFINE x(q) == [req[q] EXCEPT !.sure = @ \ {r}, !.maybe = @ \cup {r}]
<1>1. req' = [q \in Requests |-> IF Awaiting(q) /\ req[q].filters = f THEN x(q) ELSE req[q]]
  BY DEF Reoffer
<1>2. ASSUME NEW q \in Requests, Awaiting(q)
      PROVE  /\ x(q) \in Request /\ x(q).pc = req[q].pc /\ x(q).row = req[q].row
             /\ x(q).fresh = req[q].fresh
  <2>1. req[q] \in Request
    BY <1>2 DEF TypeOK, Idle, Awaiting
  <2> QED
    BY <2>1 DEF Request
<1> HIDE DEF x
<1>3. \A q \in Requests : req[q] \in Request \cup {Idle}
  BY DEF TypeOK
<1> QED
  BY <1>1, <1>2, <1>3

LEMMA ReofferKeepsInvariant ==
  ASSUME SelectionInvariant, NEW f \in Filters, NEW r \in Recipes, Reoffer(f, r)
  PROVE  SelectionInvariant'
<1>1. TypeOK'
  BY ReofferLeavesRequests DEF SelectionInvariant, TypeOK, Reoffer
<1>2. OneHolder' /\ RowsExist' /\ MarkStillHolds' /\ CookedOnce'
  BY ReofferLeavesRequests DEF SelectionInvariant, Reoffer, OneHolder, RowsExist, MarkStillHolds, CookedOnce
<1> QED
  BY <1>1, <1>2 DEF SelectionInvariant

(* A poll, a refresh or next asks, or the lock is taken: nothing is written. *)
LEMMA BeginKeepsInvariant ==
  ASSUME SelectionInvariant, NEW q \in Requests,
         \/ \E f \in Filters : BeginPoll(q, f) \/ BeginNext(q, f)
         \/ BeginRefresh(q)
         \/ TakeLock(q)
  PROVE  SelectionInvariant'
<1> USE SelectionAssumption DEF SelectionInvariant
<1>1. /\ UNCHANGED <<offer, selection, recent, cooked>>
      /\ selection \in Row /\ recent \in Seq(Recipes) /\ Len(recent) <= RecentLimit
      /\ cooked \in [Recipes -> 0..MaxCooked] /\ \A r \in Recipes : cooked[r] <= 1
      /\ selection.filters = None => selection = NoRow
  BY DEF BeginPoll, BeginNext, BeginRefresh, TakeLock, TypeOK, CookedOnce, RowsExist
<1>2. NoRow \in Row /\ NoRow.filters = None
  BY DEF NoRow, Row
<1>3. ASSUME NEW f \in Filters, NEW pc \in {"next", "state"}, NEW op \in {"poll", "next"},
             LockFree, Ask(q, pc, op, f, NoRow)
      PROVE  SelectionInvariant'
  <2> DEFINE x == [pc |-> pc, op |-> op, filters |-> f,
                   sure |-> IF pc = "queued" THEN {} ELSE offer[f],
                   maybe |-> IF pc = "queued" THEN {} ELSE offer[f],
                   row |-> NoRow, fresh |-> FALSE]
  <2>1. x \in Request
    BY <1>2, AskingIsRequest
  <2>2. req' = [req EXCEPT ![q] = x]
    BY <1>3 DEF Ask, Asking
  <2>3. x.pc # "mark" /\ x.row = NoRow
    OBVIOUS
  <2> HIDE DEF x
  <2> QED
    BY <1>1, <1>2, <1>3, <2>1, <2>2, <2>3, StepKeepsInvariant
<1>4. ASSUME NEW f \in Filters, NEW pc \in {"queued", "state"}, NEW row \in Row,
             pc = "state" => LockFree, Ask(q, pc, "refresh", f, row),
             row.filters = None => row = NoRow, row # NoRow => selection.filters # None
      PROVE  SelectionInvariant'
  <2> DEFINE x == [pc |-> pc, op |-> "refresh", filters |-> f,
                   sure |-> IF pc = "queued" THEN {} ELSE offer[f],
                   maybe |-> IF pc = "queued" THEN {} ELSE offer[f],
                   row |-> row, fresh |-> FALSE]
  <2>1. x \in Request
    BY AskingIsRequest
  <2>2. req' = [req EXCEPT ![q] = x]
    BY <1>4 DEF Ask, Asking
  <2>3. x.pc = pc /\ x.row = row
    OBVIOUS
  <2> HIDE DEF x
  <2> QED
    BY <1>1, <1>4, <2>1, <2>2, <2>3, StepKeepsInvariant DEF Held
<1>5. CASE \E f \in Filters : BeginPoll(q, f) \/ BeginNext(q, f)
  BY <1>3, <1>5 DEF BeginPoll, BeginNext
<1>6. CASE BeginRefresh(q)
  <2>1. PICK f \in Filters : Ask(q, "queued", "refresh", f, selection)
    BY <1>6 DEF BeginRefresh, TypeOK, Row
  <2> QED
    BY <1>1, <1>4, <2>1 DEF RowsExist
<1>7. CASE TakeLock(q)
  <2>1. req[q] \in Request
    BY <1>7 DEF TakeLock, TypeOK, Idle
  <2>2. req[q].filters \in Filters /\ req[q].row \in Row
    BY <2>1 DEF Request
  <2> QED
    BY <1>4, <1>7, <2>2 DEF TakeLock, RowsExist
<1> QED
  BY <1>5, <1>6, <1>7

(* A request goes on to answer with the state, after it saved or recorded. *)
LEMMA AnswerKeepsInvariant ==
  ASSUME SelectionInvariant, NEW q \in Requests, NEW f \in Filters,
         NEW op \in {"next", "mark"}, Ask(q, "state", op, f, NoRow),
         LockFree \/ req[q].pc \in Held,
         UNCHANGED offer,
         selection' \in Row,
         selection'.filters = None => selection' = NoRow,
         selection.filters # None => selection'.filters # None,
         recent' \in Seq(Recipes), Len(recent') <= RecentLimit,
         cooked' \in [Recipes -> 0..MaxCooked],
         \A r \in Recipes : cooked'[r] <= 1
  PROVE  SelectionInvariant'
<1> DEFINE x == [pc |-> "state", op |-> op, filters |-> f, sure |-> offer[f],
                 maybe |-> offer[f],
                 row |-> NoRow, fresh |-> FALSE]
<1>1. NoRow \in Row /\ NoRow.filters = None
  BY DEF NoRow, Row
<1>2. x \in Request
  BY <1>1 DEF SelectionInvariant, TypeOK, Request
<1>3. req' = [req EXCEPT ![q] = x]
  BY DEF Ask, Asking
<1>4. x.pc # "mark" /\ x.row = NoRow
  OBVIOUS
<1> HIDE DEF x
<1> QED
  BY <1>1, <1>2, <1>3, <1>4, StepKeepsInvariant

LEMMA NextKeepsInvariant ==
  ASSUME SelectionInvariant, NEW q \in Requests, CommitNext(q)
  PROVE  SelectionInvariant'
<1>1. req[q] \in Request /\ req[q].pc \in Held /\ req[q].filters \in Filters
  BY DEF CommitNext, SelectionInvariant, TypeOK, Request, Idle, Held
<1>2. PICK C \in Lists(q) : \E r \in Choices(C, selection.slug) :
        Save(r, req[q].filters, selection)
  BY DEF CommitNext
<1>3. PICK r \in Recipes : Save(r, req[q].filters, selection)
  BY <1>1, <1>2 DEF Lists, Choices, Request, SelectionInvariant, TypeOK
<1>4. /\ selection' \in Row /\ selection'.filters # None
      /\ recent' \in Seq(Recipes) /\ Len(recent') <= RecentLimit
  BY <1>1, <1>3, SaveKeepsRows DEF SelectionInvariant, TypeOK, RowsExist
<1> QED
  BY <1>1, <1>4, AnswerKeepsInvariant DEF CommitNext, SelectionInvariant, TypeOK, CookedOnce

LEMMA MarkOnlyKeepsInvariant ==
  ASSUME SelectionInvariant, NEW q \in Requests, NEW r \in Recipes, MarkOnly(q, r)
  PROVE  SelectionInvariant'
<1>1. selection.filters \in Filters
  BY SelectionAssumption DEF SelectionInvariant, TypeOK, RowsExist, Row, NoRow, MarkOnly
<1>2. cooked' \in [Recipes -> 0..MaxCooked] /\ \A s \in Recipes : cooked'[s] <= 1
  BY RecordKeepsOnce DEF MarkOnly, Fresh, SelectionInvariant
<1> QED
  BY <1>1, <1>2, AnswerKeepsInvariant DEF MarkOnly, SelectionInvariant, TypeOK, RowsExist

LEMMA BeginMarkKeepsInvariant ==
  ASSUME SelectionInvariant, NEW q \in Requests, NEW r \in Recipes, BeginMark(q, r)
  PROVE  SelectionInvariant'
<1> DEFINE x == [pc |-> "mark", op |-> "mark", filters |-> selection.filters,
                 sure |-> offer[selection.filters],
                 maybe |-> offer[selection.filters], row |-> selection, fresh |-> Fresh(r)]
<1>1. selection \in Row /\ selection.filters \in Filters /\ selection.slug = r
  BY SelectionAssumption DEF SelectionInvariant, TypeOK, RowsExist, Row, NoRow, BeginMark
<1>2. x \in Request
  BY <1>1 DEF SelectionInvariant, TypeOK, Request, Fresh
<1>3. req' = [req EXCEPT ![q] = x]
  BY DEF BeginMark, Asking
<1>4. x.pc = "mark" /\ x.row = selection /\ (x.fresh => cooked[r] = 0)
  BY DEF Fresh
<1> HIDE DEF x
<1>5. LockFree /\ UNCHANGED <<offer, selection, recent, cooked>>
  BY DEF BeginMark
<1>6. /\ recent \in Seq(Recipes) /\ Len(recent) <= RecentLimit
      /\ cooked \in [Recipes -> 0..MaxCooked] /\ \A s \in Recipes : cooked[s] <= 1
      /\ selection.filters # None
  BY <1>1, SelectionAssumption DEF SelectionInvariant, TypeOK, CookedOnce
<1> QED
  BY <1>1, <1>2, <1>3, <1>4, <1>5, <1>6, StepKeepsInvariant

LEMMA CommitMarkKeepsInvariant ==
  ASSUME SelectionInvariant, NEW q \in Requests, CommitMark(q)
  PROVE  SelectionInvariant'
<1>1. req[q] \in Request /\ req[q].pc \in Held /\ req[q].filters \in Filters
  BY DEF CommitMark, SelectionInvariant, TypeOK, Request, Idle, Held
<1>2. req[q].row = selection /\ selection.slug \in Recipes
  BY DEF CommitMark, SelectionInvariant, MarkStillHolds
<1>3. PICK C \in Lists(q) : \E r \in Choices(C, req[q].row.slug) :
        Save(r, req[q].filters, req[q].row)
  BY DEF CommitMark
<1>4. PICK r \in Recipes : Save(r, req[q].filters, req[q].row)
  BY <1>1, <1>3 DEF Lists, Choices, Request, SelectionInvariant, TypeOK
<1>5. /\ selection' \in Row /\ selection'.filters # None
      /\ recent' \in Seq(Recipes) /\ Len(recent') <= RecentLimit
  BY <1>1, <1>2, <1>4, SaveKeepsRows DEF SelectionInvariant, TypeOK, RowsExist
<1>6. req[q].fresh \in BOOLEAN /\ (req[q].fresh => cooked[selection.slug] = 0)
  BY <1>1 DEF CommitMark, SelectionInvariant, MarkStillHolds, Request
<1>7. cooked' \in [Recipes -> 0..MaxCooked] /\ \A s \in Recipes : cooked'[s] <= 1
  BY <1>2, <1>6, RecordKeepsOnce DEF CommitMark, SelectionInvariant
<1> QED
  BY <1>1, <1>5, <1>7, AnswerKeepsInvariant DEF CommitMark

(* A request returns, and what it saved before that is a selection. *)
LEMMA ReturnKeepsInvariant ==
  ASSUME SelectionInvariant, NEW q \in Requests, req[q].pc \in Held, Return(q),
         UNCHANGED <<offer, cooked>>,
         selection' \in Row,
         selection'.filters = None => selection' = NoRow,
         selection.filters # None => selection'.filters # None,
         recent' \in Seq(Recipes), Len(recent') <= RecentLimit
  PROVE  SelectionInvariant'
<1>1. Idle.row = NoRow /\ NoRow.filters = None /\ Idle.pc \notin Held /\ Idle.pc # "mark"
  BY DEF Idle, NoRow, Held
<1>2. req' = [req EXCEPT ![q] = Idle]
  BY DEF Return
<1>3. cooked \in [Recipes -> 0..MaxCooked] /\ \A s \in Recipes : cooked[s] <= 1
  BY DEF SelectionInvariant, TypeOK, CookedOnce
<1> QED
  BY <1>1, <1>2, <1>3, StepKeepsInvariant

LEMMA FinishKeepsInvariant ==
  ASSUME SelectionInvariant, NEW q \in Requests, FinishState(q) \/ Fail(q)
  PROVE  SelectionInvariant'
<1>1. req[q] \in Request /\ req[q].pc \in Held /\ Return(q) /\ UNCHANGED <<offer, cooked>>
  BY DEF FinishState, Fail, Awaiting, SelectionInvariant, TypeOK, Idle, Held
<1>2. req[q].filters \in Filters
  BY <1>1 DEF Request
<1>3. CASE UNCHANGED <<selection, recent>>
  BY <1>1, <1>3, ReturnKeepsInvariant DEF SelectionInvariant, TypeOK, RowsExist
<1>4. CASE \E r \in Recipes \cup {None} : Save(r, req[q].filters, Decided(q))
  <2>1. /\ Decided(q) \in Row
        /\ Decided(q).filters = None => Decided(q) = NoRow
        /\ Decided(q) # NoRow => selection.filters # None
    BY <1>1, SelectionAssumption
       DEF Decided, Request, NoRow, SelectionInvariant, TypeOK, RowsExist
  <2>2. /\ selection' \in Row /\ selection'.filters # None
        /\ recent' \in Seq(Recipes) /\ Len(recent') <= RecentLimit
    BY <1>2, <1>4, <2>1, SaveKeepsRows DEF SelectionInvariant
  <2> QED
    BY <1>1, <2>2, ReturnKeepsInvariant
<1>5. UNCHANGED <<selection, recent>>
        \/ \E r \in Recipes \cup {None} : Save(r, req[q].filters, Decided(q))
  <2>1. \A C \in Lists(q) : C \subseteq Recipes
    BY <1>1, <1>2 DEF Lists, Request, SelectionInvariant, TypeOK
  <2> QED
    BY <2>1 DEF FinishState, Fail
<1> QED
  BY <1>3, <1>4, <1>5

-----------------------------------------------------------------------------
LEMMA NextStepKeepsInvariant == SelectionInvariant /\ [Next]_vars => SelectionInvariant'
<1> SUFFICES ASSUME SelectionInvariant, [Next]_vars PROVE SelectionInvariant'
  OBVIOUS
<1>1. CASE WindowPasses
  BY <1>1, WindowKeepsInvariant
<1>2. CASE \E f \in Filters, r \in Recipes : Reoffer(f, r)
  BY <1>2, ReofferKeepsInvariant
<1>3. ASSUME NEW q \in Requests,
             \/ \E f \in Filters : BeginPoll(q, f) \/ BeginNext(q, f)
             \/ BeginRefresh(q)
             \/ TakeLock(q)
      PROVE  SelectionInvariant'
  BY <1>3, BeginKeepsInvariant
<1>4. ASSUME NEW q \in Requests, NEW r \in Recipes, MarkOnly(q, r) \/ BeginMark(q, r)
      PROVE  SelectionInvariant'
  BY <1>4, MarkOnlyKeepsInvariant, BeginMarkKeepsInvariant
<1>5. ASSUME NEW q \in Requests, CommitNext(q) \/ CommitMark(q)
      PROVE  SelectionInvariant'
  BY <1>5, NextKeepsInvariant, CommitMarkKeepsInvariant
<1>6. ASSUME NEW q \in Requests, FinishState(q) \/ Fail(q)
      PROVE  SelectionInvariant'
  BY <1>6, FinishKeepsInvariant
<1>7. CASE UNCHANGED vars
  BY <1>7 DEF vars, SelectionInvariant, TypeOK, OneHolder, RowsExist, MarkStillHolds, CookedOnce
<1> QED
  BY <1>1, <1>2, <1>3, <1>4, <1>5, <1>6, <1>7 DEF Next

(***************************************************************************)
(* The rows stay well typed and the history short; one request at a time   *)
(* holds the owner's lock, and what a mark-cooked checked before it awaits *)
(* still holds when it goes on; a selection once saved always exists.      *)
(***************************************************************************)
THEOREM SelectionInvariantHolds == Spec => []SelectionInvariant
BY SelectionInit, NextStepKeepsInvariant, PTL DEF Spec

(***************************************************************************)
(* The tables of app/home_assistant.py and app/cooking_history.py are well *)
(* typed in every state.                                                   *)
(***************************************************************************)
THEOREM SelectionTypeOK == Spec => []TypeOK
<1>1. SelectionInvariant => TypeOK
  BY DEF SelectionInvariant
<1> QED
  BY <1>1, SelectionInvariantHolds, PTL

(***************************************************************************)
(* mark-cooked, repeated or not, never leaves two rows of one recipe in    *)
(* five minutes.                                                           *)
(***************************************************************************)
THEOREM CookedOnceHolds == Spec => []CookedOnce
<1>1. SelectionInvariant => CookedOnce
  BY DEF SelectionInvariant
<1> QED
  BY <1>1, SelectionInvariantHolds, PTL

(* One step records the selected recipe, and only a mark-cooked does. *)
LEMMA StepRecordsSelected ==
  ASSUME SelectionInvariant, [Next]_vars
  PROVE  /\ \A r \in Recipes : cooked[r] < cooked'[r] => selection.slug = r
         /\ \A q \in Requests :
              req[q].pc = "mark" /\ req'[q].pc = "state" =>
                ~req[q].fresh \/ cooked'[req[q].row.slug] > 0
<1> DEFINE Recorded == \A r \in Recipes : cooked[r] < cooked'[r] => selection.slug = r
           Moved(q) == req[q].pc = "mark" /\ req'[q].pc = "state"
           Found(q) == ~req[q].fresh \/ cooked'[req[q].row.slug] > 0
<1> USE DEF SelectionInvariant
<1>0. Idle.pc = "idle"
  BY DEF Idle
<1>1. CASE WindowPasses
  <2>1. Recorded
    BY <1>1, SelectionAssumption DEF WindowPasses, TypeOK
  <2>2. \A q \in Requests : ~Moved(q)
    BY <1>1 DEF WindowPasses
  <2> QED
    BY <2>1, <2>2
<1>2. CASE cooked' = cooked /\ \A q \in Requests : ~Moved(q)
  BY <1>2 DEF TypeOK
<1>3. ASSUME NEW p \in Requests, NEW r \in Recipes, MarkOnly(p, r)
      PROVE  Recorded /\ \A q \in Requests : ~Moved(q)
  <2>1. Recorded
    BY <1>3, RecordKeepsOnce DEF MarkOnly, Fresh
  <2>2. \A q \in Requests : ~Moved(q)
    BY <1>0, <1>3 DEF MarkOnly, Ask, Asking, TypeOK
  <2> QED
    BY <2>1, <2>2
<1>4. ASSUME NEW p \in Requests, CommitMark(p)
      PROVE  Recorded /\ \A q \in Requests : Moved(q) => Found(q)
  <2>1. req[p] \in Request /\ req[p].fresh \in BOOLEAN
    BY <1>4 DEF CommitMark, TypeOK, Idle, Request
  <2>2. /\ req[p].row = selection /\ selection.slug \in Recipes
        /\ req[p].fresh => cooked[selection.slug] = 0
    BY <1>4 DEF CommitMark, MarkStillHolds
  <2>3. Recorded /\ (req[p].fresh => cooked'[selection.slug] > 0)
    BY <1>4, <2>1, <2>2, RecordKeepsOnce DEF CommitMark
  <2>4. \A q \in Requests \ {p} : ~Moved(q)
    BY <1>4 DEF CommitMark, Ask, Asking, TypeOK
  <2> QED
    BY <2>2, <2>3, <2>4
<1>5. CASE \E f \in Filters, r \in Recipes : Reoffer(f, r)
  <2>1. cooked' = cooked /\ \A q \in Requests : req'[q].pc = req[q].pc
    BY <1>5, ReofferLeavesRequests DEF Reoffer
  <2> QED
    BY <1>2, <2>1
<1>6. ASSUME NEW p \in Requests,
             \/ \E f \in Filters : BeginPoll(p, f) \/ BeginNext(p, f)
             \/ \E r \in Recipes : BeginMark(p, r)
             \/ BeginRefresh(p) \/ TakeLock(p)
             \/ CommitNext(p) \/ FinishState(p) \/ Fail(p)
      PROVE  cooked' = cooked /\ \A q \in Requests : ~Moved(q)
  BY <1>0, <1>6
     DEF BeginPoll, BeginNext, BeginMark, BeginRefresh, TakeLock, CommitNext,
         FinishState, Fail, Return, Ask, Asking, TypeOK
<1> QED
  BY <1>1, <1>2, <1>3, <1>4, <1>5, <1>6 DEF Next, vars

(***************************************************************************)
(* What mark-cooked records is the recipe selected at that moment, and it  *)
(* moves on only from a recipe that is recorded.                           *)
(***************************************************************************)
THEOREM CookedMovesOnHolds == Spec => CookedMovesOn
BY SelectionInvariantHolds, StepRecordsSelected, PTL DEF Spec, CookedMovesOn

(* An answer that finds the selection valid, in any list it got, keeps it. *)
LEMMA StepKeepsValid ==
  ASSUME SelectionInvariant, [Next]_vars, NEW q \in Requests,
         Finishes(q), req[q].op # "refresh", ValidFor(q)
  PROVE  selection' = selection
<1> USE DEF SelectionInvariant
<1>1. CASE FinishState(q)
  <2>1. Decided(q) = selection
    BY DEF Decided
  <2>2. \A C \in Lists(q) : Keeps(selection, req[q].filters, C)
    BY DEF Lists, Keeps, ValidFor
  <2> QED
    BY <1>1, <2>1, <2>2 DEF FinishState
<1>2. CASE Fail(q)
  BY <1>2 DEF Fail
<1>3. req'[q].pc # req[q].pc
  BY DEF Finishes
<1>4. ASSUME NEW p \in Requests,
             \/ \E f \in Filters : BeginPoll(p, f) \/ BeginNext(p, f)
             \/ \E r \in Recipes : MarkOnly(p, r) \/ BeginMark(p, r)
             \/ BeginRefresh(p) \/ TakeLock(p) \/ CommitNext(p) \/ CommitMark(p)
      PROVE  FALSE
  <2>1. \/ p = q /\ req'[q].pc \in {"queued", "next", "mark", "state"}
        \/ p # q /\ req'[q] = req[q]
    BY <1>4
       DEF BeginPoll, BeginNext, MarkOnly, BeginMark, BeginRefresh, TakeLock, CommitNext,
           CommitMark, Ask, Asking, TypeOK
  <2> QED
    BY <2>1 DEF Finishes
<1>5. ASSUME NEW p \in Requests \ {q}, FinishState(p) \/ Fail(p) PROVE FALSE
  BY <1>5 DEF FinishState, Fail, Return, Finishes, TypeOK
<1>6. CASE WindowPasses \/ (\E f \in Filters, r \in Recipes : Reoffer(f, r)) \/ UNCHANGED vars
  BY <1>3, <1>6, ReofferLeavesRequests DEF WindowPasses, vars
<1> QED
  BY <1>1, <1>2, <1>4, <1>5, <1>6 DEF Next

(***************************************************************************)
(* A poll, and the answer to next and to mark-cooked, leaves a selection   *)
(* alone that its own filters offer all the while, whatever other requests *)
(* do in between.                                                          *)
(***************************************************************************)
THEOREM PollKeepsValidSelectionHolds == Spec => PollKeepsValidSelection
<1>1. SelectionInvariant /\ [Next]_vars =>
        \A q \in Requests :
          Finishes(q) /\ req[q].op # "refresh" /\ ValidFor(q) => selection' = selection
  BY StepKeepsValid
<1> QED
  BY <1>1, SelectionInvariantHolds, PTL DEF Spec, PollKeepsValidSelection
=============================================================================

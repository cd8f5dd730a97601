----------------------------- MODULE PantryProofs -----------------------------
(***************************************************************************)
(* Proofs about Pantry, for any items, reviews, shopping rows and number   *)
(* of requests at once.                                                    *)
(***************************************************************************)
EXTENDS Pantry, SequenceTheorems, WellFoundedInduction, TLAPS

(* What a request of each kind handles, and that it has read it. *)
WellFormed ==
  \A q \in Requests :
    /\ req[q].op \in {"confirm", "dismiss", "undo"} => req[q].review \in Reviews
    /\ req[q].op \in {"restock", "complete", "create"} \cup RowOps => req[q].row \in Rows
    /\ req[q].op = "add" => req[q].name \in Items
    /\ req[q].op = "confirm" => OncePerItem(req[q].lines)
    /\ req[q].op = "restock" => Len(req[q].lines) = 1
    /\ req[q].lines # <<>> => req[q].op \in {"confirm", "restock"} /\ req[q].seen \in Stocked
    /\ req[q].os # <<>> =>
         req[q].op = "undo" /\ req[q].seen \in Stocked /\ req[q].os[1].item # None

(* Two requests that handle something at once have been noticed. *)
Noticed ==
  \A p, q \in Requests : p # q => Handles(req[p]) \cap Handles(req[q]) \subseteq raced

(* The first stock that a request read is what there is. *)
SeenIsCurrent ==
  \A q \in Requests :
    /\ req[q].lines # <<>> /\ req[q].lines[1].item \notin raced =>
         req[q].seen = stock[req[q].lines[1].item]
    /\ req[q].os # <<>> /\ req[q].os[1].item \notin raced =>
         req[q].seen = stock[req[q].os[1].item]

(* What is not confirmed yet is in no ledger. *)
NothingTakenYet ==
  \A v \in Reviews : review[v] \in {"absent", "pending"} => originals[v] = <<>> /\ ~undone[v]

(* What was withdrawn once is not withdrawn again for the same review. *)
NotTakenAgain ==
  \A q \in Requests : req[q].op = "confirm" =>
    \A i \in ItemsOf(req[q].lines) \ raced : i \notin ItemsOf(originals[req[q].review])

(* An item is in a list of withdrawals once. *)
Once(os, i) == \A k, l \in DOMAIN os : os[k].item = i /\ os[l].item = i => k = l

WithdrawnOnce ==
  \A i \in CalmItems :
    /\ \A v \in Reviews : Once(originals[v], i)
    /\ \A q \in Requests : Once(req[q].os, i)

(* What a request knows of its review is so. *)
ReviewIsCurrent ==
  \A q \in Requests :
    LET v == req[q].review IN
    v \in CalmReviews =>
      /\ req[q].op \in {"confirm", "dismiss"} => review[v] = "pending"
      /\ req[q].op = "undo" =>
           /\ review[v] = "confirmed"
           /\ ~undone[v]
           /\ DOMAIN originals[v] = DOMAIN req[q].os
           /\ \A k \in DOMAIN req[q].os :
                /\ originals[v][k].item = req[q].os[k].item \/ req[q].os[k].item \in raced \cup {None}
                /\ originals[v][k].item \in {req[q].os[k].item, None}
                /\ originals[v][k].before = req[q].os[k].before
                /\ originals[v][k].after = req[q].os[k].after

(* The inductive invariant. *)
PantryInvariant ==
  /\ TypeOK
  /\ WellFormed
  /\ Noticed
  /\ SeenIsCurrent
  /\ NothingTakenYet
  /\ NotTakenAgain
  /\ WithdrawnOnce
  /\ ReviewIsCurrent
  /\ ReviewMatchesLedger
  /\ LedgerExplainsStock

-----------------------------------------------------------------------------
(* Sequences and requests *)

LEMMA SeqFacts ==
  ASSUME NEW S, NEW s \in Seq(S)
  PROVE  /\ Len(s) \in Nat /\ DOMAIN s = 1..Len(s)
         /\ \A k \in DOMAIN s : s[k] \in S /\ k \in Nat
         /\ s = <<>> <=> DOMAIN s = {}
         /\ s # <<>> => 1 \in DOMAIN s
<1>1. Len(s) \in Nat /\ DOMAIN s = 1..Len(s)
  BY LenProperties
<1>2. s = <<>> <=> Len(s) = 0
  BY EmptySeq
<1> QED
  BY <1>1, <1>2, ElementOfSeq

LEMMA EmptyFacts ==
  /\ <<>> \in Seq(Line) /\ <<>> \in Seq(Entry) /\ DOMAIN <<>> = {} /\ Len(<<>>) = 0
  /\ ItemsOf(<<>>) = {}
BY EmptySeq DEF ItemsOf

LEMMA ItemsOfLines ==
  ASSUME NEW s \in Seq(Line)
  PROVE  /\ ItemsOf(s) = {s[k].item : k \in DOMAIN s}
         /\ ItemsOf(s) \subseteq Items
<1>1. \A k \in DOMAIN s : s[k].item \in Items
  <2>1. \A k \in DOMAIN s : s[k] \in Line
    BY SeqFacts
  <2> QED
    BY <2>1 DEF Line
<1> QED
  BY <1>1, PantryAssumption DEF ItemsOf

LEMMA ItemsOfEntries ==
  ASSUME NEW s \in Seq(Entry)
  PROVE  ItemsOf(s) \subseteq Items
<1>1. \A k \in DOMAIN s : s[k].item \in Items \cup {None}
  <2>1. \A k \in DOMAIN s : s[k] \in Entry
    BY SeqFacts
  <2> QED
    BY <2>1 DEF Entry
<1> QED
  BY <1>1 DEF ItemsOf

LEMMA IdleFacts ==
  /\ Idle.op = "idle" /\ Idle.review = None /\ Idle.row = None /\ Idle.name = None
  /\ Idle.lines = <<>> /\ Idle.seen = None /\ Idle.os = <<>>
  /\ Handles(Idle) = {}
BY EmptyFacts DEF Idle, Handles

LEMMA RequestTypes ==
  ASSUME TypeOK, NEW q \in Requests
  PROVE  /\ req[q] # Idle => req[q] \in Request
         /\ req[q].lines \in Seq(Line) /\ req[q].os \in Seq(Entry)
         /\ req[q].seen \in Stocked \cup {None}
         /\ req[q].review \in Reviews \cup {None} /\ req[q].row \in Rows \cup {None}
         /\ Handles(req[q]) \subseteq Items \cup Reviews
         /\ req[q].op # "idle" => req[q] \in Request
<1>1. req[q] \in Request \cup {Idle}
  BY DEF TypeOK
<1>2. /\ req[q].lines \in Seq(Line) /\ req[q].os \in Seq(Entry)
      /\ req[q].seen \in Stocked \cup {None}
      /\ req[q].review \in Reviews \cup {None} /\ req[q].row \in Rows \cup {None}
  BY <1>1, IdleFacts, EmptyFacts DEF Request
<1>3. Handles(req[q]) \subseteq Items \cup Reviews
  BY <1>2, ItemsOfLines, ItemsOfEntries DEF Handles
<1> QED
  BY <1>1, <1>2, <1>3, IdleFacts

(* What an item is, is no sequence position and no quantity. *)
LEMMA Distinct ==
  /\ None \notin Items /\ None \notin Reviews /\ None \notin Rows
  /\ Unknown \notin Nat /\ Gone \notin Nat /\ NoEntry \notin Nat /\ All \notin Nat
  /\ Unknown # Gone /\ Unknown # NoEntry
  /\ Gone \notin Stocked /\ NoEntry \notin Stocked /\ Quantities \subseteq Nat
BY PantryAssumption DEF Stocked, Quantities

LEMMA PantryInit == Init => PantryInvariant
<1> SUFFICES ASSUME Init PROVE PantryInvariant
  OBVIOUS
<1>1. TypeOK
  BY EmptyFacts DEF Init, TypeOK
<1>2. \A q \in Requests : req[q] = Idle
  BY DEF Init
<1>3. WellFormed /\ Noticed /\ SeenIsCurrent /\ NotTakenAgain /\ ReviewIsCurrent
  BY <1>2, IdleFacts, PantryAssumption
     DEF WellFormed, Noticed, SeenIsCurrent, NotTakenAgain, ReviewIsCurrent, RowOps, CalmReviews
<1>4. NothingTakenYet /\ WithdrawnOnce /\ ReviewMatchesLedger /\ LedgerExplainsStock
  BY <1>2, IdleFacts, EmptyFacts
     DEF Init, NothingTakenYet, WithdrawnOnce, Once, ReviewMatchesLedger, LedgerExplainsStock,
         CalmReviews, CalmItems
<1> QED
  BY <1>1, <1>3, <1>4 DEF PantryInvariant

-----------------------------------------------------------------------------
(***************************************************************************)
(* A request begins as r, and has read what there is.                      *)
(***************************************************************************)
(* r is as WellFormed demands. *)
Fitting(r) ==
  /\ r.op \in {"confirm", "dismiss", "undo"} => r.review \in Reviews
  /\ r.op \in {"restock", "complete", "create"} \cup RowOps => r.row \in Rows
  /\ r.op = "add" => r.name \in Items
  /\ r.op = "confirm" => OncePerItem(r.lines)
  /\ r.op = "restock" => Len(r.lines) = 1
  /\ r.lines # <<>> => r.op \in {"confirm", "restock"} /\ r.seen \in Stocked
  /\ r.os # <<>> => r.op = "undo" /\ r.seen \in Stocked /\ r.os[1].item # None

LEMMA FittingRequests == WellFormed <=> \A q \in Requests : Fitting(req[q])
BY DEF WellFormed, Fitting

LEMMA InHandContains ==
  ASSUME NEW Q, NEW p \in Requests \ Q
  PROVE  Handles(req[p]) \subseteq InHand(Q)
BY DEF InHand

LEMMA BeginKeepsInvariant ==
  ASSUME PantryInvariant, NEW q \in Requests, NEW r \in Request, Begin(q, r),
         UNCHANGED <<stock, review, undone, candidates, originals, logged, shop>>,
         Fitting(r),
         r.lines # <<>> => r.seen = stock[r.lines[1].item],
         r.os # <<>> => r.seen = stock[r.os[1].item],
         r.op = "confirm" => originals[r.review] = <<>>,
         \A i \in CalmItems : Once(r.os, i),
         r.op \in {"confirm", "dismiss"} => review[r.review] = "pending",
         r.op = "undo" =>
           review[r.review] = "confirmed" /\ ~undone[r.review] /\ r.os = originals[r.review]
  PROVE  PantryInvariant'
<1> USE DEF PantryInvariant
<1>1. /\ req' = [req EXCEPT ![q] = r]
      /\ raced' = raced \cup (Handles(r) \cap InHand({q}))
  BY DEF Begin
<1>2. /\ req'[q] = r
      /\ \A p \in Requests \ {q} : req'[p] = req[p]
      /\ req' \in [Requests -> Request \cup {Idle}]
      /\ raced \subseteq raced'
  BY <1>1 DEF TypeOK
<1>3. TypeOK'
  <2>1. Handles(r) \subseteq Items \cup Reviews
    BY <1>2, ItemsOfLines, ItemsOfEntries DEF Request, Handles
  <2> QED
    BY <1>1, <1>2, <2>1 DEF TypeOK
<1>4. WellFormed'
  <2>1. \A p \in Requests : Fitting(req'[p])
    BY <1>2, FittingRequests
  <2> QED
    BY <2>1 DEF WellFormed, Fitting
<1>5. Noticed'
  <2>1. \A p \in Requests \ {q} : Handles(r) \cap Handles(req[p]) \subseteq raced'
    BY <1>1, InHandContains
  <2>2. \A s, t \in Requests \ {q} : s # t => Handles(req[s]) \cap Handles(req[t]) \subseteq raced'
    BY <1>2 DEF Noticed
  <2>3. \A s, t \in Requests : s # t => Handles(req'[s]) \cap Handles(req'[t]) \subseteq raced'
    BY <1>2, <2>1, <2>2
  <2> QED
    BY <2>3 DEF Noticed, Handles
<1>6. SeenIsCurrent'
  BY <1>2 DEF SeenIsCurrent
<1>7. NothingTakenYet'
  BY DEF NothingTakenYet
<1>8. NotTakenAgain'
  <2>1. r.op = "confirm" => ItemsOf(originals[r.review]) = {}
    BY EmptyFacts
  <2> QED
    BY <1>2, <2>1 DEF NotTakenAgain, ItemsOf
<1>9. WithdrawnOnce'
  BY <1>2 DEF WithdrawnOnce, CalmItems, Once
<1>10. ReviewIsCurrent'
  BY <1>2 DEF ReviewIsCurrent, CalmReviews
<1>11. ReviewMatchesLedger' /\ LedgerExplainsStock'
  BY <1>2 DEF ReviewMatchesLedger, LedgerExplainsStock, CalmReviews, CalmItems
<1> QED
  BY <1>3, <1>4, <1>5, <1>6, <1>7, <1>8, <1>9, <1>10, <1>11

LEMMA LinesAreSequences == Lines \subseteq Seq(Line)
<1> SUFFICES ASSUME NEW n \in 0..MaxLines, NEW s \in [1..n -> [item: Items, take: (Quantities \ {0}) \cup {All}]]
             PROVE  s \in Seq(Line)
  BY DEF Lines
<1>1. [item: Items, take: (Quantities \ {0}) \cup {All}] \subseteq Line
  BY DEF Line
<1>2. s \in [1..n -> Line] /\ n \in Nat
  BY <1>1, PantryAssumption
<1> QED
  BY <1>2, SeqDef

LEMMA BeginConfirmKeepsInvariant ==
  ASSUME PantryInvariant, NEW q \in Requests, NEW v \in Reviews, NEW lines \in Lines,
         BeginConfirm(q, v, lines)
  PROVE  PantryInvariant'
<1> DEFINE seen == IF lines = <<>> THEN None ELSE stock[lines[1].item]
           r == Asking("confirm", v, None, lines, seen, <<>>)
<1>1. /\ review[v] = "pending" /\ OncePerItem(lines)
      /\ lines # <<>> => MayTake(stock[lines[1].item], lines[1].take)
      /\ Begin(q, r) /\ UNCHANGED <<stock, review, undone, candidates, originals, logged, shop>>
  BY DEF BeginConfirm
<1>2. lines \in Seq(Line)
  BY LinesAreSequences
<1>3. lines # <<>> => lines[1].item \in Items
  <2>1. lines # <<>> => lines[1] \in Line
    BY <1>2, SeqFacts
  <2> QED
    BY <2>1 DEF Line
<1>4. lines # <<>> => seen \in Stocked
  BY <1>1, <1>3 DEF MayTake, PantryInvariant, TypeOK
<1>5. seen \in Stocked \cup {None}
  BY <1>4
<1>6. originals[v] = <<>>
  BY <1>1 DEF PantryInvariant, NothingTakenYet
<1>7. seen = stock[lines[1].item] \/ lines = <<>>
  OBVIOUS
<1> HIDE DEF seen
<1>8. /\ r \in Request /\ r.op = "confirm" /\ r.review = v /\ r.lines = lines /\ r.os = <<>>
      /\ r.seen = seen
  BY <1>2, <1>5, EmptyFacts DEF Asking, Request
<1>9. Fitting(r) /\ \A i : Once(r.os, i)
  BY <1>1, <1>4, <1>8, EmptyFacts DEF Fitting, Once, RowOps
<1> HIDE DEF r
<1> QED
  BY <1>1, <1>6, <1>7, <1>8, <1>9, BeginKeepsInvariant

LEMMA BeginUndoKeepsInvariant ==
  ASSUME PantryInvariant, NEW q \in Requests, NEW v \in Reviews, BeginUndo(q, v)
  PROVE  PantryInvariant'
<1> DEFINE os == originals[v]
           seen == IF os = <<>> THEN None ELSE stock[os[1].item]
           r == Asking("undo", v, None, <<>>, seen, os)
<1>1. /\ review[v] = "confirmed" /\ ~undone[v]
      /\ os # <<>> => os[1].item # None /\ stock[os[1].item] = os[1].after
      /\ Begin(q, r) /\ UNCHANGED <<stock, review, undone, candidates, originals, logged, shop>>
  BY DEF BeginUndo
<1>2. os \in Seq(Entry)
  BY DEF PantryInvariant, TypeOK
<1>3. os # <<>> => os[1].after \in Stocked
  <2>1. os # <<>> => os[1] \in Entry
    BY <1>2, SeqFacts
  <2> QED
    BY <2>1 DEF Entry
<1>4. os # <<>> => seen \in Stocked
  BY <1>1, <1>3
<1>5. seen \in Stocked \cup {None}
  BY <1>4
<1>6. \A i \in CalmItems : Once(os, i)
  BY DEF PantryInvariant, WithdrawnOnce
<1>7. seen = stock[os[1].item] \/ os = <<>>
  OBVIOUS
<1> HIDE DEF seen, os
<1>8. /\ r \in Request /\ r.op = "undo" /\ r.review = v /\ r.lines = <<>> /\ r.os = os
      /\ r.seen = seen
  BY <1>2, <1>5, EmptyFacts DEF Asking, Request
<1>9. Fitting(r)
  BY <1>1, <1>4, <1>8 DEF Fitting, RowOps
<1>10. r.os = originals[r.review]
  BY <1>8 DEF os
<1> HIDE DEF r
<1> QED
  BY <1>1, <1>6, <1>7, <1>8, <1>9, <1>10, BeginKeepsInvariant

(* A request that handles rows of the shopping list, or dismisses a review. *)
LEMMA BeginRestockKeepsInvariant ==
  ASSUME PantryInvariant, NEW q \in Requests, NEW row \in Rows, NEW i \in Items,
         BeginRestock(q, row, i)
  PROVE  PantryInvariant'
<1> DEFINE lines == <<[item |-> i, take |-> 0]>>
           r == Asking("restock", None, row, lines, stock[i], <<>>)
<1>1. /\ stock[i] # Gone
      /\ Begin(q, r) /\ UNCHANGED <<stock, review, undone, candidates, originals, logged, shop>>
  BY DEF BeginRestock
<1>2. lines \in Seq(Line) /\ Len(lines) = 1 /\ lines[1].item = i /\ lines # <<>>
  BY PantryAssumption DEF Line, Quantities
<1>3. stock[i] \in Stocked
  BY <1>1 DEF PantryInvariant, TypeOK
<1> HIDE DEF lines
<1>4. /\ r \in Request /\ r.op = "restock" /\ r.row = row /\ r.lines = lines /\ r.os = <<>>
      /\ r.seen = stock[i]
  BY <1>2, <1>3, EmptyFacts DEF Asking, Request
<1>5. Fitting(r) /\ \A j : Once(r.os, j)
  BY <1>2, <1>3, <1>4, EmptyFacts DEF Fitting, Once
<1> HIDE DEF r
<1> QED
  BY <1>1, <1>2, <1>4, <1>5, BeginKeepsInvariant

LEMMA BeginOtherKeepsInvariant ==
  ASSUME PantryInvariant, NEW q \in Requests,
         \/ \E v \in Reviews : BeginDismiss(q, v)
         \/ \E row \in Rows : BeginComplete(q, row) \/ \E op \in RowOps : BeginRow(q, row, op)
         \/ \E i \in Items : BeginAdd(q, i)
  PROVE  PantryInvariant'
<1> SUFFICES ASSUME NEW r, Begin(q, r),
                    UNCHANGED <<stock, review, undone, candidates, originals, logged, shop>>,
                    r \in Request, r.lines = <<>>, r.os = <<>>, Fitting(r), r.op \notin {"confirm", "undo"},
                    r.op = "dismiss" => review[r.review] = "pending"
             PROVE  PantryInvariant'
  <2>1. CASE \E v \in Reviews : BeginDismiss(q, v)
    <3>1. PICK v \in Reviews : BeginDismiss(q, v)
      BY <2>1
    <3> DEFINE r == Asking("dismiss", v, None, <<>>, None, <<>>)
    <3>2. /\ r \in Request /\ r.lines = <<>> /\ r.os = <<>> /\ r.op = "dismiss" /\ r.review = v
          /\ Fitting(r)
      BY EmptyFacts DEF Asking, Request, Fitting, RowOps
    <3> QED
      BY <3>1, <3>2 DEF BeginDismiss
  <2>2. CASE \E row \in Rows : BeginComplete(q, row)
    <3>1. PICK row \in Rows, op \in {"complete", "create"} :
            /\ Begin(q, Asking(op, None, row, <<>>, None, <<>>))
            /\ UNCHANGED <<stock, review, undone, candidates, originals, logged, shop>>
      BY <2>2 DEF BeginComplete
    <3> DEFINE r == Asking(op, None, row, <<>>, None, <<>>)
    <3>2. r \in Request /\ r.lines = <<>> /\ r.os = <<>> /\ r.op = op /\ Fitting(r)
      BY EmptyFacts DEF Asking, Request, Fitting, RowOps
    <3> QED
      BY <3>1, <3>2
  <2>3. CASE \E row \in Rows : \E op \in RowOps : BeginRow(q, row, op)
    <3>1. PICK row \in Rows, op \in RowOps : BeginRow(q, row, op)
      BY <2>3
    <3> DEFINE r == AskingFor(op, row, None)
    <3>2. r \in Request /\ r.lines = <<>> /\ r.os = <<>> /\ r.op = op /\ Fitting(r)
      BY EmptyFacts DEF AskingFor, Request, Fitting, RowOps
    <3> QED
      BY <3>1, <3>2 DEF BeginRow, RowOps
  <2>4. CASE \E i \in Items : BeginAdd(q, i)
    <3>1. PICK i \in Items : BeginAdd(q, i)
      BY <2>4
    <3> DEFINE r == AskingFor("add", None, i)
    <3>2. r \in Request /\ r.lines = <<>> /\ r.os = <<>> /\ r.op = "add" /\ Fitting(r)
      BY EmptyFacts DEF AskingFor, Request, Fitting, RowOps
    <3> QED
      BY <3>1, <3>2 DEF BeginAdd
  <2> QED
    BY <2>1, <2>2, <2>3, <2>4
<1>1. \A i : Once(r.os, i)
  BY EmptyFacts DEF Once
<1> QED
  BY <1>1, BeginKeepsInvariant

-----------------------------------------------------------------------------
(***************************************************************************)
(* A request returns, and what it handled is nobody else's unless noticed. *)
(***************************************************************************)
(* What a request has in its lists, it handles. *)
LEMMA ListsAreHandled ==
  ASSUME TypeOK, NEW q \in Requests
  PROVE  /\ \A k \in DOMAIN req[q].lines :
              req[q].lines[k].item \in Handles(req[q]) /\ req[q].lines[k].item \in Items
         /\ \A k \in DOMAIN req[q].os : req[q].os[k].item # None =>
              req[q].os[k].item \in Handles(req[q]) /\ req[q].os[k].item \in Items
         /\ req[q].lines # <<>> => 1 \in DOMAIN req[q].lines
         /\ req[q].os # <<>> => 1 \in DOMAIN req[q].os
         /\ req[q].review \in Reviews => req[q].review \in Handles(req[q])
<1>1. req[q].lines \in Seq(Line) /\ req[q].os \in Seq(Entry)
  BY RequestTypes
<1>2. ItemsOf(req[q].lines) = {req[q].lines[k].item : k \in DOMAIN req[q].lines}
      /\ ItemsOf(req[q].lines) \subseteq Items /\ ItemsOf(req[q].os) \subseteq Items
  BY <1>1, ItemsOfLines, ItemsOfEntries
<1>3. \A k \in DOMAIN req[q].os : req[q].os[k].item # None => req[q].os[k].item \in ItemsOf(req[q].os)
  BY DEF ItemsOf
<1>4. /\ req[q].lines # <<>> => 1 \in DOMAIN req[q].lines
      /\ req[q].os # <<>> => 1 \in DOMAIN req[q].os
  BY <1>1, SeqFacts
<1> QED
  BY <1>2, <1>3, <1>4, Distinct DEF Handles

(* The conditions on requests, when q becomes idle and nobody else changes. *)
LEMMA ReturnRequests ==
  ASSUME PantryInvariant, NEW q \in Requests, Return(q), raced \subseteq raced'
  PROVE  /\ req'[q] = Idle
         /\ \A p \in Requests \ {q} : req'[p] = req[p]
         /\ req' \in [Requests -> Request \cup {Idle}]
         /\ WellFormed'
         /\ Noticed'
<1> USE DEF PantryInvariant
<1>1. /\ req'[q] = Idle
      /\ \A p \in Requests \ {q} : req'[p] = req[p]
      /\ req' \in [Requests -> Request \cup {Idle}]
  BY DEF Return, TypeOK
<1>2. WellFormed'
  <2>1. \A p \in Requests : Fitting(req'[p])
    BY <1>1, IdleFacts, FittingRequests, EmptyFacts DEF Fitting, RowOps
  <2> QED
    BY <2>1 DEF WellFormed, Fitting
<1>3. Noticed'
  <2>1. \A s, t \in Requests : s # t => Handles(req'[s]) \cap Handles(req'[t]) \subseteq raced'
    BY <1>1, IdleFacts DEF Noticed
  <2> QED
    BY <2>1 DEF Noticed, Handles
<1> QED
  BY <1>1, <1>2, <1>3

LEMMA NotTakenAgainStays ==
  ASSUME NotTakenAgain, originals' = originals, raced \subseteq raced',
         \A p \in Requests : req'[p] = req[p] \/ req'[p] = Idle
  PROVE  NotTakenAgain'
BY IdleFacts DEF NotTakenAgain, ItemsOf

(* The handler of a row, or one that is refused, leaves the rest alone. *)
LEMMA ReturnKeepsInvariant ==
  ASSUME PantryInvariant, NEW q \in Requests, Return(q),
         UNCHANGED <<stock, review, undone, candidates, originals, logged, raced>>,
         shop' \in [Rows -> ShopRow \cup {NoRow}]
  PROVE  PantryInvariant'
<1> USE DEF PantryInvariant
<1>1. /\ req'[q] = Idle
      /\ \A p \in Requests \ {q} : req'[p] = req[p]
      /\ req' \in [Requests -> Request \cup {Idle}]
      /\ WellFormed' /\ Noticed'
  BY ReturnRequests
<1>2. TypeOK'
  BY <1>1 DEF TypeOK
<1>3. SeenIsCurrent' /\ NotTakenAgain'
  BY <1>1, IdleFacts DEF SeenIsCurrent, NotTakenAgain, ItemsOf
<1>4. NothingTakenYet' /\ ReviewMatchesLedger' /\ LedgerExplainsStock'
  BY DEF NothingTakenYet, ReviewMatchesLedger, LedgerExplainsStock, CalmReviews, CalmItems
<1>5. WithdrawnOnce'
  BY <1>1, IdleFacts, EmptyFacts DEF WithdrawnOnce, CalmItems, Once
<1>6. ReviewIsCurrent'
  BY <1>1, IdleFacts, Distinct DEF ReviewIsCurrent, CalmReviews
<1> QED
  BY <1>1, <1>2, <1>3, <1>4, <1>5, <1>6

LEMMA RowStepsKeepInvariant ==
  ASSUME PantryInvariant, NEW q \in Requests,
         \/ CommitComplete(q) \/ CommitRow(q) \/ RefuseRow(q)
         \/ RefuseConfirm(q) \/ RefuseUndo(q)
         \/ \E row \in Rows : CommitAdd(q, row)
  PROVE  PantryInvariant'
<1>1. Return(q) /\ UNCHANGED <<stock, review, undone, candidates, originals, logged, raced>>
  BY DEF CommitComplete, CommitRow, RefuseRow, RefuseConfirm, RefuseUndo, CommitAdd
<1>2. TypeOK /\ WellFormed
  BY DEF PantryInvariant
<1>3. shop' \in [Rows -> ShopRow \cup {NoRow}]
  <2>1. CASE CommitComplete(q)
    BY <1>2, <2>1 DEF CommitComplete, RowAs, WellFormed, TypeOK, ShopRow
  <2>2. CASE \E row \in Rows : CommitAdd(q, row)
    BY <1>2, <2>2 DEF CommitAdd, WellFormed, TypeOK, ShopRow
  <2>3. CASE CommitRow(q)
    <3> DEFINE row == req[q].row
    <3>1. row \in Rows /\ shop \in [Rows -> ShopRow \cup {NoRow}] /\ shop[row] # NoRow
      BY <1>2, <2>3 DEF CommitRow, WellFormed, TypeOK
    <3>2. shop[row].item \in Items /\ shop[row].status \in {"active", "completed", "dismissed"}
      BY <3>1 DEF ShopRow
    <3>3. \E s \in ShopRow \cup {NoRow} : shop' = [shop EXCEPT ![row] = s]
      <4>1. \A i \in Items, t \in {"active", "completed", "dismissed"} : [item |-> i, status |-> t] \in ShopRow
        BY DEF ShopRow
      <4> QED
        BY <2>3, <3>2, <4>1 DEF CommitRow, RowAs
    <3> QED
      BY <3>1, <3>3
  <2>4. CASE RefuseRow(q) \/ RefuseConfirm(q) \/ RefuseUndo(q)
    BY <1>2, <2>4 DEF RefuseRow, RefuseConfirm, RefuseUndo, TypeOK
  <2> QED
    BY <2>1, <2>2, <2>3, <2>4
<1> QED
  BY <1>1, <1>3, ReturnKeepsInvariant

-----------------------------------------------------------------------------
(***************************************************************************)
(* The stock of the items C changes: who has read it is noticed.           *)
(***************************************************************************)
LEMMA StockChanges ==
  ASSUME PantryInvariant, NEW C,
         \A j \in Items \ C : stock'[j] = stock[j],
         \A p \in Requests : req'[p] = req[p] \/ req'[p] = Idle,
         raced \subseteq raced',
         \A p \in Requests : req'[p] # Idle => Handles(req[p]) \cap C \subseteq raced'
  PROVE  SeenIsCurrent'
<1> SUFFICES ASSUME NEW p \in Requests, req'[p] = req[p], req'[p] # Idle
             PROVE  /\ req[p].lines # <<>> /\ req[p].lines[1].item \notin raced' =>
                         req[p].seen = stock'[req[p].lines[1].item]
                    /\ req[p].os # <<>> /\ req[p].os[1].item \notin raced' =>
                         req[p].seen = stock'[req[p].os[1].item]
  BY IdleFacts DEF SeenIsCurrent
<1>1. Handles(req[p]) \cap C \subseteq raced'
  OBVIOUS
<1>2. req[p].lines # <<>> =>
        req[p].lines[1].item \in Handles(req[p]) /\ req[p].lines[1].item \in Items
  BY ListsAreHandled DEF PantryInvariant
<1>3. req[p].os # <<>> =>
        req[p].os[1].item \in Handles(req[p]) /\ req[p].os[1].item \in Items
  BY ListsAreHandled DEF PantryInvariant, WellFormed
<1> QED
  BY <1>1, <1>2, <1>3 DEF PantryInvariant, SeenIsCurrent

LEMMA ForgetFacts ==
  ASSUME NEW s \in Seq(Entry), NEW i \in Items
  PROVE  /\ Forget(s, i) \in Seq(Entry) /\ DOMAIN Forget(s, i) = DOMAIN s
         /\ s = <<>> => Forget(s, i) = <<>>
         /\ \A k \in DOMAIN s :
              /\ Forget(s, i)[k].item = IF s[k].item = i THEN None ELSE s[k].item
              /\ Forget(s, i)[k].before = s[k].before
              /\ Forget(s, i)[k].after = s[k].after
              /\ Forget(s, i)[k].reversed = s[k].reversed
<1>1. DOMAIN s = 1..Len(s) /\ Len(s) \in Nat /\ \A k \in DOMAIN s : s[k] \in Entry
  BY SeqFacts
<1>2. \A k \in DOMAIN s : Forget(s, i)[k] \in Entry
  BY <1>1 DEF Forget, Entry
<1>3. DOMAIN Forget(s, i) = DOMAIN s
  BY DEF Forget
<1>4. Forget(s, i) \in [1..Len(s) -> Entry]
  BY <1>1, <1>2 DEF Forget
<1>5. Forget(s, i) \in Seq(Entry)
  BY <1>1, <1>4, SeqDef
<1>6. s = <<>> => Forget(s, i) = <<>>
  BY <1>3, <1>5, SeqFacts
<1> QED
  BY <1>3, <1>5, <1>6 DEF Forget

(* inventory.py writes an item; the ledger forgets one that is deleted. *)
LEMMA OverwriteKeepsInvariant ==
  ASSUME PantryInvariant, NEW i \in Items, NEW n \in Stocked \cup {Gone}, Overwrite(i, n),
         \/ originals' = originals
         \/ originals' = [v \in Reviews |-> Forget(originals[v], i)],
         UNCHANGED <<review, undone, candidates, shop, req>>
  PROVE  PantryInvariant'
<1> USE DEF PantryInvariant
<1>1. /\ stock' = [stock EXCEPT ![i] = n]
      /\ logged' = [logged EXCEPT ![i] = NoEntry]
      /\ raced' = raced \cup ({i} \cap InHand({}))
  BY DEF Overwrite
<1>2. originals \in [Reviews -> Seq(Entry)]
  BY DEF TypeOK
<1>3. \A v \in Reviews :
        /\ originals'[v] \in Seq(Entry)
        /\ DOMAIN originals'[v] = DOMAIN originals[v]
        /\ originals[v] = <<>> => originals'[v] = <<>>
        /\ \A k \in DOMAIN originals[v] :
             /\ \/ originals'[v][k].item = originals[v][k].item
                \/ originals[v][k].item = i /\ originals'[v][k].item = None
             /\ originals'[v][k].before = originals[v][k].before
             /\ originals'[v][k].after = originals[v][k].after
             /\ originals'[v][k].reversed = originals[v][k].reversed
  <2>1. CASE originals' = originals
    BY <1>2, <2>1
  <2>2. CASE originals' = [v \in Reviews |-> Forget(originals[v], i)]
    BY <1>2, <2>2, ForgetFacts
  <2> QED
    BY <2>1, <2>2
<1>4. raced \subseteq raced' /\ \A p \in Requests : Handles(req[p]) \cap {i} \subseteq raced'
  BY <1>1, InHandContains
<1>5. TypeOK'
  <2>1. originals' \in [Reviews -> Seq(Entry)]
    BY <1>2, <1>3
  <2> QED
    BY <1>1, <2>1 DEF TypeOK
<1>6. WellFormed' /\ Noticed'
  BY <1>4 DEF WellFormed, Noticed, OncePerItem, Handles, ItemsOf
<1>7. SeenIsCurrent'
  BY <1>1, <1>4, StockChanges DEF TypeOK
<1>8. NothingTakenYet'
  BY <1>3 DEF NothingTakenYet
<1>9. NotTakenAgain'
  <2>1. \A v \in Reviews : ItemsOf(originals[v])' \subseteq ItemsOf(originals[v])
    BY <1>3 DEF ItemsOf
  <2> SUFFICES ASSUME NEW q \in Requests, req[q].op = "confirm", NEW j \in ItemsOf(req[q].lines) \ raced'
               PROVE  j \notin ItemsOf(originals[req[q].review])'
    BY DEF NotTakenAgain, ItemsOf
  <2>2. req[q].review \in Reviews
    BY DEF WellFormed
  <2>3. j \notin ItemsOf(originals[req[q].review])
    BY <1>4 DEF NotTakenAgain
  <2>4. ItemsOf(originals[req[q].review])' \subseteq ItemsOf(originals[req[q].review])
    BY <2>1, <2>2
  <2> QED
    BY <2>3, <2>4
<1>10. WithdrawnOnce'
  BY <1>3, <1>4, Distinct DEF WithdrawnOnce, CalmItems, Once
<1>11. ReviewIsCurrent'
  <2> SUFFICES ASSUME NEW q \in Requests, NEW v, v = req[q].review, v \in Reviews \ raced'
               PROVE  /\ req[q].op \in {"confirm", "dismiss"} => review[v] = "pending"
                      /\ req[q].op = "undo" =>
                           /\ review[v] = "confirmed"
                           /\ ~undone[v]
                           /\ DOMAIN originals'[v] = DOMAIN req[q].os
                           /\ \A k \in DOMAIN req[q].os :
                                /\ \/ originals'[v][k].item = req[q].os[k].item
                                   \/ req[q].os[k].item \in raced' \cup {None}
                                /\ originals'[v][k].item \in {req[q].os[k].item, None}
                                /\ originals'[v][k].before = req[q].os[k].before
                                /\ originals'[v][k].after = req[q].os[k].after
    BY DEF ReviewIsCurrent, CalmReviews
  <2>1. v \in CalmReviews
    BY <1>4 DEF CalmReviews
  <2>2. \A k \in DOMAIN req[q].os : req[q].os[k].item # None => req[q].os[k].item \in Handles(req[q])
    BY ListsAreHandled
  <2> QED
    BY <1>3, <1>4, <2>1, <2>2 DEF ReviewIsCurrent
<1>12. ReviewMatchesLedger'
  BY <1>3, <1>4 DEF ReviewMatchesLedger, CalmReviews
<1>13. LedgerExplainsStock'
  BY <1>1, <1>4 DEF LedgerExplainsStock, CalmItems, TypeOK
<1> QED
  BY <1>5, <1>6, <1>7, <1>8, <1>9, <1>10, <1>11, <1>12, <1>13

LEMMA InventoryKeepsInvariant == PantryInvariant /\ InventoryNext => PantryInvariant'
<1> SUFFICES ASSUME PantryInvariant, InventoryNext PROVE PantryInvariant'
  OBVIOUS
<1>1. CASE \E i \in Items : \E n \in Stocked : CreateItem(i, n) \/ SetQuantity(i, n)
  BY <1>1, OverwriteKeepsInvariant DEF CreateItem, SetQuantity
<1>2. CASE \E i \in Items : DeleteItem(i)
  BY <1>2, OverwriteKeepsInvariant DEF DeleteItem
<1> QED
  BY <1>1, <1>2 DEF InventoryNext

(***************************************************************************)
(* A request that returns having changed the stock of the items C, of      *)
(* which nobody else unnoticed has any.                                    *)
(***************************************************************************)
LEMMA StockingKeepsInvariant ==
  ASSUME PantryInvariant, NEW q \in Requests, Return(q), NEW C,
         stock' \in [Items -> Stocked \cup {Gone}], logged' \in [Items -> Stocked \cup {NoEntry}],
         \A j \in Items \ C : stock'[j] = stock[j] /\ logged'[j] = logged[j],
         \A j \in (C \cap Items) \ raced' : stock'[j] = logged'[j],
         raced \subseteq raced', raced' \subseteq Items \cup Reviews,
         \A p \in Requests \ {q} : Handles(req[p]) \cap C \subseteq raced',
         UNCHANGED <<review, undone, candidates, originals>>,
         shop' \in [Rows -> ShopRow \cup {NoRow}]
  PROVE  PantryInvariant'
<1> USE DEF PantryInvariant
<1>1. /\ req'[q] = Idle
      /\ \A p \in Requests \ {q} : req'[p] = req[p]
      /\ req' \in [Requests -> Request \cup {Idle}]
      /\ WellFormed' /\ Noticed'
  BY ReturnRequests
<1>2. TypeOK'
  BY <1>1 DEF TypeOK
<1>3. SeenIsCurrent'
  BY <1>1, StockChanges
<1>4. NotTakenAgain'
  BY <1>1, NotTakenAgainStays
<1>5. NothingTakenYet' /\ ReviewMatchesLedger'
  BY DEF NothingTakenYet, ReviewMatchesLedger, CalmReviews
<1>6. LedgerExplainsStock'
  BY DEF LedgerExplainsStock, CalmItems
<1>7. WithdrawnOnce'
  BY <1>1, IdleFacts, EmptyFacts DEF WithdrawnOnce, CalmItems, Once
<1>8. ReviewIsCurrent'
  BY <1>1, IdleFacts, Distinct DEF ReviewIsCurrent, CalmReviews
<1> QED
  BY <1>1, <1>2, <1>3, <1>4, <1>5, <1>6, <1>7, <1>8

LEMMA CompletedRow ==
  ASSUME TypeOK, NEW row \in Rows, shop[row] # NoRow, RowAs(row, "completed")
  PROVE  shop' \in [Rows -> ShopRow \cup {NoRow}]
<1>1. shop \in [Rows -> ShopRow \cup {NoRow}] /\ shop[row].item \in Items
  BY DEF TypeOK, ShopRow
<1>2. [item |-> shop[row].item, status |-> "completed"] \in ShopRow
  BY <1>1 DEF ShopRow
<1>3. shop' = [shop EXCEPT ![row] = [item |-> shop[row].item, status |-> "completed"]]
  BY DEF RowAs
<1> QED
  BY <1>1, <1>2, <1>3

LEMMA CommitRestockKeepsInvariant ==
  ASSUME PantryInvariant, NEW q \in Requests, NEW n \in Quantities, CommitRestock(q, n)
  PROVE  PantryInvariant'
<1> DEFINE r == req[q]
           i == r.lines[1].item
           before == r.seen
           after == IF before = Unknown THEN n ELSE before + n
<1>1. /\ r.op = "restock" /\ shop[r.row] # NoRow /\ after <= MaxQuantity
      /\ stock' = [stock EXCEPT ![i] = IF after # before THEN after ELSE stock[i]]
      /\ logged' = [logged EXCEPT ![i] = after]
      /\ RowAs(r.row, "completed") /\ Return(q)
      /\ UNCHANGED <<review, undone, candidates, originals, raced>>
  BY DEF CommitRestock
<1>2. TypeOK /\ WellFormed /\ r.lines \in Seq(Line)
  BY RequestTypes DEF PantryInvariant
<1>3. r.lines # <<>> /\ r.row \in Rows
  BY <1>1, <1>2, EmptyFacts DEF WellFormed
<1>4. before \in Stocked /\ i \in Items /\ i \in Handles(r)
  BY <1>1, <1>2, <1>3, ListsAreHandled DEF WellFormed
<1>5. after \in Stocked
  BY <1>1, <1>4, Distinct, PantryAssumption DEF Stocked, Quantities
<1>6. i \notin raced => before = stock[i]
  BY <1>3 DEF PantryInvariant, SeenIsCurrent
<1> HIDE DEF after, before, i
<1>7. /\ stock' \in [Items -> Stocked \cup {Gone}] /\ logged' \in [Items -> Stocked \cup {NoEntry}]
      /\ \A j \in Items \ {i} : stock'[j] = stock[j] /\ logged'[j] = logged[j]
      /\ stock'[i] = (IF after # before THEN after ELSE stock[i]) /\ logged'[i] = after
  BY <1>1, <1>2, <1>4, <1>5 DEF TypeOK
<1>8. \A p \in Requests \ {q} : Handles(req[p]) \cap {i} \subseteq raced'
  BY <1>1, <1>4 DEF PantryInvariant, Noticed
<1>9. shop' \in [Rows -> ShopRow \cup {NoRow}] /\ raced \subseteq Items \cup Reviews
  BY <1>1, <1>2, <1>3, CompletedRow DEF TypeOK
<1>10. \A j \in ({i} \cap Items) \ raced' : stock'[j] = logged'[j]
  BY <1>1, <1>6, <1>7
<1>11. Return(q) /\ UNCHANGED <<review, undone, candidates, originals>>
       /\ raced \subseteq raced' /\ raced' \subseteq Items \cup Reviews
  BY <1>1, <1>9
<1> QED
  BY <1>7, <1>8, <1>9, <1>10, <1>11, StockingKeepsInvariant

LEMMA CommitCreateKeepsInvariant ==
  ASSUME PantryInvariant, NEW q \in Requests, NEW i \in Items, NEW n \in Quantities,
         CommitCreate(q, i, n)
  PROVE  PantryInvariant'
<1>1. /\ req[q].op = "create" /\ shop[req[q].row] # NoRow
      /\ stock' = [stock EXCEPT ![i] = n] /\ logged' = [logged EXCEPT ![i] = n]
      /\ raced' = raced \cup ({i} \cap InHand({q}))
      /\ RowAs(req[q].row, "completed") /\ Return(q)
      /\ UNCHANGED <<review, undone, candidates, originals>>
  BY DEF CommitCreate
<1>2. TypeOK /\ req[q].row \in Rows
  BY <1>1 DEF PantryInvariant, WellFormed
<1>3. shop' \in [Rows -> ShopRow \cup {NoRow}]
  BY <1>1, <1>2, CompletedRow
<1>4. /\ stock' \in [Items -> Stocked \cup {Gone}] /\ logged' \in [Items -> Stocked \cup {NoEntry}]
      /\ \A j \in Items \ {i} : stock'[j] = stock[j] /\ logged'[j] = logged[j]
      /\ stock'[i] = logged'[i]
  BY <1>1, <1>2 DEF TypeOK, Stocked
<1>5. raced \subseteq raced' /\ raced' \subseteq Items \cup Reviews
  BY <1>1, <1>2 DEF TypeOK
<1>6. \A p \in Requests \ {q} : Handles(req[p]) \cap {i} \subseteq raced'
  BY <1>1, InHandContains
<1>7. \A j \in ({i} \cap Items) \ raced' : stock'[j] = logged'[j]
  BY <1>4
<1>8. Return(q) /\ UNCHANGED <<review, undone, candidates, originals>>
  BY <1>1
<1> QED
  BY <1>3, <1>4, <1>5, <1>6, <1>7, <1>8, StockingKeepsInvariant

(* A review is created, or dismissed. *)
LEMMA CreateReviewKeepsInvariant ==
  ASSUME PantryInvariant, NEW v \in Reviews, NEW match \in SUBSET Items, CreateReview(v, match)
  PROVE  PantryInvariant'
<1> USE DEF PantryInvariant
<1>1. /\ review[v] = "absent" /\ review' = [review EXCEPT ![v] = "pending"]
      /\ candidates' = [candidates EXCEPT ![v] = InPantry(match)]
      /\ UNCHANGED <<stock, undone, originals, logged, shop, req, raced>>
  BY DEF CreateReview
<1>2. /\ review'[v] = "pending" /\ \A u \in Reviews \ {v} : review'[u] = review[u]
      /\ InPantry(match) \subseteq Items
  BY <1>1 DEF TypeOK, InPantry
<1>3. TypeOK'
  BY <1>1, <1>2 DEF TypeOK
<1>4. WellFormed' /\ Noticed' /\ SeenIsCurrent' /\ NotTakenAgain' /\ WithdrawnOnce' /\ LedgerExplainsStock'
  <2>1. UNCHANGED <<stock, originals, logged, req, raced>>
    BY <1>1
  <2>2. WellFormed' /\ Noticed' /\ SeenIsCurrent'
    BY <2>1 DEF WellFormed, Noticed, SeenIsCurrent, OncePerItem, Handles, ItemsOf
  <2>3. NotTakenAgain' /\ WithdrawnOnce' /\ LedgerExplainsStock'
    BY <2>1 DEF NotTakenAgain, WithdrawnOnce, LedgerExplainsStock, ItemsOf, Once, CalmItems
  <2> QED
    BY <2>2, <2>3
<1>5. NothingTakenYet'
  BY <1>1, <1>2 DEF NothingTakenYet
<1>6. ReviewIsCurrent'
  BY <1>1, <1>2 DEF ReviewIsCurrent, CalmReviews
<1>7. ReviewMatchesLedger'
  BY <1>1, <1>2 DEF ReviewMatchesLedger, CalmReviews
<1> QED
  BY <1>3, <1>4, <1>5, <1>6, <1>7

LEMMA CommitDismissKeepsInvariant ==
  ASSUME PantryInvariant, NEW q \in Requests, CommitDismiss(q)
  PROVE  PantryInvariant'
<1> USE DEF PantryInvariant
<1> DEFINE v == req[q].review
<1>1. /\ req[q].op = "dismiss" /\ review' = [review EXCEPT ![v] = "dismissed"] /\ Return(q)
      /\ UNCHANGED <<stock, undone, candidates, originals, logged, shop, raced>>
  BY DEF CommitDismiss
<1>2. v \in Reviews
  BY <1>1 DEF WellFormed
<1>3. review'[v] = "dismissed" /\ \A u \in Reviews \ {v} : review'[u] = review[u]
  BY <1>1, <1>2 DEF TypeOK
<1>4. /\ req'[q] = Idle
      /\ \A p \in Requests \ {q} : req'[p] = req[p]
      /\ req' \in [Requests -> Request \cup {Idle}]
      /\ WellFormed' /\ Noticed'
  BY <1>1, ReturnRequests
<1>5. TypeOK'
  BY <1>1, <1>2, <1>4 DEF TypeOK
<1>6. SeenIsCurrent' /\ NotTakenAgain'
  <2>1. UNCHANGED <<stock, originals, raced>>
    BY <1>1
  <2>2. SeenIsCurrent'
    BY <1>4, <2>1, IdleFacts DEF SeenIsCurrent
  <2>3. NotTakenAgain'
    BY <1>4, <2>1, NotTakenAgainStays
  <2> QED
    BY <2>2, <2>3
<1>7. NothingTakenYet'
  BY <1>1, <1>3 DEF NothingTakenYet
<1>8. LedgerExplainsStock'
  BY <1>1 DEF LedgerExplainsStock, CalmItems
<1>9. WithdrawnOnce'
  BY <1>1, <1>4, IdleFacts, EmptyFacts DEF WithdrawnOnce, CalmItems, Once
<1>10. \A p \in Requests \ {q} : req[p].review = v => v \in raced
  BY <1>2, ListsAreHandled DEF Noticed
<1>11. ReviewIsCurrent'
  BY <1>1, <1>2, <1>3, <1>4, <1>10, IdleFacts, Distinct DEF ReviewIsCurrent, CalmReviews
<1>12. ReviewMatchesLedger'
  <2>1. v \notin raced => originals[v] = <<>> /\ ~undone[v]
    BY <1>1, <1>2 DEF ReviewIsCurrent, CalmReviews, NothingTakenYet
  <2> QED
    BY <1>1, <1>2, <1>3, <2>1 DEF ReviewMatchesLedger, CalmReviews
<1> QED
  BY <1>4, <1>5, <1>6, <1>7, <1>8, <1>9, <1>11, <1>12

-----------------------------------------------------------------------------
(* Confirmations *)

(***************************************************************************)
(* What a confirmation that passes its checks finds and leaves of an item, *)
(* and that it has found what there is, unless noticed.                    *)
(***************************************************************************)
LEMMA ConfirmFacts ==
  ASSUME PantryInvariant, NEW q \in Requests, req[q].op = "confirm", Passes(req[q])
  PROVE  LET r == req[q] IN
         /\ r.lines \in Seq(Line) /\ OncePerItem(r.lines) /\ r.review \in Reviews
         /\ \A k \in DOMAIN r.lines :
              /\ r.lines[k].item \in Items /\ r.lines[k].item \in Handles(r)
              /\ Before(r, k) \in Stocked /\ After(r, k) \in Stocked
              /\ r.lines[k].item \notin raced => Before(r, k) = stock[r.lines[k].item]
              /\ LineOf(r, r.lines[k].item) = k
         /\ \A i \in ItemsOf(r.lines) :
              /\ LineOf(r, i) \in DOMAIN r.lines
              /\ r.lines[LineOf(r, i)].item = i
<1> DEFINE r == req[q]
<1>1. /\ r.lines \in Seq(Line) /\ OncePerItem(r.lines) /\ r.review \in Reviews
      /\ r.lines # <<>> => r.seen \in Stocked
  BY RequestTypes DEF PantryInvariant, WellFormed
<1>2. \A k \in DOMAIN r.lines :
        r.lines[k].item \in Items /\ r.lines[k].item \in Handles(r) /\ r.lines[k] \in Line
  BY <1>1, ListsAreHandled, SeqFacts DEF PantryInvariant
<1>3. \A k \in DOMAIN r.lines : r.lines # <<>>
  BY <1>1, SeqFacts
<1>4. ASSUME NEW k \in DOMAIN r.lines
      PROVE  /\ Before(r, k) \in Stocked /\ After(r, k) \in Stocked
             /\ r.lines[k].item \notin raced => Before(r, k) = stock[r.lines[k].item]
  <2>1. Before(r, k) \in Stocked
    BY <1>1, <1>2, <1>3 DEF Before, Passes, PantryInvariant, TypeOK
  <2>2. r.lines[k].item \notin raced => Before(r, k) = stock[r.lines[k].item]
    BY <1>3 DEF Before, PantryInvariant, SeenIsCurrent
  <2>3. r.lines[k].take \in Quantities \cup {All} /\ MayTake(Before(r, k), r.lines[k].take)
    BY <1>2 DEF Line, Passes
  <2>4. Taking(Before(r, k), r.lines[k].take) \in Stocked
    BY <2>1, <2>3, PantryAssumption DEF MayTake, Taking, Stocked, Quantities
  <2> QED
    BY <2>1, <2>2, <2>4 DEF After
<1>5. \A i \in ItemsOf(r.lines) :
        LineOf(r, i) \in DOMAIN r.lines /\ r.lines[LineOf(r, i)].item = i
  BY DEF ItemsOf, LineOf
<1>6. \A k \in DOMAIN r.lines : r.lines[k].item \in ItemsOf(r.lines)
  BY <1>1, <1>2, ItemsOfLines
<1>7. \A k \in DOMAIN r.lines : LineOf(r, r.lines[k].item) = k
  BY <1>1, <1>5, <1>6 DEF OncePerItem
<1> QED
  BY <1>1, <1>2, <1>4, <1>5, <1>7

LEMMA WithdrawalFacts ==
  ASSUME PantryInvariant, NEW q \in Requests, req[q].op = "confirm", Passes(req[q]),
         NEW s \in Seq(Entry)
  PROVE  LET r == req[q]
             t == s \o Withdrawals(r) IN
         /\ t \in Seq(Entry)
         /\ \A k \in DOMAIN s : k \in DOMAIN t /\ t[k] = s[k]
         /\ \A k \in DOMAIN t :
              \/ k \in DOMAIN s
              \/ /\ k - Len(s) \in DOMAIN r.lines
                 /\ t[k].item = r.lines[k - Len(s)].item
                 /\ t[k].before = Before(r, k - Len(s))
                 /\ t[k].after = After(r, k - Len(s))
                 /\ t[k].reversed = FALSE
         /\ \A k \in DOMAIN r.lines : Len(s) + k \in DOMAIN t
         /\ \A k \in DOMAIN t : k \in Int /\ Len(s) \in Int
         /\ s = <<>> => t = Withdrawals(r)
<1> DEFINE r == req[q]
           w == Withdrawals(r)
           t == s \o w
<1>1. r.lines \in Seq(Line)
      /\ \A k \in DOMAIN r.lines :
           r.lines[k].item \in Items /\ Before(r, k) \in Stocked /\ After(r, k) \in Stocked
  BY ConfirmFacts
<1>2. DOMAIN r.lines = 1..Len(r.lines) /\ Len(r.lines) \in Nat
  BY <1>1, SeqFacts
<1>3. w = [k \in DOMAIN r.lines |-> [item |-> r.lines[k].item, before |-> Before(r, k),
                                     after |-> After(r, k), reversed |-> FALSE]]
  BY DEF Withdrawals
<1>4. w \in [1..Len(r.lines) -> Entry]
  BY <1>1, <1>2, <1>3 DEF Entry
<1>5. w \in Seq(Entry) /\ Len(w) = Len(r.lines)
  <2>1. w \in Seq(Entry)
    BY <1>2, <1>4, SeqDef
  <2>2. DOMAIN w = 1..Len(w) /\ Len(w) \in Nat /\ DOMAIN w = 1..Len(r.lines)
    BY <1>2, <1>3, <2>1, SeqFacts
  <2> QED
    BY <1>2, <2>1, <2>2
<1>6. /\ t \in Seq(Entry) /\ Len(t) = Len(s) + Len(w)
      /\ \A k \in 1..Len(s) + Len(w) : t[k] = IF k <= Len(s) THEN s[k] ELSE w[k - Len(s)]
  BY <1>5, ConcatProperties
<1>7. DOMAIN t = 1..Len(t) /\ DOMAIN s = 1..Len(s) /\ Len(s) \in Nat
  BY <1>6, SeqFacts
<1> HIDE DEF t, w
<1>8. \A k \in DOMAIN t : k \notin DOMAIN s =>
        k - Len(s) \in DOMAIN r.lines /\ t[k] = w[k - Len(s)]
  BY <1>2, <1>5, <1>6, <1>7
<1>9. s = <<>> => t = w
  BY <1>5 DEF t
<1>10. \A k \in DOMAIN s : k \in DOMAIN t /\ t[k] = s[k]
  BY <1>2, <1>5, <1>6, <1>7
<1>11. \A k \in DOMAIN t :
         \/ k \in DOMAIN s
         \/ /\ k - Len(s) \in DOMAIN r.lines
            /\ t[k].item = r.lines[k - Len(s)].item
            /\ t[k].before = Before(r, k - Len(s))
            /\ t[k].after = After(r, k - Len(s))
            /\ t[k].reversed = FALSE
  <2>1. \A k \in DOMAIN r.lines :
          /\ w[k].item = r.lines[k].item /\ w[k].before = Before(r, k)
          /\ w[k].after = After(r, k) /\ w[k].reversed = FALSE
    BY <1>3
  <2> HIDE DEF r
  <2> QED
    BY <1>8, <2>1
<1>12. \A k \in DOMAIN r.lines : Len(s) + k \in DOMAIN t
  BY <1>2, <1>5, <1>6, <1>7
<1>13. \A k \in DOMAIN t : k \in Int /\ Len(s) \in Int
  BY <1>2, <1>5, <1>6, <1>7
<1> QED
  BY <1>6, <1>9, <1>10, <1>11, <1>12, <1>13, Zenon DEF t, w

LEMMA ListedTypes ==
  ASSUME TypeOK, NEW L \in SUBSET Items, Listed(L)
  PROVE  shop' \in [Rows -> ShopRow \cup {NoRow}]
<1> DEFINE missing == {i \in L : \A r \in Rows : shop[r] # [item |-> i, status |-> "active"]}
<1>1. PICK f \in [missing -> {r \in Rows : shop[r] = NoRow}] :
        shop' = [r \in Rows |->
                   IF \E i \in missing : f[i] = r
                   THEN [item |-> CHOOSE i \in missing : f[i] = r, status |-> "active"]
                   ELSE shop[r]]
  BY DEF Listed
<1>2. ASSUME NEW r \in Rows
      PROVE  shop'[r] \in ShopRow \cup {NoRow}
  <2>1. CASE \E i \in missing : f[i] = r
    <3>1. (CHOOSE i \in missing : f[i] = r) \in Items
      BY <2>1
    <3> QED
      BY <1>1, <2>1, <3>1 DEF ShopRow
  <2>2. CASE ~\E i \in missing : f[i] = r
    BY <1>1, <2>2 DEF TypeOK
  <2> QED
    BY <2>1, <2>2
<1> QED
  BY <1>1, <1>2

LEMMA CommitConfirmKeepsInvariant ==
  ASSUME PantryInvariant, NEW q \in Requests, NEW L \in SUBSET Items, CommitConfirm(q, L)
  PROVE  PantryInvariant'
<1> USE DEF PantryInvariant
<1> DEFINE r == req[q]
           v == r.review
           t == originals[v] \o Withdrawals(r)
<1>1. /\ r.op = "confirm" /\ Passes(r) /\ Listed(L) /\ Return(q)
      /\ stock' = [i \in Items |->
                     IF /\ i \in ItemsOf(r.lines)
                        /\ After(r, LineOf(r, i)) # Before(r, LineOf(r, i))
                     THEN After(r, LineOf(r, i)) ELSE stock[i]]
      /\ logged' = [i \in Items |->
                      IF i \in ItemsOf(r.lines) THEN After(r, LineOf(r, i)) ELSE logged[i]]
      /\ originals' = [originals EXCEPT ![v] = t]
      /\ review' = [review EXCEPT ![v] = "confirmed"]
      /\ undone' = [undone EXCEPT ![v] = FALSE]
      /\ UNCHANGED <<candidates, raced>>
  BY DEF CommitConfirm
<1>2. /\ r.lines \in Seq(Line) /\ OncePerItem(r.lines) /\ v \in Reviews
      /\ \A k \in DOMAIN r.lines :
           /\ r.lines[k].item \in Items /\ r.lines[k].item \in Handles(r)
           /\ Before(r, k) \in Stocked /\ After(r, k) \in Stocked
           /\ r.lines[k].item \notin raced => Before(r, k) = stock[r.lines[k].item]
           /\ LineOf(r, r.lines[k].item) = k
      /\ \A i \in ItemsOf(r.lines) : LineOf(r, i) \in DOMAIN r.lines /\ r.lines[LineOf(r, i)].item = i
  BY <1>1, ConfirmFacts
<1>3. originals[v] \in Seq(Entry)
  BY <1>2 DEF TypeOK
<1>4. /\ t \in Seq(Entry)
      /\ \A k \in DOMAIN t :
           \/ k \in DOMAIN originals[v] /\ t[k] = originals[v][k]
           \/ /\ k - Len(originals[v]) \in DOMAIN r.lines
              /\ t[k].item = r.lines[k - Len(originals[v])].item
              /\ t[k].reversed = FALSE
      /\ \A k \in DOMAIN t : k \in Int /\ Len(originals[v]) \in Int
  BY <1>1, <1>3, WithdrawalFacts
<1> HIDE DEF t
<1>5. /\ req'[q] = Idle
      /\ \A p \in Requests \ {q} : req'[p] = req[p]
      /\ req' \in [Requests -> Request \cup {Idle}]
      /\ WellFormed' /\ Noticed'
  BY <1>1, ReturnRequests
<1>6. shop' \in [Rows -> ShopRow \cup {NoRow}]
  BY <1>1, ListedTypes
<1>7. /\ originals'[v] = t /\ review'[v] = "confirmed" /\ undone'[v] = FALSE
      /\ \A u \in Reviews \ {v} : /\ originals'[u] = originals[u] /\ review'[u] = review[u]
                                  /\ undone'[u] = undone[u]
      /\ originals' \in [Reviews -> Seq(Entry)] /\ undone' \in [Reviews -> BOOLEAN]
      /\ review' \in [Reviews -> {"absent", "pending", "confirmed", "dismissed"}]
  BY <1>1, <1>2, <1>4 DEF TypeOK
<1>8. ItemsOf(r.lines) = {r.lines[k].item : k \in DOMAIN r.lines} /\ ItemsOf(r.lines) \subseteq Handles(r)
  BY <1>2, ItemsOfLines DEF Handles
<1>9. stock' \in [Items -> Stocked \cup {Gone}] /\ logged' \in [Items -> Stocked \cup {NoEntry}]
  BY <1>1, <1>2 DEF TypeOK
<1>10. TypeOK'
  BY <1>1, <1>5, <1>6, <1>7, <1>9 DEF TypeOK
<1>11. SeenIsCurrent'
  <2>1. \A j \in Items \ ItemsOf(r.lines) : stock'[j] = stock[j]
    BY <1>1
  <2>2. \A p \in Requests : req'[p] # Idle => Handles(req[p]) \cap ItemsOf(r.lines) \subseteq raced'
    BY <1>1, <1>5, <1>8 DEF Noticed
  <2> QED
    BY <1>1, <1>5, <2>1, <2>2, StockChanges
<1>12. NothingTakenYet'
  BY <1>2, <1>7 DEF NothingTakenYet
<1>13. \A k \in DOMAIN t : t[k].item \in ItemsOf(originals[v]) \cup ItemsOf(r.lines) \cup {None}
  BY <1>4, <1>8 DEF ItemsOf
<1>14. NotTakenAgain'
  <2> SUFFICES ASSUME NEW p \in Requests, req'[p].op = "confirm",
                      NEW i \in ItemsOf(req'[p].lines) \ raced, i \in ItemsOf(originals'[req'[p].review])
               PROVE  FALSE
    BY <1>1 DEF NotTakenAgain, ItemsOf
  <2>1. p # q /\ req'[p] = req[p] /\ req[p].review \in Reviews
    BY <1>5, IdleFacts DEF WellFormed
  <2>2. i \notin ItemsOf(originals[req[p].review])
    BY <2>1 DEF NotTakenAgain
  <2>3. req[p].review = v /\ i \in ItemsOf(t)
    BY <1>7, <2>1, <2>2
  <2>4. i \in ItemsOf(r.lines)
    BY <1>13, <2>2, <2>3 DEF ItemsOf
  <2>5. i \in Handles(req[p]) /\ i \in Handles(r)
    BY <1>8, <2>1, <2>4 DEF Handles
  <2> QED
    BY <2>1, <2>5 DEF Noticed
<1>15. ASSUME NEW i \in CalmItems PROVE Once(t, i)
  <2>1. Once(originals[v], i)
    BY <1>2, <1>15 DEF WithdrawnOnce
  <2>2. i \in ItemsOf(r.lines) => i \notin ItemsOf(originals[v])
    BY <1>1, <1>15 DEF NotTakenAgain, CalmItems
  <2>3. i # None
    BY <1>15, Distinct DEF CalmItems
  <2> SUFFICES ASSUME NEW k \in DOMAIN t, NEW l \in DOMAIN t, t[k].item = i, t[l].item = i
               PROVE  k = l
    BY DEF Once
  <2> DEFINE n == Len(originals[v])
  <2>4. k \in Int /\ l \in Int /\ n \in Int
    BY <1>4
  <2>5. CASE i \in ItemsOf(r.lines)
    <3>1. k \notin DOMAIN originals[v] \/ t[k] # originals[v][k]
      BY <2>2, <2>3, <2>5 DEF ItemsOf
    <3>2. l \notin DOMAIN originals[v] \/ t[l] # originals[v][l]
      BY <2>2, <2>3, <2>5 DEF ItemsOf
    <3>3. /\ k - n \in DOMAIN r.lines /\ r.lines[k - n].item = i
          /\ l - n \in DOMAIN r.lines /\ r.lines[l - n].item = i
      BY <1>4, <3>1, <3>2
    <3>4. k - n = l - n
      BY <1>2, <3>3 DEF OncePerItem
    <3> QED
      BY <2>4, <3>4
  <2>6. CASE i \notin ItemsOf(r.lines)
    <3>1. /\ k \in DOMAIN originals[v] /\ t[k] = originals[v][k]
          /\ l \in DOMAIN originals[v] /\ t[l] = originals[v][l]
      BY <1>4, <1>8, <2>6
    <3> QED
      BY <2>1, <3>1 DEF Once
  <2> QED
    BY <2>5, <2>6
<1>16. WithdrawnOnce'
  <2> SUFFICES ASSUME NEW i \in CalmItems
               PROVE  /\ \A u \in Reviews : Once(originals'[u], i)
                      /\ \A p \in Requests : Once(req'[p].os, i)
    BY <1>1 DEF WithdrawnOnce, CalmItems, Once
  <2>1. ASSUME NEW u \in Reviews PROVE Once(originals'[u], i)
    <3>1. CASE u = v
      BY <1>7, <1>15, <3>1
    <3>2. CASE u # v
      <4>1. originals'[u] = originals[u]
        BY <1>7, <3>2
      <4> QED
        BY <4>1 DEF WithdrawnOnce
    <3> QED
      BY <3>1, <3>2
  <2>2. ASSUME NEW p \in Requests PROVE Once(req'[p].os, i)
    <3>1. CASE p = q
      BY <1>5, <3>1, IdleFacts, EmptyFacts DEF Once
    <3>2. CASE p # q
      BY <1>5, <3>2 DEF WithdrawnOnce
    <3> QED
      BY <3>1, <3>2
  <2> QED
    BY <2>1, <2>2
<1>17. \A p \in Requests \ {q} : req[p].review = v => v \in raced
  BY <1>2, ListsAreHandled DEF Noticed
<1>18. ReviewIsCurrent'
  BY <1>1, <1>2, <1>5, <1>7, <1>17, IdleFacts, Distinct DEF ReviewIsCurrent, CalmReviews
<1>19. ReviewMatchesLedger'
  <2>1. ASSUME v \notin raced
        PROVE  \A k, l \in DOMAIN t : t[k].reversed = FALSE /\ (t[k].item = t[l].item => k = l)
    <3>1. originals[v] = <<>>
      BY <1>1, <1>2, <2>1 DEF ReviewIsCurrent, CalmReviews, NothingTakenYet
    <3>2. \A k \in DOMAIN t : k - 0 \in DOMAIN r.lines /\ t[k].item = r.lines[k - 0].item
                              /\ t[k].reversed = FALSE /\ k \in Int
      BY <1>4, <3>1, EmptyFacts
    <3>3. \A k \in DOMAIN t : k \in DOMAIN r.lines /\ t[k].item = r.lines[k].item
      BY <3>2
    <3> QED
      BY <1>2, <3>2, <3>3 DEF OncePerItem
  <2>2. ASSUME NEW u \in Reviews \ raced
        PROVE  /\ review'[u] # "confirmed" => originals'[u] = <<>> /\ ~undone'[u]
               /\ \A k \in DOMAIN originals'[u] : originals'[u][k].reversed = undone'[u]
               /\ \A k, l \in DOMAIN originals'[u] :
                    originals'[u][k].item = originals'[u][l].item /\ originals'[u][k].item # None => k = l
    <3>1. CASE u = v
      <4>1. u \notin raced
        BY <2>2
      <4>2. originals'[u] = t /\ review'[u] = "confirmed" /\ undone'[u] = FALSE
        BY <1>7, <3>1
      <4> QED
        BY <2>1, <3>1, <4>1, <4>2
    <3>2. CASE u # v
      <4>1. originals'[u] = originals[u] /\ review'[u] = review[u] /\ undone'[u] = undone[u]
        BY <1>7, <2>2, <3>2
      <4> QED
        BY <2>2, <4>1 DEF ReviewMatchesLedger, CalmReviews
    <3> QED
      BY <3>1, <3>2
  <2> QED
    BY <1>1, <2>2 DEF ReviewMatchesLedger, CalmReviews
<1>20. LedgerExplainsStock'
  BY <1>1, <1>2 DEF LedgerExplainsStock, CalmItems
<1> QED
  BY <1>5, <1>10, <1>11, <1>12, <1>14, <1>16, <1>18, <1>19, <1>20

-----------------------------------------------------------------------------
(* Undoing *)

(* A nonempty set of positions has a last one. *)
LEMMA LastExists ==
  ASSUME NEW n \in Nat, NEW S \in SUBSET (1..n), S # {}
  PROVE  LastOf(S) \in S /\ \A m \in S : m <= LastOf(S)
<1> DEFINE T == {n - k : k \in S}
<1>1. T \subseteq Nat /\ T # {}
  <2>1. \A k \in S : k \in Int /\ k <= n /\ n - k \in Nat
    OBVIOUS
  <2> QED
    BY <2>1
<1>2. PICK x \in T : \A y \in T : ~(<<y, x>> \in OpToRel(<, Nat))
  BY <1>1, NatLessThanWellFounded, WFMin, Zenon
<1>3. \A y \in T : ~(y < x)
  BY <1>1, <1>2 DEF OpToRel
<1>4. PICK k \in S : x = n - k
  OBVIOUS
<1>5. \A m \in S : m <= k
  <2> TAKE m \in S
  <2>1. n - m \in T /\ ~(n - m < n - k)
    BY <1>3, <1>4
  <2> QED
    BY <2>1
<1> QED
  BY <1>4, <1>5 DEF LastOf

LEMMA MarkFacts ==
  ASSUME NEW s \in Seq(Entry), NEW n \in Nat
  PROVE  /\ MarkReversed(s, n) \in Seq(Entry) /\ DOMAIN MarkReversed(s, n) = DOMAIN s
         /\ \A k \in DOMAIN s :
              /\ MarkReversed(s, n)[k].item = s[k].item
              /\ MarkReversed(s, n)[k].before = s[k].before
              /\ MarkReversed(s, n)[k].after = s[k].after
              /\ k <= n => MarkReversed(s, n)[k].reversed = TRUE
<1>1. DOMAIN s = 1..Len(s) /\ Len(s) \in Nat /\ \A k \in DOMAIN s : s[k] \in Entry
  BY SeqFacts
<1>2. \A k \in DOMAIN s : (s[k].reversed \/ k <= n) \in BOOLEAN
  OBVIOUS
<1>3. \A k \in DOMAIN s : MarkReversed(s, n)[k] \in Entry
  BY <1>1, <1>2 DEF MarkReversed, Entry
<1>4. MarkReversed(s, n) \in [1..Len(s) -> Entry]
  BY <1>1, <1>3 DEF MarkReversed
<1>5. MarkReversed(s, n) \in Seq(Entry)
  BY <1>1, <1>4, SeqDef
<1> QED
  BY <1>5 DEF MarkReversed

(***************************************************************************)
(* What an undo that passes its checks finds and puts back of an item.     *)
(***************************************************************************)
LEMMA UndoFacts ==
  ASSUME PantryInvariant, NEW q \in Requests, req[q].op = "undo", Reversible(req[q])
  PROVE  LET r == req[q] IN
         /\ r.os \in Seq(Entry) /\ r.review \in Reviews
         /\ \A k \in DOMAIN r.os : r.os[k].item \in Items /\ r.os[k].item \in Handles(r)
         /\ \A i \in ItemsOf(r.os) :
              /\ Last(r.os, i) \in DOMAIN r.os /\ r.os[Last(r.os, i)].item = i
              /\ PutBack(r.os, i) \in Stocked
              /\ i \notin raced /\ ~Changes(r.os, i) => stock[i] = PutBack(r.os, i)
<1> DEFINE r == req[q]
<1>1. r.os \in Seq(Entry) /\ r.review \in Reviews
  BY RequestTypes DEF PantryInvariant, WellFormed
<1>2. \A k \in DOMAIN r.os : r.os[k].item \in Items /\ r.os[k].item \in Handles(r)
  BY ListsAreHandled DEF PantryInvariant, Reversible
<1>3. /\ DOMAIN r.os = 1..Len(r.os) /\ Len(r.os) \in Nat
      /\ \A k \in DOMAIN r.os : r.os[k] \in Entry /\ r.os # <<>>
  BY <1>1, SeqFacts
<1>4. ASSUME NEW i \in ItemsOf(r.os)
      PROVE  /\ Last(r.os, i) \in DOMAIN r.os /\ r.os[Last(r.os, i)].item = i
             /\ PutBack(r.os, i) \in Stocked
             /\ i \notin raced /\ ~Changes(r.os, i) => stock[i] = PutBack(r.os, i)
  <2> DEFINE S == {k \in DOMAIN r.os : r.os[k].item = i}
             l == LastOf(S)
  <2>1. S \in SUBSET (1..Len(r.os)) /\ S # {}
    BY <1>3, <1>4 DEF ItemsOf
  <2>2. l \in S
    BY <1>3, <2>1, LastExists
  <2>3. Last(r.os, i) = l
    BY DEF Last
  <2>4. l \in DOMAIN r.os /\ r.os[l].item = i /\ r.os[l].before \in Stocked
    BY <1>3, <2>2 DEF Entry
  <2>5. ASSUME i \notin raced, ~Changes(r.os, i)
        PROVE  stock[i] = r.os[l].before
    <3>1. i \in CalmItems
      BY <1>2, <2>4, <2>5 DEF CalmItems
    <3>2. Once(r.os, i)
      BY <3>1 DEF PantryInvariant, WithdrawnOnce
    <3>3. Earlier(r.os, l) = {}
      <4> SUFFICES ASSUME NEW m \in 1..l-1, r.os[m].item = i PROVE FALSE
        BY <2>4 DEF Earlier
      <4>1. l \in Nat /\ m \in DOMAIN r.os /\ m # l
        BY <1>3, <2>4
      <4> QED
        BY <2>4, <3>2, <4>1 DEF Once
    <3>4. Found(r, l) = stock[i]
      BY <1>3, <2>4, <2>5, <3>3 DEF Found, PantryInvariant, SeenIsCurrent
    <3> QED
      BY <2>4, <2>5, <3>4 DEF Reversible, Changes
  <2> HIDE DEF l
  <2> QED
    BY <2>3, <2>4, <2>5 DEF PutBack
<1> QED
  BY <1>1, <1>2, <1>4

(* An undo handles a review that was confirmed, and is never open again. *)
UndoOfConfirmed ==
  \A q \in Requests : req[q].op = "undo" => review[req[q].review] \in {"confirmed", "dismissed"}

LEMMA CommitUndoKeepsInvariant ==
  ASSUME PantryInvariant, UndoOfConfirmed, NEW q \in Requests, CommitUndo(q)
  PROVE  PantryInvariant'
<1> USE DEF PantryInvariant
<1> DEFINE r == req[q]
           v == r.review
           C == ItemsOf(r.os)
           t == MarkReversed(originals[v], Len(r.os))
<1>1. /\ r.op = "undo" /\ Reversible(r) /\ Return(q)
      /\ stock' = [i \in Items |-> IF i \in C /\ Changes(r.os, i) THEN PutBack(r.os, i) ELSE stock[i]]
      /\ logged' = [i \in Items |-> IF i \in C THEN PutBack(r.os, i) ELSE logged[i]]
      /\ originals' = [originals EXCEPT ![v] = t]
      /\ undone' = [undone EXCEPT ![v] = TRUE]
      /\ UNCHANGED <<review, candidates, shop, raced>>
  BY DEF CommitUndo, PutBack
<1>2. /\ r.os \in Seq(Entry) /\ v \in Reviews
      /\ \A i \in C : /\ PutBack(r.os, i) \in Stocked /\ i \in Items /\ i \in Handles(r)
                      /\ i \notin raced /\ ~Changes(r.os, i) => stock[i] = PutBack(r.os, i)
  BY <1>1, UndoFacts, ItemsOfEntries DEF Handles
<1>3. originals[v] \in Seq(Entry) /\ Len(r.os) \in Nat
  BY <1>2, SeqFacts DEF TypeOK
<1>4. /\ t \in Seq(Entry) /\ DOMAIN t = DOMAIN originals[v]
      /\ \A k \in DOMAIN t :
           /\ t[k].item = originals[v][k].item
           /\ k <= Len(r.os) => t[k].reversed = TRUE
  BY <1>3, MarkFacts, Zenon
<1> HIDE DEF t
<1>5. /\ req'[q] = Idle
      /\ \A p \in Requests \ {q} : req'[p] = req[p]
      /\ req' \in [Requests -> Request \cup {Idle}]
      /\ WellFormed' /\ Noticed'
  BY <1>1, ReturnRequests
<1>6. /\ originals'[v] = t /\ undone'[v] = TRUE
      /\ \A u \in Reviews \ {v} : originals'[u] = originals[u] /\ undone'[u] = undone[u]
      /\ originals' \in [Reviews -> Seq(Entry)] /\ undone' \in [Reviews -> BOOLEAN]
  BY <1>1, <1>2, <1>4 DEF TypeOK
<1>7. C \subseteq Handles(r)
  BY DEF Handles
<1> HIDE DEF C
<1>8. ASSUME NEW i \in Items, i \in C
       PROVE  /\ logged'[i] = PutBack(r.os, i) /\ PutBack(r.os, i) \in Stocked
              /\ stock'[i] \in {stock[i], PutBack(r.os, i)}
              /\ i \notin raced => stock'[i] = PutBack(r.os, i)
  <2>1. i \in Items /\ logged' = [j \in Items |-> IF j \in C THEN PutBack(r.os, j) ELSE logged[j]]
    BY <1>1, <1>2, <1>8
  <2>2. stock' = [j \in Items |-> IF j \in C /\ Changes(r.os, j) THEN PutBack(r.os, j) ELSE stock[j]]
    BY <1>1
  <2>3. logged'[i] = PutBack(r.os, i)
    BY <1>8, <2>1
  <2>4. PutBack(r.os, i) \in Stocked
    BY <1>2, <1>8
  <2>5. CASE Changes(r.os, i)
    <3>1. stock'[i] = PutBack(r.os, i)
      BY <1>8, <2>1, <2>2, <2>5
    <3> QED
      BY <2>1, <2>3, <2>4, <3>1
  <2>6. CASE ~Changes(r.os, i)
    <3>1. stock'[i] = stock[i]
      BY <1>8, <2>1, <2>2, <2>6
    <3>2. i \notin raced => stock[i] = PutBack(r.os, i)
      BY <1>2, <1>8, <2>6
    <3> QED
      BY <2>1, <2>3, <2>4, <3>1, <3>2
  <2> QED
    BY <2>5, <2>6
<1>9. TypeOK'
  <2>1. ASSUME NEW i \in Items
        PROVE  stock'[i] \in Stocked \cup {Gone} /\ logged'[i] \in Stocked \cup {NoEntry}
    <3>1. stock[i] \in Stocked \cup {Gone} /\ logged[i] \in Stocked \cup {NoEntry}
      BY DEF TypeOK
    <3>2. CASE i \in C
      BY <1>8, <3>1, <3>2
    <3>3. CASE i \notin C
      BY <1>1, <3>1, <3>3
    <3> QED
      BY <3>2, <3>3
  <2>2. stock' \in [Items -> Stocked \cup {Gone}] /\ logged' \in [Items -> Stocked \cup {NoEntry}]
    BY <1>1, <2>1
  <2> QED
    BY <1>1, <1>5, <1>6, <2>2 DEF TypeOK
<1>10. SeenIsCurrent'
  <2>1. \A j \in Items \ C : stock'[j] = stock[j]
    BY <1>1
  <2>2. \A p \in Requests : req'[p] # Idle => Handles(req[p]) \cap C \subseteq raced'
    BY <1>1, <1>5, <1>7 DEF Noticed
  <2> QED
    BY <1>1, <1>5, <2>1, <2>2, StockChanges
<1>11. review[v] \in {"confirmed", "dismissed"}
  BY <1>1 DEF UndoOfConfirmed
<1>12. NothingTakenYet'
  BY <1>1, <1>6, <1>11 DEF NothingTakenYet
<1>13. \A u \in Reviews : /\ DOMAIN originals'[u] = DOMAIN originals[u]
                          /\ \A k \in DOMAIN originals[u] : originals'[u][k].item = originals[u][k].item
  BY <1>4, <1>6
<1>14. NotTakenAgain'
  <2> SUFFICES ASSUME NEW p \in Requests, req'[p].op = "confirm",
                      NEW i \in ItemsOf(req'[p].lines) \ raced, i \in ItemsOf(originals'[req'[p].review])
               PROVE  FALSE
    BY <1>1 DEF NotTakenAgain, ItemsOf
  <2>1. p # q /\ req'[p] = req[p] /\ req[p].review \in Reviews
    BY <1>5, IdleFacts DEF WellFormed
  <2>2. i \in ItemsOf(originals[req[p].review])
    BY <1>13, <2>1 DEF ItemsOf
  <2> QED
    BY <2>1, <2>2 DEF NotTakenAgain
<1>15. WithdrawnOnce'
  <2> SUFFICES ASSUME NEW i \in CalmItems
               PROVE  /\ \A u \in Reviews : Once(originals'[u], i)
                      /\ \A p \in Requests : Once(req'[p].os, i)
    BY <1>1 DEF WithdrawnOnce, CalmItems, Once
  <2>1. \A u \in Reviews : Once(originals'[u], i)
    BY <1>13 DEF WithdrawnOnce, Once
  <2>2. ASSUME NEW p \in Requests PROVE Once(req'[p].os, i)
    <3>1. CASE p = q
      BY <1>5, <3>1, IdleFacts, EmptyFacts DEF Once
    <3>2. CASE p # q
      BY <1>5, <3>2 DEF WithdrawnOnce
    <3> QED
      BY <3>1, <3>2
  <2> QED
    BY <2>1, <2>2
<1>16. \A p \in Requests \ {q} : req[p].review = v => v \in raced
  BY <1>2, ListsAreHandled DEF Noticed
<1>17. ReviewIsCurrent'
  BY <1>1, <1>2, <1>5, <1>6, <1>16, IdleFacts, Distinct DEF ReviewIsCurrent, CalmReviews
<1>18. ReviewMatchesLedger'
  <2>1. v \notin raced => \A k \in DOMAIN t : t[k].reversed = TRUE
    <3>1. v \notin raced => DOMAIN originals[v] = DOMAIN r.os
      BY <1>1, <1>2 DEF ReviewIsCurrent, CalmReviews
    <3>2. \A k \in DOMAIN r.os : k <= Len(r.os)
      BY <1>2, SeqFacts
    <3> QED
      BY <1>4, <3>1, <3>2
  <2>2. ASSUME NEW u \in Reviews \ raced
        PROVE  /\ review[u] # "confirmed" => originals'[u] = <<>> /\ ~undone'[u]
               /\ \A k \in DOMAIN originals'[u] : originals'[u][k].reversed = undone'[u]
               /\ \A k, l \in DOMAIN originals'[u] :
                    originals'[u][k].item = originals'[u][l].item /\ originals'[u][k].item # None => k = l
    <3>1. CASE u = v
      <4>1. review[u] = "confirmed" /\ u \notin raced
        BY <1>1, <2>2, <3>1 DEF ReviewIsCurrent, CalmReviews
      <4>2. \A k, l \in DOMAIN originals[u] :
              originals[u][k].item = originals[u][l].item /\ originals[u][k].item # None => k = l
        BY <2>2 DEF ReviewMatchesLedger, CalmReviews
      <4>3. originals'[v] = t /\ undone'[v] = TRUE /\ v \notin raced
        BY <1>6, <3>1, <4>1
      <4>4. \A k \in DOMAIN t : t[k].reversed = undone'[v]
        BY <2>1, <4>3
      <4>5. \A k, l \in DOMAIN t : t[k].item = t[l].item /\ t[k].item # None => k = l
        BY <1>4, <3>1, <4>2
      <4> QED
        BY <3>1, <4>1, <4>3, <4>4, <4>5
    <3>2. CASE u # v
      <4>1. originals'[u] = originals[u] /\ undone'[u] = undone[u]
        BY <1>6, <2>2, <3>2
      <4> QED
        BY <2>2, <4>1 DEF ReviewMatchesLedger, CalmReviews
    <3> QED
      BY <3>1, <3>2
  <2> QED
    BY <1>1, <2>2 DEF ReviewMatchesLedger, CalmReviews
<1>19. LedgerExplainsStock'
  <2> SUFFICES ASSUME NEW i \in Items \ raced, logged'[i] # NoEntry
               PROVE  stock'[i] = logged'[i]
    BY <1>1 DEF LedgerExplainsStock, CalmItems
  <2>1. CASE i \in C
    BY <1>8, <2>1
  <2>2. CASE i \notin C
    BY <1>1, <2>2 DEF LedgerExplainsStock, CalmItems
  <2> QED
    BY <2>1, <2>2
<1> QED
  BY <1>5, <1>9, <1>10, <1>12, <1>14, <1>15, <1>17, <1>18, <1>19

LEMMA UndoStaysOfConfirmed ==
  ASSUME PantryInvariant, UndoOfConfirmed, [Next]_vars
  PROVE  UndoOfConfirmed'
<1> USE DEF PantryInvariant
<1>1. ASSUME NEW q \in Requests, NEW r, Begin(q, r), UNCHANGED review,
             r.op = "undo" => review[r.review] = "confirmed"
      PROVE  UndoOfConfirmed'
  <2>1. req'[q] = r /\ \A p \in Requests \ {q} : req'[p] = req[p]
    BY <1>1 DEF Begin, TypeOK
  <2> QED
    BY <1>1, <2>1 DEF UndoOfConfirmed
<1>2. ASSUME NEW q \in Requests, Return(q),
             \A v \in Reviews : review'[v] = review[v] \/ review'[v] \in {"confirmed", "dismissed"}
      PROVE  UndoOfConfirmed'
  <2>1. req'[q] = Idle /\ \A p \in Requests \ {q} : req'[p] = req[p]
    BY <1>2 DEF Return, TypeOK
  <2> QED
    BY <1>2, <2>1, IdleFacts DEF UndoOfConfirmed, WellFormed
<1>3. ASSUME UNCHANGED req, \A v \in Reviews : review'[v] = review[v] \/ review[v] = "absent"
      PROVE  UndoOfConfirmed'
  BY <1>3 DEF UndoOfConfirmed, WellFormed
<1>4. CASE InventoryNext
  BY <1>3, <1>4 DEF InventoryNext, CreateItem, SetQuantity, DeleteItem
<1>5. CASE \E v \in Reviews, match \in SUBSET Items : CreateReview(v, match)
  BY <1>3, <1>5 DEF CreateReview, TypeOK
<1>6. ASSUME NEW q \in Requests, ReviewNext(q)
      PROVE  UndoOfConfirmed'
  <2>1. CASE \E v \in Reviews :
               (\E lines \in Lines : BeginConfirm(q, v, lines)) \/ BeginDismiss(q, v) \/ BeginUndo(q, v)
    BY <1>1, <2>1 DEF BeginConfirm, BeginDismiss, BeginUndo, Asking
  <2>2. CASE (\E L \in SUBSET Items : CommitConfirm(q, L)) \/ CommitDismiss(q)
    BY <1>2, <2>2 DEF CommitConfirm, CommitDismiss, TypeOK
  <2>3. CASE RefuseConfirm(q) \/ CommitUndo(q) \/ RefuseUndo(q)
    BY <1>2, <2>3 DEF RefuseConfirm, CommitUndo, RefuseUndo
  <2> QED
    BY <1>6, <2>1, <2>2, <2>3 DEF ReviewNext
<1>7. ASSUME NEW q \in Requests, ShoppingNext(q)
      PROVE  UndoOfConfirmed'
  <2>1. CASE \/ \E row \in Rows : \/ BeginComplete(q, row) \/ \E i \in Items : BeginRestock(q, row, i)
                                \/ \E op \in RowOps : BeginRow(q, row, op)
             \/ \E i \in Items : BeginAdd(q, i)
    BY <1>1, <2>1 DEF BeginComplete, BeginRestock, BeginRow, BeginAdd, Asking, AskingFor, RowOps
  <2>2. CASE \/ CommitComplete(q) \/ CommitRow(q) \/ RefuseRow(q)
             \/ \E row \in Rows : CommitAdd(q, row)
             \/ \E n \in Quantities : CommitRestock(q, n)
             \/ \E i \in Items, n \in Quantities : CommitCreate(q, i, n)
    BY <1>2, <2>2 DEF CommitComplete, CommitRow, RefuseRow, CommitAdd, CommitRestock, CommitCreate
  <2> QED
    BY <1>7, <2>1, <2>2 DEF ShoppingNext
<1>8. CASE UNCHANGED vars
  BY <1>3, <1>8 DEF vars
<1> QED
  BY <1>4, <1>5, <1>6, <1>7, <1>8 DEF Next

-----------------------------------------------------------------------------
(* The invariant holds. *)

LEMMA PantryStep ==
  PantryInvariant /\ UndoOfConfirmed /\ [Next]_vars => PantryInvariant' /\ UndoOfConfirmed'
<1> SUFFICES ASSUME PantryInvariant, UndoOfConfirmed, [Next]_vars
             PROVE  PantryInvariant'
  BY UndoStaysOfConfirmed
<1>1. CASE InventoryNext
  BY <1>1, InventoryKeepsInvariant
<1>2. CASE \E v \in Reviews, match \in SUBSET Items : CreateReview(v, match)
  BY <1>2, CreateReviewKeepsInvariant
<1>3. ASSUME NEW q \in Requests, ReviewNext(q)
      PROVE  PantryInvariant'
  <2>1. CASE \E v \in Reviews : \E lines \in Lines : BeginConfirm(q, v, lines)
    BY <2>1, BeginConfirmKeepsInvariant
  <2>2. CASE \E v \in Reviews : BeginDismiss(q, v)
    BY <2>2, BeginOtherKeepsInvariant
  <2>3. CASE \E v \in Reviews : BeginUndo(q, v)
    BY <2>3, BeginUndoKeepsInvariant
  <2>4. CASE \E L \in SUBSET Items : CommitConfirm(q, L)
    BY <2>4, CommitConfirmKeepsInvariant
  <2>5. CASE RefuseConfirm(q) \/ RefuseUndo(q)
    BY <2>5, RowStepsKeepInvariant
  <2>6. CASE CommitDismiss(q)
    BY <2>6, CommitDismissKeepsInvariant
  <2>7. CASE CommitUndo(q)
    BY <2>7, CommitUndoKeepsInvariant
  <2> QED
    BY <1>3, <2>1, <2>2, <2>3, <2>4, <2>5, <2>6, <2>7 DEF ReviewNext
<1>4. ASSUME NEW q \in Requests, ShoppingNext(q)
      PROVE  PantryInvariant'
  <2>1. CASE \/ \E row \in Rows : BeginComplete(q, row) \/ \E op \in RowOps : BeginRow(q, row, op)
             \/ \E i \in Items : BeginAdd(q, i)
    BY <2>1, BeginOtherKeepsInvariant
  <2>2. CASE \E row \in Rows : \E i \in Items : BeginRestock(q, row, i)
    BY <2>2, BeginRestockKeepsInvariant
  <2>3. CASE \/ CommitComplete(q) \/ CommitRow(q) \/ RefuseRow(q)
             \/ \E row \in Rows : CommitAdd(q, row)
    BY <2>3, RowStepsKeepInvariant
  <2>4. CASE \E n \in Quantities : CommitRestock(q, n)
    BY <2>4, CommitRestockKeepsInvariant
  <2>5. CASE \E i \in Items, n \in Quantities : CommitCreate(q, i, n)
    BY <2>5, CommitCreateKeepsInvariant
  <2> QED
    BY <1>4, <2>1, <2>2, <2>3, <2>4, <2>5 DEF ShoppingNext
<1>5. CASE UNCHANGED vars
  BY <1>5 DEF vars, PantryInvariant, TypeOK, WellFormed, Noticed, SeenIsCurrent, NothingTakenYet,
              NotTakenAgain, WithdrawnOnce, Once, ReviewIsCurrent, ReviewMatchesLedger,
              LedgerExplainsStock, CalmReviews, CalmItems, Handles, ItemsOf, OncePerItem
<1> QED
  BY <1>1, <1>2, <1>3, <1>4, <1>5 DEF Next

(***************************************************************************)
(* Whatever handlers interleave, the inductive invariant holds of the      *)
(* pantry, the reviews and the shopping list.                              *)
(***************************************************************************)
THEOREM PantryInvariantHolds == Spec => [](PantryInvariant /\ UndoOfConfirmed)
<1>1. Init => PantryInvariant /\ UndoOfConfirmed
  <2>1. Init => UndoOfConfirmed
    BY IdleFacts DEF Init, UndoOfConfirmed
  <2> QED
    BY <2>1, PantryInit
<1>2. (PantryInvariant /\ UndoOfConfirmed) /\ [Next]_vars => (PantryInvariant /\ UndoOfConfirmed)'
  BY PantryStep
<1> QED
  BY <1>1, <1>2, PTL DEF Spec

(* Every variable keeps its type. *)
THEOREM PantryTypeOK == Spec => []TypeOK
<1>1. PantryInvariant /\ UndoOfConfirmed => TypeOK
  BY DEF PantryInvariant
<1> QED
  BY <1>1, PantryInvariantHolds, PTL

(***************************************************************************)
(* The ledger holds the withdrawals of a review exactly when it was        *)
(* confirmed, one of each item, reversed exactly when it was undone,       *)
(* unless two handlers had the review at once.                             *)
(***************************************************************************)
THEOREM ReviewMatchesLedgerHolds == Spec => []ReviewMatchesLedger
<1>1. PantryInvariant /\ UndoOfConfirmed => ReviewMatchesLedger
  BY DEF PantryInvariant
<1> QED
  BY <1>1, PantryInvariantHolds, PTL

(***************************************************************************)
(* The newest ledger row of an item says what is in stock until            *)
(* inventory.py writes the item, unless two handlers had it at once.       *)
(***************************************************************************)
THEOREM LedgerExplainsStockHolds == Spec => []LedgerExplainsStock
<1>1. PantryInvariant /\ UndoOfConfirmed => LedgerExplainsStock
  BY DEF PantryInvariant
<1> QED
  BY <1>1, PantryInvariantHolds, PTL

-----------------------------------------------------------------------------
(***************************************************************************)
(* Pantry implements StockLedger: each step of a handler is, seen through  *)
(* the refinement mapping, a step of the ledger or none.  The inductive    *)
(* invariant says that what a handler has read still holds of every item   *)
(* and review that no other request handles.                               *)
(***************************************************************************)

(* What was taken *)

(* Where an item occurs once, what was taken of it is what that row says. *)
LEMMA TakenFacts ==
  ASSUME NEW s, NEW C, \A i \in C : Once(s, i)
  PROVE  /\ DOMAIN Taken(s, C) = ItemsOf(s) \cap C
         /\ \A k \in DOMAIN s : s[k].item \in C /\ s[k].item # None =>
              /\ s[k].item \in DOMAIN Taken(s, C)
              /\ RowOf(s, s[k].item) = k
              /\ Taken(s, C)[s[k].item].before = s[k].before
              /\ Taken(s, C)[s[k].item].after = s[k].after
<1>1. DOMAIN Taken(s, C) = ItemsOf(s) \cap C
  BY DEF Taken
<1>2. ASSUME NEW k \in DOMAIN s, s[k].item \in C, s[k].item # None
      PROVE  /\ s[k].item \in DOMAIN Taken(s, C)
             /\ RowOf(s, s[k].item) = k
             /\ Taken(s, C)[s[k].item].before = s[k].before
             /\ Taken(s, C)[s[k].item].after = s[k].after
  <2> DEFINE i == s[k].item
  <2>1. RowOf(s, i) = k
    <3>1. RowOf(s, i) \in DOMAIN s /\ s[RowOf(s, i)].item = i
      BY DEF RowOf
    <3> QED
      BY <1>2, <3>1 DEF Once
  <2>2. i \in ItemsOf(s) \cap C
    BY <1>2 DEF ItemsOf
  <2>3. Taken(s, C)[i] = [before |-> s[RowOf(s, i)].before, after |-> s[RowOf(s, i)].after]
    BY <2>2 DEF Taken
  <2> QED
    BY <1>1, <2>1, <2>2, <2>3
<1> QED
  BY <1>1, <1>2

(* Two lists that say the same of the items of C have the same taken. *)
LEMMA TakenSame ==
  ASSUME NEW s, NEW t, NEW C,
         \A i \in C : Once(s, i), \A i \in C : Once(t, i),
         DOMAIN s = DOMAIN t,
         \A k \in DOMAIN s : /\ s[k].before = t[k].before
                             /\ s[k].after = t[k].after
                             /\ s[k].item \in C \/ t[k].item \in C => s[k].item = t[k].item
  PROVE  Taken(s, C) = Taken(t, C)
<1>1. ItemsOf(s) \cap C = ItemsOf(t) \cap C
  BY DEF ItemsOf
<1>2. \A k \in DOMAIN s : s[k].item \in C /\ s[k].item # None => RowOf(s, s[k].item) = k
  BY TakenFacts
<1>3. \A k \in DOMAIN t : t[k].item \in C /\ t[k].item # None => RowOf(t, t[k].item) = k
  BY TakenFacts
<1>4. ASSUME NEW i \in ItemsOf(s) \cap C
      PROVE  /\ s[RowOf(s, i)].before = t[RowOf(t, i)].before
             /\ s[RowOf(s, i)].after = t[RowOf(t, i)].after
  <2>1. PICK k \in DOMAIN s : s[k].item = i /\ i # None /\ i \in C /\ t[k].item = i
    BY <1>4 DEF ItemsOf
  <2> QED
    BY <1>2, <1>3, <2>1
<1> QED
  BY <1>1, <1>4 DEF Taken

(* Fewer items. *)
LEMMA TakenRestricted ==
  ASSUME NEW s, NEW C, NEW D, D \subseteq C
  PROVE  Taken(s, D) = Restrict(Taken(s, C), DOMAIN Taken(s, C) \cap D)
BY DEF Taken, Restrict

-----------------------------------------------------------------------------
(* The mapping *)

LEMMA MappedFacts ==
  /\ DOMAIN LedgerStock = CalmItems
  /\ \A i \in CalmItems : LedgerStock[i] = stock[i]
  /\ DOMAIN LedgerStatus = CalmReviews
  /\ \A v \in CalmReviews : LedgerStatus[v] = IF undone[v] THEN "undone" ELSE review[v]
  /\ DOMAIN LedgerTaken = CalmReviews
  /\ \A v \in CalmReviews : LedgerTaken[v] = Taken(originals[v], CalmItems)
  /\ DOMAIN LedgerLost = CalmReviews
  /\ \A v \in CalmReviews :
       LedgerLost[v] = \E k \in DOMAIN originals[v] : originals[v][k].item = None
BY DEF LedgerStock, LedgerStatus, LedgerTaken, LedgerLost, Restrict


(* A step that changes nothing of what is mapped. *)
LEMMA StutterStep ==
  ASSUME UNCHANGED raced,
         \A i \in CalmItems : stock'[i] = stock[i],
         \A v \in CalmReviews :
           undone'[v] = undone[v] /\ review'[v] = review[v] /\ originals'[v] = originals[v]
  PROVE  UNCHANGED Ledger!vars
<1>1. CalmItems' = CalmItems /\ CalmReviews' = CalmReviews
  BY DEF CalmItems, CalmReviews
<1> QED
  BY <1>1 DEF Ledger!vars, LedgerStock, LedgerStatus, LedgerTaken, LedgerLost, Restrict

-----------------------------------------------------------------------------
(* Steps of the ledger *)

(* Items and reviews leave the promise; the others are left alone. *)
LEMMA DisturbStep ==
  ASSUME raced \subseteq raced',
         \A i \in CalmItems' : stock'[i] = stock[i],
         \A v \in CalmReviews' :
           /\ undone'[v] = undone[v]
           /\ review'[v] = review[v]
           /\ Taken(originals'[v], CalmItems') = Taken(originals[v], CalmItems')
           /\ (\E k \in DOMAIN originals[v] : originals[v][k].item = None)
                => \E k \in DOMAIN originals'[v] : originals'[v][k].item = None
  PROVE  Ledger!Disturb
<1>1. CalmItems' \subseteq CalmItems /\ CalmReviews' \subseteq CalmReviews
  BY DEF CalmItems, CalmReviews
<1>2. LedgerStock' = Restrict(LedgerStock, CalmItems')
  BY <1>1 DEF LedgerStock, Restrict
<1>3. LedgerStatus' = Restrict(LedgerStatus, CalmReviews')
  BY <1>1 DEF LedgerStatus, Restrict
<1>4. LedgerTaken' = [v \in CalmReviews' |->
                        Restrict(LedgerTaken[v], DOMAIN LedgerTaken[v] \cap CalmItems')]
  <2>1. \A v \in CalmReviews' : LedgerTaken'[v] =
          Restrict(LedgerTaken[v], DOMAIN LedgerTaken[v] \cap CalmItems')
    BY <1>1, TakenRestricted DEF LedgerTaken
  <2> QED
    BY <2>1 DEF LedgerTaken
<1>5. \A v \in CalmReviews' : LedgerLost[v] => LedgerLost'[v]
  BY <1>1 DEF LedgerLost
<1>6. /\ DOMAIN LedgerStock = CalmItems /\ DOMAIN LedgerStatus = CalmReviews
      /\ DOMAIN LedgerStock' = CalmItems' /\ DOMAIN LedgerStatus' = CalmReviews'
      /\ DOMAIN LedgerLost' = CalmReviews'
  BY DEF LedgerStock, LedgerStatus, LedgerLost, Restrict
<1> QED
  BY <1>1, <1>2, <1>3, <1>4, <1>5, <1>6 DEF Ledger!Disturb, Ledger!Restrict, Restrict

(* Someone sets the stock and deletes the items D; no review moves on. *)
LEMMA SetStep ==
  ASSUME UNCHANGED raced, NEW D \in SUBSET CalmItems,
         \A i \in CalmItems : i \in D <=> stock[i] # Gone /\ stock'[i] = Gone,
         \A v \in CalmReviews :
           /\ undone'[v] = undone[v]
           /\ review'[v] = review[v]
           /\ Taken(originals'[v], CalmItems) =
                Restrict(Taken(originals[v], CalmItems), DOMAIN Taken(originals[v], CalmItems) \ D)
           /\ (\E k \in DOMAIN originals'[v] : originals'[v][k].item = None) <=>
                \/ \E k \in DOMAIN originals[v] : originals[v][k].item = None
                \/ DOMAIN Taken(originals[v], CalmItems) \cap D # {}
  PROVE  Ledger!Set
<1>1. CalmItems' = CalmItems /\ CalmReviews' = CalmReviews
  BY DEF CalmItems, CalmReviews
<1>2. DOMAIN LedgerStock' = DOMAIN LedgerStock /\ DOMAIN LedgerStatus = CalmReviews
  BY <1>1 DEF LedgerStock, LedgerStatus, Restrict
<1>3. Ledger!Deleted = D
  BY <1>1 DEF Ledger!Deleted, LedgerStock, Restrict
<1>4. LedgerStatus' = LedgerStatus
  BY <1>1 DEF LedgerStatus
<1>5. LedgerTaken' = [v \in CalmReviews |-> Restrict(LedgerTaken[v], DOMAIN LedgerTaken[v] \ D)]
  <2>1. \A v \in CalmReviews : LedgerTaken'[v] = Restrict(LedgerTaken[v], DOMAIN LedgerTaken[v] \ D)
    BY <1>1 DEF LedgerTaken
  <2> QED
    BY <1>1, <2>1 DEF LedgerTaken
<1>6. LedgerLost' = [v \in CalmReviews |-> LedgerLost[v] \/ DOMAIN LedgerTaken[v] \cap D # {}]
  <2>1. \A v \in CalmReviews :
          LedgerLost'[v] <=> LedgerLost[v] \/ DOMAIN LedgerTaken[v] \cap D # {}
    BY <1>1 DEF LedgerLost, LedgerTaken
  <2> QED
    BY <1>1, <2>1 DEF LedgerLost
<1> QED
  BY <1>2, <1>3, <1>4, <1>5, <1>6 DEF Ledger!Set, Ledger!Restrict, Restrict

(* The stock is set, and nothing is deleted. *)
LEMMA KeepStep ==
  ASSUME UNCHANGED raced,
         \A i \in CalmItems : stock'[i] = Gone => stock[i] = Gone,
         \A v \in CalmReviews :
           undone'[v] = undone[v] /\ review'[v] = review[v] /\ originals'[v] = originals[v]
  PROVE  Ledger!Set
<1> DEFINE D == {}
<1>1. D \in SUBSET CalmItems /\ \A i \in CalmItems : i \in D <=> stock[i] # Gone /\ stock'[i] = Gone
  OBVIOUS
<1>2. ASSUME NEW v \in CalmReviews
      PROVE  /\ Taken(originals'[v], CalmItems) =
                  Restrict(Taken(originals[v], CalmItems), DOMAIN Taken(originals[v], CalmItems) \ D)
             /\ (\E k \in DOMAIN originals'[v] : originals'[v][k].item = None) <=>
                  \/ \E k \in DOMAIN originals[v] : originals[v][k].item = None
                  \/ DOMAIN Taken(originals[v], CalmItems) \cap D # {}
  BY DEF Taken, Restrict
<1> HIDE DEF D
<1> QED
  BY <1>1, <1>2, SetStep

-----------------------------------------------------------------------------
(* What each step of a handler is to the ledger *)

LEMMA LedgerSteps ==
  /\ Ledger!Disturb => [Ledger!Next]_Ledger!vars
  /\ Ledger!Set => [Ledger!Next]_Ledger!vars
  /\ UNCHANGED Ledger!vars => [Ledger!Next]_Ledger!vars
  /\ \A v \in CalmReviews :
       Ledger!Pass(v) \/ Ledger!Withdraw(v) \/ Ledger!GiveBack(v) => [Ledger!Next]_Ledger!vars
<1>1. DOMAIN LedgerStatus = CalmReviews
  BY DEF LedgerStatus
<1> QED
  BY <1>1 DEF Ledger!Next

(* One item is set to what is not Gone, by a step that leaves the reviews alone. *)
LEMMA StockIsSet ==
  ASSUME TypeOK, NEW i \in Items, NEW n \in Stocked,
         \A j \in Items \ {i} : stock'[j] = stock[j], stock'[i] = n,
         raced' = raced \/ (raced \subseteq raced' /\ i \in raced'),
         UNCHANGED <<review, undone, originals>>
  PROVE  [Ledger!Next]_Ledger!vars
<1>1. CASE raced' = raced
  <2>1. \A j \in CalmItems : stock'[j] = Gone => stock[j] = Gone
    BY Distinct DEF CalmItems
  <2> QED
    BY <1>1, <2>1, KeepStep, LedgerSteps
<1>2. CASE raced \subseteq raced' /\ i \in raced'
  <2>1. \A j \in CalmItems' : stock'[j] = stock[j]
    BY <1>2 DEF CalmItems
  <2> QED
    BY <1>2, <2>1, DisturbStep, LedgerSteps
<1> QED
  BY <1>1, <1>2

LEMMA BeginIsDisturb ==
  ASSUME raced \subseteq raced', UNCHANGED <<stock, review, undone, originals>>
  PROVE  [Ledger!Next]_Ledger!vars
BY DisturbStep, LedgerSteps

LEMMA RestIsStutter ==
  ASSUME UNCHANGED <<stock, review, undone, originals, raced>>
  PROVE  [Ledger!Next]_Ledger!vars
BY StutterStep, LedgerSteps

LEMMA OverwriteIsSet ==
  ASSUME TypeOK, NEW i \in Items, NEW n \in Stocked, Overwrite(i, n),
         UNCHANGED <<review, undone, originals>>
  PROVE  [Ledger!Next]_Ledger!vars
<1>1. /\ stock' = [stock EXCEPT ![i] = n] /\ stock \in [Items -> Stocked \cup {Gone}]
      /\ raced' = raced \/ (raced \subseteq raced' /\ i \in raced')
  BY DEF Overwrite, TypeOK
<1> QED
  BY <1>1, StockIsSet

LEMMA CommitCreateIsSet ==
  ASSUME TypeOK, NEW q \in Requests, NEW i \in Items, NEW n \in Quantities, CommitCreate(q, i, n)
  PROVE  [Ledger!Next]_Ledger!vars
<1>1. /\ stock' = [stock EXCEPT ![i] = n] /\ stock \in [Items -> Stocked \cup {Gone}]
      /\ raced' = raced \/ (raced \subseteq raced' /\ i \in raced')
      /\ UNCHANGED <<review, undone, originals>>
  BY DEF CommitCreate, TypeOK
<1>2. n \in Stocked
  BY DEF Stocked
<1> QED
  BY <1>1, <1>2, StockIsSet

LEMMA CommitRestockIsSet ==
  ASSUME PantryInvariant, NEW q \in Requests, NEW n \in Quantities, CommitRestock(q, n)
  PROVE  [Ledger!Next]_Ledger!vars
<1> DEFINE r == req[q]
           i == r.lines[1].item
           after == IF r.seen = Unknown THEN n ELSE r.seen + n
<1>1. /\ r.op = "restock" /\ stock[i] # Gone /\ after <= MaxQuantity
      /\ stock' = [stock EXCEPT ![i] = IF after # r.seen THEN after ELSE stock[i]]
      /\ UNCHANGED <<review, undone, originals, raced>>
  BY DEF CommitRestock
<1>2. r.lines \in Seq(Line) /\ Len(r.lines) = 1
  BY <1>1, RequestTypes DEF PantryInvariant, WellFormed
<1>3. r.lines # <<>> /\ r.seen \in Stocked
  BY <1>2, EmptyFacts DEF PantryInvariant, WellFormed
<1>4. i \in Items
  BY <1>3, ListsAreHandled DEF PantryInvariant
<1>5. after \in Stocked /\ stock[i] \in Stocked
  <2>1. after \in Stocked
    BY <1>1, <1>3, Distinct, PantryAssumption DEF Stocked, Quantities
  <2>2. stock[i] \in Stocked
    BY <1>1, <1>4 DEF PantryInvariant, TypeOK
  <2> QED
    BY <2>1, <2>2
<1> HIDE DEF after, i
<1> DEFINE m == IF after # r.seen THEN after ELSE stock[i]
<1>6. m \in Stocked /\ stock'[i] = m /\ \A j \in Items \ {i} : stock'[j] = stock[j]
  BY <1>1, <1>4, <1>5 DEF PantryInvariant, TypeOK
<1> HIDE DEF m
<1> QED
  BY <1>1, <1>4, <1>6, StockIsSet DEF PantryInvariant

-----------------------------------------------------------------------------
(* A deleted item *)

(* What was taken of an item that is forgotten is taken no more. *)
LEMMA ForgetTaken ==
  ASSUME NEW s \in Seq(Entry), NEW i \in Items, NEW C \in SUBSET Items, \A j \in C : Once(s, j)
  PROVE  /\ Taken(Forget(s, i), C) = Restrict(Taken(s, C), DOMAIN Taken(s, C) \ {i})
         /\ i \notin C => Taken(Forget(s, i), C) = Taken(s, C)
         /\ (\E k \in DOMAIN Forget(s, i) : Forget(s, i)[k].item = None) <=>
              (\E k \in DOMAIN s : s[k].item = None) \/ i \in ItemsOf(s)
<1> DEFINE t == Forget(s, i)
           D == C \ {i}
<1>1. /\ DOMAIN t = DOMAIN s
      /\ \A k \in DOMAIN s :
           /\ t[k].item = IF s[k].item = i THEN None ELSE s[k].item
           /\ t[k].before = s[k].before
           /\ t[k].after = s[k].after
  BY ForgetFacts
<1> HIDE DEF t
<1>2. ItemsOf(t) \cap C = ItemsOf(t) \cap D /\ None \notin C
  BY <1>1, Distinct DEF ItemsOf
<1>3. Taken(t, C) = Taken(t, D)
  BY <1>2 DEF Taken
<1>4. \A j \in D : Once(s, j)
  OBVIOUS
<1>5. \A j \in D : Once(t, j)
  BY <1>1, <1>2, <1>4 DEF Once
<1>6. \A k \in DOMAIN t : /\ t[k].before = s[k].before
                          /\ t[k].after = s[k].after
                          /\ t[k].item \in D \/ s[k].item \in D => t[k].item = s[k].item
  BY <1>1, <1>2
<1> HIDE DEF D
<1>7. Taken(t, D) = Taken(s, D)
  BY <1>1, <1>4, <1>5, <1>6, TakenSame
<1>8. Taken(s, D) = Restrict(Taken(s, C), DOMAIN Taken(s, C) \ {i})
  BY DEF D, Taken, Restrict
<1>9. i \notin C => Taken(t, C) = Taken(s, C)
  BY <1>3, <1>7 DEF D
<1>10. (\E k \in DOMAIN t : t[k].item = None) <=> (\E k \in DOMAIN s : s[k].item = None) \/ i \in ItemsOf(s)
  BY <1>1, Distinct DEF ItemsOf
<1> QED
  BY <1>3, <1>7, <1>8, <1>9, <1>10 DEF t

LEMMA DeleteIsSet ==
  ASSUME PantryInvariant, NEW i \in Items, DeleteItem(i)
  PROVE  [Ledger!Next]_Ledger!vars
<1>1. /\ stock[i] # Gone /\ stock' = [stock EXCEPT ![i] = Gone]
      /\ raced' = raced \/ (raced \subseteq raced' /\ i \in raced')
      /\ originals' = [v \in Reviews |-> Forget(originals[v], i)]
      /\ UNCHANGED <<review, undone>>
  BY DEF DeleteItem, Overwrite
<1>2. stock'[i] = Gone /\ \A j \in Items \ {i} : stock'[j] = stock[j]
  BY <1>1 DEF PantryInvariant, TypeOK
<1>3. \A v \in Reviews : originals[v] \in Seq(Entry)
  BY DEF PantryInvariant, TypeOK
<1>4. \A v \in Reviews : \A j \in CalmItems : Once(originals[v], j)
  BY DEF PantryInvariant, WithdrawnOnce
<1>5. CASE raced' = raced /\ i \notin raced
  <2>1. CalmItems \in SUBSET Items /\ i \in CalmItems /\ {i} \in SUBSET CalmItems
    BY <1>5 DEF CalmItems
  <2>2. \A j \in CalmItems : j \in {i} <=> stock[j] # Gone /\ stock'[j] = Gone
    BY <1>1, <1>2, <2>1
  <2>3. ASSUME NEW v \in CalmReviews
        PROVE  /\ undone'[v] = undone[v]
               /\ review'[v] = review[v]
               /\ Taken(originals'[v], CalmItems) =
                    Restrict(Taken(originals[v], CalmItems), DOMAIN Taken(originals[v], CalmItems) \ {i})
               /\ (\E k \in DOMAIN originals'[v] : originals'[v][k].item = None) <=>
                    \/ \E k \in DOMAIN originals[v] : originals[v][k].item = None
                    \/ DOMAIN Taken(originals[v], CalmItems) \cap {i} # {}
    <3>1. v \in Reviews /\ originals'[v] = Forget(originals[v], i)
      BY <1>1 DEF CalmReviews
    <3>2. /\ Taken(originals'[v], CalmItems) =
               Restrict(Taken(originals[v], CalmItems), DOMAIN Taken(originals[v], CalmItems) \ {i})
          /\ (\E k \in DOMAIN originals'[v] : originals'[v][k].item = None) <=>
               (\E k \in DOMAIN originals[v] : originals[v][k].item = None) \/ i \in ItemsOf(originals[v])
      <4> DEFINE s == originals[v]
                 C == CalmItems
      <4>1. s \in Seq(Entry) /\ C \in SUBSET Items /\ \A j \in C : Once(s, j)
        BY <1>3, <1>4, <2>1, <3>1
      <4> HIDE DEF s, C
      <4>2. /\ Taken(Forget(s, i), C) = Restrict(Taken(s, C), DOMAIN Taken(s, C) \ {i})
            /\ (\E k \in DOMAIN Forget(s, i) : Forget(s, i)[k].item = None) <=>
                 (\E k \in DOMAIN s : s[k].item = None) \/ i \in ItemsOf(s)
        BY <4>1, ForgetTaken
      <4> QED
        BY <3>1, <4>2, Zenon DEF s, C
    <3>3. i \in ItemsOf(originals[v]) <=> DOMAIN Taken(originals[v], CalmItems) \cap {i} # {}
      BY <2>1 DEF Taken
    <3> QED
      BY <1>1, <3>2, <3>3
  <2>4. Ledger!Set
    BY <1>5, <2>1, <2>2, <2>3, SetStep
  <2> QED
    BY <2>4, LedgerSteps
<1>6. CASE raced \subseteq raced' /\ i \in raced'
  <2>1. CalmItems' \in SUBSET Items /\ CalmItems' \subseteq CalmItems /\ i \notin CalmItems'
    BY <1>6 DEF CalmItems
  <2>2. \A j \in CalmItems' : stock'[j] = stock[j]
    BY <1>2, <2>1
  <2>3. ASSUME NEW v \in Reviews
        PROVE  /\ Taken(originals'[v], CalmItems') = Taken(originals[v], CalmItems')
               /\ (\E k \in DOMAIN originals[v] : originals[v][k].item = None)
                    => \E k \in DOMAIN originals'[v] : originals'[v][k].item = None
    <3> DEFINE s == originals[v]
               C == CalmItems'
    <3>1. s \in Seq(Entry) /\ C \in SUBSET Items /\ i \notin C /\ \A j \in C : Once(s, j)
      BY <1>3, <1>4, <2>1
    <3>2. originals'[v] = Forget(s, i)
      BY <1>1
    <3> HIDE DEF s, C
    <3>3. /\ Taken(Forget(s, i), C) = Taken(s, C)
          /\ (\E k \in DOMAIN s : s[k].item = None) =>
               \E k \in DOMAIN Forget(s, i) : Forget(s, i)[k].item = None
      BY <3>1, ForgetTaken
    <3> QED
      BY <3>2, <3>3, Zenon DEF s, C
  <2>4. Ledger!Disturb
    BY <1>1, <1>6, <2>2, <2>3, DisturbStep DEF CalmReviews
  <2> QED
    BY <2>4, LedgerSteps
<1> QED
  BY <1>1, <1>5, <1>6

-----------------------------------------------------------------------------
(* Reviews that are created and dismissed *)

LEMMA PassStep ==
  ASSUME NEW v \in CalmReviews, review \in [Reviews -> {"absent", "pending", "confirmed", "dismissed"}],
         ~undone[v], NEW to, review' = [review EXCEPT ![v] = to],
         (review[v] = "absent" /\ to = "pending") \/ (review[v] = "pending" /\ to = "dismissed"),
         UNCHANGED <<stock, undone, originals, raced>>
  PROVE  Ledger!Pass(v)
<1>1. CalmItems' = CalmItems /\ CalmReviews' = CalmReviews /\ v \in Reviews
  BY DEF CalmItems, CalmReviews
<1>2. UNCHANGED <<LedgerStock, LedgerTaken, LedgerLost>>
  BY <1>1 DEF LedgerStock, LedgerTaken, LedgerLost, Restrict
<1>3. LedgerStatus[v] = review[v]
  BY DEF LedgerStatus
<1>4. LedgerStatus' = [LedgerStatus EXCEPT ![v] = to]
  <2>1. \A u \in CalmReviews : LedgerStatus'[u] = IF u = v THEN to ELSE LedgerStatus[u]
    BY <1>1 DEF LedgerStatus, CalmReviews
  <2> QED
    BY <1>1, <2>1 DEF LedgerStatus
<1> QED
  BY <1>2, <1>3, <1>4 DEF Ledger!Pass, Ledger!Become

LEMMA CreateReviewIsPass ==
  ASSUME PantryInvariant, NEW v \in Reviews, NEW match \in SUBSET Items, CreateReview(v, match)
  PROVE  [Ledger!Next]_Ledger!vars
<1>1. /\ review[v] = "absent" /\ review' = [review EXCEPT ![v] = "pending"]
      /\ UNCHANGED <<stock, undone, originals, raced>>
  BY DEF CreateReview
<1>2. review \in [Reviews -> {"absent", "pending", "confirmed", "dismissed"}] /\ ~undone[v]
  BY <1>1 DEF PantryInvariant, TypeOK, NothingTakenYet
<1>3. CASE v \in CalmReviews
  <2> DEFINE to == "pending"
  <2>1. review' = [review EXCEPT ![v] = to] /\ to = "pending"
    BY <1>1
  <2> HIDE DEF to
  <2>2. Ledger!Pass(v)
    BY <1>1, <1>2, <1>3, <2>1, PassStep
  <2> QED
    BY <1>3, <2>2, LedgerSteps
<1>4. CASE v \notin CalmReviews
  <2>1. \A u \in CalmReviews : review'[u] = review[u]
    BY <1>1, <1>2, <1>4 DEF CalmReviews
  <2> QED
    BY <1>1, <2>1, StutterStep, LedgerSteps
<1> QED
  BY <1>3, <1>4

LEMMA CommitDismissIsPass ==
  ASSUME PantryInvariant, NEW q \in Requests, CommitDismiss(q)
  PROVE  [Ledger!Next]_Ledger!vars
<1> DEFINE v == req[q].review
<1>1. /\ req[q].op = "dismiss" /\ review' = [review EXCEPT ![v] = "dismissed"]
      /\ UNCHANGED <<stock, undone, originals, raced>>
  BY DEF CommitDismiss
<1>2. review \in [Reviews -> {"absent", "pending", "confirmed", "dismissed"}] /\ v \in Reviews
  BY <1>1 DEF PantryInvariant, TypeOK, WellFormed
<1>3. CASE v \in CalmReviews
  <2>1. review[v] = "pending"
    BY <1>1, <1>3 DEF PantryInvariant, ReviewIsCurrent
  <2>2. ~undone[v]
    BY <1>2, <2>1 DEF PantryInvariant, NothingTakenYet
  <2> HIDE DEF v
  <2> QED
    BY <1>1, <1>2, <1>3, <2>1, <2>2, PassStep, LedgerSteps
<1>4. CASE v \notin CalmReviews
  <2>1. \A u \in CalmReviews : review'[u] = review[u]
    BY <1>1, <1>2, <1>4 DEF CalmReviews
  <2> QED
    BY <1>1, <2>1, StutterStep, LedgerSteps
<1> QED
  BY <1>3, <1>4

-----------------------------------------------------------------------------
(* Confirmations *)

(***************************************************************************)
(* A confirmation of a review that is nobody else's takes, of the items    *)
(* that are nobody else's, what its ledger rows say.                       *)
(***************************************************************************)
LEMMA CommitConfirmIsWithdraw ==
  ASSUME PantryInvariant, NEW q \in Requests, NEW L \in SUBSET Items, CommitConfirm(q, L)
  PROVE  [Ledger!Next]_Ledger!vars
<1> DEFINE r == req[q]
           v == r.review
           W == Withdrawals(r)
<1>1. /\ r.op = "confirm" /\ Passes(r)
      /\ stock' = [i \in Items |->
                     IF i \in ItemsOf(r.lines) /\ After(r, LineOf(r, i)) # Before(r, LineOf(r, i))
                     THEN After(r, LineOf(r, i)) ELSE stock[i]]
      /\ originals' = [originals EXCEPT ![v] = originals[v] \o W]
      /\ review' = [review EXCEPT ![v] = "confirmed"]
      /\ undone' = [undone EXCEPT ![v] = FALSE]
      /\ UNCHANGED raced
  BY DEF CommitConfirm
<1>2. /\ r.lines \in Seq(Line) /\ OncePerItem(r.lines) /\ v \in Reviews
      /\ \A k \in DOMAIN r.lines :
           /\ r.lines[k].item \in Items
           /\ Before(r, k) \in Stocked /\ After(r, k) \in Stocked
           /\ r.lines[k].item \notin raced => Before(r, k) = stock[r.lines[k].item]
           /\ LineOf(r, r.lines[k].item) = k
      /\ \A i \in ItemsOf(r.lines) :
           LineOf(r, i) \in DOMAIN r.lines /\ r.lines[LineOf(r, i)].item = i
  BY <1>1, ConfirmFacts
<1>3. \A k \in DOMAIN r.lines : MayTake(Before(r, k), r.lines[k].take)
  BY <1>1 DEF Passes
<1>4. /\ review \in [Reviews -> {"absent", "pending", "confirmed", "dismissed"}]
      /\ undone \in [Reviews -> BOOLEAN] /\ originals \in [Reviews -> Seq(Entry)]
      /\ NothingTakenYet /\ ReviewIsCurrent
  BY DEF PantryInvariant, TypeOK
<1>5. \A u \in Reviews \ {v} :
        review'[u] = review[u] /\ undone'[u] = undone[u] /\ originals'[u] = originals[u]
  BY <1>1, <1>4
<1>6. CalmItems' = CalmItems /\ CalmReviews' = CalmReviews
      /\ CalmItems \subseteq Items /\ CalmReviews \subseteq Reviews
  BY <1>1 DEF CalmItems, CalmReviews
<1>7. ASSUME NEW i \in CalmItems
      PROVE  /\ i \in ItemsOf(r.lines) =>
                  /\ stock[i] = Before(r, LineOf(r, i))
                  /\ stock'[i] = After(r, LineOf(r, i))
                  /\ stock'[i] \in Stocked
             /\ i \notin ItemsOf(r.lines) => stock'[i] = stock[i]
  BY <1>1, <1>2, <1>6 DEF CalmItems
<1>8. CASE v \notin CalmReviews
  <2>1. \A i \in CalmItems : stock'[i] = Gone => stock[i] = Gone
    BY <1>7, Distinct
  <2>2. \A u \in CalmReviews :
          undone'[u] = undone[u] /\ review'[u] = review[u] /\ originals'[u] = originals[u]
    BY <1>5, <1>6, <1>8
  <2> QED
    BY <1>1, <2>1, <2>2, KeepStep, LedgerSteps
<1>9. CASE v \in CalmReviews
  <2>1. review[v] = "pending" /\ originals[v] = <<>> /\ undone[v] = FALSE
    BY <1>1, <1>2, <1>4, <1>9 DEF NothingTakenYet, ReviewIsCurrent
  <2>2. originals'[v] = W
    BY <1>1, <1>2, <1>4, <2>1, EmptyFacts, WithdrawalFacts
  <2>3. /\ DOMAIN W = DOMAIN r.lines
        /\ \A k \in DOMAIN W : /\ W[k].item = r.lines[k].item
                               /\ W[k].before = Before(r, k)
                               /\ W[k].after = After(r, k)
    BY DEF Withdrawals
  <2> HIDE DEF W, r
  <2>4. ItemsOf(W) = ItemsOf(r.lines) /\ \A i \in CalmItems : Once(W, i)
    BY <1>2, <2>3 DEF ItemsOf, Once, OncePerItem
  <2> DEFINE T == Taken(W, CalmItems)
  <2>5. DOMAIN T = ItemsOf(r.lines) \cap CalmItems
    BY <2>4, TakenFacts
  <2>6. ASSUME NEW i \in DOMAIN T
        PROVE  /\ T[i].before = stock[i]
               /\ T[i].after = stock'[i]
               /\ Ledger!NoMoreThan(T[i].after, T[i].before)
    <3> DEFINE k == LineOf(r, i)
    <3>1. k \in DOMAIN W /\ W[k].item = i /\ i \in CalmItems /\ i \in Items
      BY <1>2, <1>6, <2>3, <2>5
    <3>2. T[i].before = W[k].before /\ T[i].after = W[k].after
      <4>1. \A l \in DOMAIN W : W[l].item \in CalmItems /\ W[l].item # None =>
              T[W[l].item].before = W[l].before /\ T[W[l].item].after = W[l].after
        BY <2>4, TakenFacts
      <4> QED
        BY <3>1, <4>1, Distinct
    <3>3. T[i].before = Before(r, k) /\ T[i].after = After(r, k)
      BY <2>3, <3>1, <3>2
    <3>4. MayTake(Before(r, k), r.lines[k].take) /\ Before(r, k) \in Stocked
      BY <1>2, <1>3, <2>3, <3>1
    <3>5. r.lines[k].take \in Quantities \cup {All}
      <4>1. \A l \in DOMAIN r.lines : r.lines[l] \in Line
        BY <1>2, SeqFacts
      <4> QED
        BY <2>3, <3>1, <4>1 DEF Line
    <3>6. Ledger!NoMoreThan(After(r, k), Before(r, k))
      BY <3>4, <3>5, Distinct, PantryAssumption
         DEF Ledger!NoMoreThan, MayTake, After, Taking, Stocked, Quantities
    <3> QED
      BY <1>7, <2>5, <3>3, <3>6
  <2>7. LedgerStatus[v] = "pending" /\ LedgerStatus' = [LedgerStatus EXCEPT ![v] = "confirmed"]
    <3>1. \A u \in CalmReviews : LedgerStatus'[u] = IF u = v THEN "confirmed" ELSE LedgerStatus[u]
      BY <1>1, <1>2, <1>4, <1>5, <1>6 DEF LedgerStatus
    <3> QED
      BY <1>6, <1>9, <2>1, <3>1 DEF LedgerStatus
  <2>8. LedgerTaken'[v] = T /\ LedgerTaken' = [LedgerTaken EXCEPT ![v] = LedgerTaken'[v]]
    <3>1. \A u \in CalmReviews \ {v} : LedgerTaken'[u] = LedgerTaken[u]
      BY <1>5, <1>6 DEF LedgerTaken
    <3>2. LedgerTaken'[v] = T
      BY <1>6, <1>9, <2>2 DEF LedgerTaken
    <3> QED
      BY <1>6, <3>1, <3>2 DEF LedgerTaken
  <2>9. LedgerStock' = [i \in DOMAIN LedgerStock |->
                          IF i \in DOMAIN T THEN T[i].after ELSE LedgerStock[i]]
    <3>1. \A i \in CalmItems : LedgerStock'[i] = IF i \in DOMAIN T THEN T[i].after ELSE LedgerStock[i]
      BY <1>6, <1>7, <2>5, <2>6 DEF LedgerStock, Restrict
    <3> HIDE DEF T
    <3> QED
      BY <1>6, <3>1 DEF LedgerStock, Restrict
  <2>10. \A i \in DOMAIN T : T[i].before = LedgerStock[i]
    BY <2>5, <2>6 DEF LedgerStock, Restrict
  <2>11. UNCHANGED LedgerLost
    <3>1. \A k \in DOMAIN originals[v] : FALSE
      BY <2>1, EmptyFacts
    <3>2. \A k \in DOMAIN originals'[v] : originals'[v][k].item # None
      BY <1>2, <2>2, <2>3, Distinct
    <3>3. \A u \in CalmReviews :
            (\E k \in DOMAIN originals'[u] : originals'[u][k].item = None) <=>
              (\E k \in DOMAIN originals[u] : originals[u][k].item = None)
      BY <1>5, <1>6, <3>1, <3>2
    <3> QED
      BY <1>6, <3>3 DEF LedgerLost
  <2> HIDE DEF T
  <2>12. Ledger!Withdraw(v)
    BY <2>6, <2>7, <2>8, <2>9, <2>10, <2>11 DEF Ledger!Withdraw, Ledger!Become
  <2> QED
    BY <1>9, <2>12, LedgerSteps
<1> QED
  BY <1>8, <1>9

-----------------------------------------------------------------------------
(* Undoing *)

(* What an undo found of an item that is nobody else's, and puts back. *)
LEMMA PutBackFacts ==
  ASSUME PantryInvariant, NEW q \in Requests, req[q].op = "undo", Reversible(req[q]),
         NEW k \in DOMAIN req[q].os, req[q].os[k].item \in CalmItems
  PROVE  LET r == req[q]
             i == r.os[k].item IN
         /\ stock[i] = r.os[k].after
         /\ PutBack(r.os, i) = r.os[k].before
         /\ Changes(r.os, i) <=> r.os[k].before # r.os[k].after
<1> DEFINE r == req[q]
           i == r.os[k].item
<1>1. r.os \in Seq(Entry)
  BY UndoFacts
<1>2. /\ DOMAIN r.os = 1..Len(r.os) /\ Len(r.os) \in Nat /\ r.os # <<>>
  BY <1>1, SeqFacts
<1>3. Once(r.os, i) /\ i \notin raced
  BY DEF PantryInvariant, WithdrawnOnce, CalmItems
<1>4. i \in ItemsOf(r.os)
  BY Distinct DEF ItemsOf, CalmItems
<1>5. Last(r.os, i) \in DOMAIN r.os /\ r.os[Last(r.os, i)].item = i
  BY <1>4, UndoFacts
<1>6. Last(r.os, i) = k
  BY <1>3, <1>5 DEF Once
<1>7. Earlier(r.os, k) = {}
  <2> SUFFICES ASSUME NEW m \in 1..k-1, r.os[m].item = i PROVE FALSE
    BY DEF Earlier
  <2>1. k \in Nat /\ m \in DOMAIN r.os /\ m # k
    BY <1>2
  <2> QED
    BY <1>3, <2>1 DEF Once
<1>8. Found(r, k) = stock[i]
  BY <1>2, <1>3, <1>7 DEF Found, PantryInvariant, SeenIsCurrent
<1>9. Found(r, k) = r.os[k].after
  BY DEF Reversible
<1>10. Changes(r.os, i) <=> r.os[k].before # r.os[k].after
  BY <1>3 DEF Changes, Once
<1> QED
  BY <1>6, <1>8, <1>9, <1>10 DEF PutBack

(***************************************************************************)
(* An undo of a review that is nobody else's gives back, of the items that *)
(* are nobody else's, what the ledger says was taken.                      *)
(***************************************************************************)
LEMMA CommitUndoIsGiveBack ==
  ASSUME PantryInvariant, NEW q \in Requests, CommitUndo(q)
  PROVE  [Ledger!Next]_Ledger!vars
<1> DEFINE r == req[q]
           v == r.review
           s == originals[v]
           t == MarkReversed(s, Len(r.os))
<1>1. /\ r.op = "undo" /\ Reversible(r)
      /\ stock' = [i \in Items |-> IF i \in ItemsOf(r.os) /\ Changes(r.os, i)
                                   THEN PutBack(r.os, i) ELSE stock[i]]
      /\ originals' = [originals EXCEPT ![v] = t]
      /\ undone' = [undone EXCEPT ![v] = TRUE]
      /\ UNCHANGED <<review, raced>>
  BY DEF CommitUndo
<1>2. /\ r.os \in Seq(Entry) /\ v \in Reviews
      /\ \A k \in DOMAIN r.os : r.os[k].item \in Items
      /\ \A i \in ItemsOf(r.os) : PutBack(r.os, i) \in Stocked
  BY <1>1, UndoFacts
<1>3. /\ undone \in [Reviews -> BOOLEAN] /\ originals \in [Reviews -> Seq(Entry)]
      /\ ReviewIsCurrent /\ WithdrawnOnce
  BY DEF PantryInvariant, TypeOK
<1>4. \A u \in Reviews \ {v} : undone'[u] = undone[u] /\ originals'[u] = originals[u]
  BY <1>1, <1>3
<1>5. /\ CalmItems' = CalmItems /\ CalmReviews' = CalmReviews
      /\ CalmItems \subseteq Items /\ CalmReviews \subseteq Reviews /\ None \notin CalmItems
      /\ CalmItems = Items \ raced
  BY <1>1, Distinct DEF CalmItems, CalmReviews
<1>6. \A i \in CalmItems : i \notin ItemsOf(r.os) => stock'[i] = stock[i]
  BY <1>1, <1>5
<1>7. CASE v \notin CalmReviews
  <2>1. \A i \in CalmItems : stock'[i] = Gone => stock[i] = Gone
    BY <1>1, <1>2, <1>5, Distinct
  <2>2. \A u \in CalmReviews :
          undone'[u] = undone[u] /\ review'[u] = review[u] /\ originals'[u] = originals[u]
    BY <1>1, <1>4, <1>5, <1>7
  <2> QED
    BY <1>1, <2>1, <2>2, KeepStep, LedgerSteps
<1>8. CASE v \in CalmReviews
  <2>1. /\ review[v] = "confirmed" /\ undone[v] = FALSE
        /\ DOMAIN s = DOMAIN r.os
        /\ \A k \in DOMAIN r.os :
             /\ s[k].item = r.os[k].item \/ r.os[k].item \in raced \cup {None}
             /\ s[k].item \in {r.os[k].item, None}
             /\ s[k].before = r.os[k].before
             /\ s[k].after = r.os[k].after
    BY <1>1, <1>3, <1>8 DEF ReviewIsCurrent
  <2>2. s \in Seq(Entry) /\ Len(r.os) \in Nat /\ \A i \in CalmItems : Once(s, i)
    BY <1>2, <1>3, SeqFacts DEF WithdrawnOnce
  <2>3. DOMAIN t = DOMAIN s
        /\ \A k \in DOMAIN s : /\ t[k].item = s[k].item /\ t[k].before = s[k].before
                               /\ t[k].after = s[k].after
    BY <2>2, MarkFacts
  <2>4. originals'[v] = t
    BY <1>1, <1>2, <1>3
  <2> HIDE DEF t, s
  <2>5. Taken(t, CalmItems) = Taken(s, CalmItems)
    <3>1. \A i \in CalmItems : Once(t, i)
      BY <2>2, <2>3 DEF Once
    <3>2. \A k \in DOMAIN t : /\ t[k].before = s[k].before
                              /\ t[k].after = s[k].after
                              /\ t[k].item \in CalmItems \/ s[k].item \in CalmItems => t[k].item = s[k].item
      BY <2>3
    <3> QED
      BY <2>2, <2>3, <3>1, <3>2, TakenSame
  <2> DEFINE T == Taken(s, CalmItems)
  <2>6. /\ DOMAIN T = ItemsOf(s) \cap CalmItems
        /\ \A k \in DOMAIN s : s[k].item \in CalmItems /\ s[k].item # None =>
             T[s[k].item].before = s[k].before /\ T[s[k].item].after = s[k].after
    BY <2>2, TakenFacts
  <2>7. ASSUME NEW i \in DOMAIN T
        PROVE  stock[i] = T[i].after /\ stock'[i] = T[i].before
    <3>1. PICK k \in DOMAIN s : s[k].item = i /\ i # None /\ i \in CalmItems
      BY <2>6 DEF ItemsOf
    <3>2. k \in DOMAIN r.os /\ r.os[k].item = i /\ i \in Items /\ i \in ItemsOf(r.os)
      BY <1>5, <2>1, <3>1 DEF ItemsOf
    <3>3. T[i].before = r.os[k].before /\ T[i].after = r.os[k].after
      BY <2>1, <2>6, <3>1, <3>2
    <3>4. /\ stock[i] = r.os[k].after
          /\ PutBack(r.os, i) = r.os[k].before
          /\ Changes(r.os, i) <=> r.os[k].before # r.os[k].after
      BY <1>1, <3>1, <3>2, PutBackFacts
    <3> QED
      BY <1>1, <3>2, <3>3, <3>4
  <2>8. ASSUME NEW i \in CalmItems, i \notin DOMAIN T
        PROVE  stock'[i] = stock[i]
    <3>1. i \notin ItemsOf(r.os)
      <4> SUFFICES ASSUME NEW k \in DOMAIN r.os, r.os[k].item = i PROVE FALSE
        BY DEF ItemsOf
      <4>1. s[k].item = i
        BY <1>5, <2>1
      <4> QED
        BY <1>5, <2>1, <2>6, <2>8, <4>1 DEF ItemsOf
    <3> QED
      BY <1>6, <3>1
  <2>9. LedgerStatus[v] = "confirmed" /\ LedgerStatus' = [LedgerStatus EXCEPT ![v] = "undone"]
    <3>1. \A u \in CalmReviews : LedgerStatus'[u] = IF u = v THEN "undone" ELSE LedgerStatus[u]
      BY <1>1, <1>2, <1>3, <1>4, <1>5 DEF LedgerStatus
    <3> QED
      BY <1>5, <1>8, <2>1, <3>1 DEF LedgerStatus
  <2>10. UNCHANGED LedgerTaken /\ LedgerTaken[v] = T
    <3>1. \A u \in CalmReviews : Taken(originals'[u], CalmItems) = Taken(originals[u], CalmItems)
      BY <1>4, <1>5, <2>4, <2>5 DEF s
    <3> QED
      BY <1>5, <1>8, <3>1 DEF LedgerTaken, s
  <2>11. UNCHANGED LedgerLost
    <3>1. \A u \in CalmReviews :
            (\E k \in DOMAIN originals'[u] : originals'[u][k].item = None) <=>
              (\E k \in DOMAIN originals[u] : originals[u][k].item = None)
      BY <1>4, <1>5, <2>3, <2>4 DEF s
    <3> QED
      BY <1>5, <3>1 DEF LedgerLost
  <2>12. LedgerStock' = [i \in DOMAIN LedgerStock |->
                           IF i \in DOMAIN T THEN T[i].before ELSE LedgerStock[i]]
    <3>1. \A i \in CalmItems : LedgerStock'[i] = IF i \in DOMAIN T THEN T[i].before ELSE LedgerStock[i]
      BY <1>5, <2>7, <2>8 DEF LedgerStock, Restrict
    <3> HIDE DEF T
    <3> QED
      BY <1>5, <3>1 DEF LedgerStock, Restrict
  <2>13. \A i \in DOMAIN T : LedgerStock[i] = T[i].after
    BY <2>6, <2>7 DEF LedgerStock, Restrict
  <2>14. LedgerLost[v] => DOMAIN LedgerStock # Items
    <3> SUFFICES ASSUME NEW k \in DOMAIN s, s[k].item = None PROVE CalmItems # Items
      BY <1>8 DEF LedgerLost, LedgerStock, Restrict, s
    <3>1. r.os[k].item \in Items /\ r.os[k].item \in raced
      BY <1>2, <2>1, Distinct
    <3> QED
      BY <1>5, <3>1
  <2> HIDE DEF T
  <2>15. Ledger!GiveBack(v)
    BY <2>9, <2>10, <2>11, <2>12, <2>13, <2>14 DEF Ledger!GiveBack, Ledger!Become
  <2> QED
    BY <1>8, <2>15, LedgerSteps
<1> QED
  BY <1>7, <1>8

-----------------------------------------------------------------------------
(* The refinement *)

LEMMA LedgerInit == Init => Ledger!Init
<1> SUFFICES ASSUME Init PROVE Ledger!Init
  OBVIOUS
<1>1. CalmItems = Items /\ CalmReviews = Reviews
  BY DEF Init, CalmItems, CalmReviews
<1>2. Taken(<<>>, Items) = <<>>
  BY EmptyFacts DEF Taken
<1>3. \A v \in Reviews : originals[v] = <<>> /\ undone[v] = FALSE
  BY DEF Init
<1>4. LedgerTaken = [v \in Reviews |-> <<>>]
  BY <1>1, <1>2, <1>3 DEF LedgerTaken
<1>5. LedgerLost = [v \in Reviews |-> FALSE]
  <2>1. \A v \in Reviews : (\E k \in DOMAIN originals[v] : originals[v][k].item = None) <=> FALSE
    BY <1>3, EmptyFacts
  <2> QED
    BY <1>1, <2>1 DEF LedgerLost
<1>6. LedgerStock = [i \in Items |-> Gone] /\ LedgerStatus = [v \in Reviews |-> "absent"]
  BY <1>1, <1>3 DEF Init, LedgerStock, LedgerStatus, Restrict
<1> QED
  BY <1>4, <1>5, <1>6 DEF Ledger!Init

LEMMA LedgerStep == PantryInvariant /\ [Next]_vars => [Ledger!Next]_Ledger!vars
<1> SUFFICES ASSUME PantryInvariant, [Next]_vars PROVE [Ledger!Next]_Ledger!vars
  OBVIOUS
<1>1. TypeOK
  BY DEF PantryInvariant
<1>2. CASE InventoryNext
  <2>1. CASE \E i \in Items : \E n \in Stocked : CreateItem(i, n) \/ SetQuantity(i, n)
    BY <1>1, <2>1, OverwriteIsSet DEF CreateItem, SetQuantity
  <2>2. CASE \E i \in Items : DeleteItem(i)
    BY <2>2, DeleteIsSet
  <2> QED
    BY <1>2, <2>1, <2>2 DEF InventoryNext
<1>3. CASE \E v \in Reviews, match \in SUBSET Items : CreateReview(v, match)
  BY <1>3, CreateReviewIsPass
<1>4. ASSUME NEW q \in Requests, ReviewNext(q)
      PROVE  [Ledger!Next]_Ledger!vars
  <2>1. CASE \E v \in Reviews :
               (\E lines \in Lines : BeginConfirm(q, v, lines)) \/ BeginDismiss(q, v) \/ BeginUndo(q, v)
    BY <2>1, BeginIsDisturb DEF BeginConfirm, BeginDismiss, BeginUndo, Begin
  <2>2. CASE \E L \in SUBSET Items : CommitConfirm(q, L)
    BY <2>2, CommitConfirmIsWithdraw
  <2>3. CASE CommitDismiss(q)
    BY <2>3, CommitDismissIsPass
  <2>4. CASE CommitUndo(q)
    BY <2>4, CommitUndoIsGiveBack
  <2>5. CASE RefuseConfirm(q) \/ RefuseUndo(q)
    BY <2>5, RestIsStutter DEF RefuseConfirm, RefuseUndo
  <2> QED
    BY <1>4, <2>1, <2>2, <2>3, <2>4, <2>5 DEF ReviewNext
<1>5. ASSUME NEW q \in Requests, ShoppingNext(q)
      PROVE  [Ledger!Next]_Ledger!vars
  <2>1. CASE \/ \E row \in Rows : \/ BeginComplete(q, row) \/ \E i \in Items : BeginRestock(q, row, i)
                                \/ \E op \in RowOps : BeginRow(q, row, op)
             \/ \E i \in Items : BeginAdd(q, i)
    BY <2>1, BeginIsDisturb DEF BeginComplete, BeginRestock, BeginRow, BeginAdd, Begin
  <2>2. CASE \E n \in Quantities : CommitRestock(q, n)
    BY <2>2, CommitRestockIsSet
  <2>3. CASE \E i \in Items, n \in Quantities : CommitCreate(q, i, n)
    BY <1>1, <2>3, CommitCreateIsSet
  <2>4. CASE \/ CommitComplete(q) \/ CommitRow(q) \/ RefuseRow(q)
             \/ \E row \in Rows : CommitAdd(q, row)
    BY <2>4, RestIsStutter DEF CommitComplete, CommitRow, RefuseRow, CommitAdd
  <2> QED
    BY <1>5, <2>1, <2>2, <2>3, <2>4 DEF ShoppingNext
<1>6. CASE UNCHANGED vars
  BY <1>6, RestIsStutter DEF vars
<1> QED
  BY <1>2, <1>3, <1>4, <1>5, <1>6 DEF Next

(***************************************************************************)
(* Whatever handlers interleave, what they do to the items and reviews     *)
(* that no two of them handled at once is what the one-step operations of  *)
(* StockLedger may do.                                                     *)
(***************************************************************************)
THEOREM ImplementsLedgerHolds == Spec => ImplementsLedger
<1>1. PantryInvariant /\ [Next]_vars => [Ledger!Next]_Ledger!vars
  BY LedgerStep
<1> QED
  BY <1>1, LedgerInit, PantryInvariantHolds, PTL DEF Spec, ImplementsLedger, Ledger!Spec

===============================================================================

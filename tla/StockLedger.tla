----------------------------- MODULE StockLedger -----------------------------
(***************************************************************************)
(* What consumption reviews promise of the stock they withdraw from, with  *)
(* every operation a single step: a pending review is confirmed once or    *)
(* dismissed, a confirmation takes from the stock what the ledger then     *)
(* says, and an undo, possible once and only while every item has what the *)
(* review left of it, gives back exactly that.                             *)
(*                                                                         *)
(* The promise covers the items and the reviews that no two requests       *)
(* handled at once: the domains of stock and of status, which only shrink. *)
(***************************************************************************)
EXTENDS Naturals, Functions

CONSTANTS Items, Reviews, Unknown, Gone

VARIABLES
  stock,   \* what there is of each item
  status,  \* what has become of each review
  taken,   \* what each review found and left of the items it took from
  lost     \* whether an item a review took from exists no more

vars == <<stock, status, taken, lost>>

Init ==
  /\ stock = [i \in Items |-> Gone]
  /\ status = [v \in Reviews |-> "absent"]
  /\ taken = [v \in Reviews |-> <<>>]
  /\ lost = [v \in Reviews |-> FALSE]

Become(v, from, to) ==
  /\ status[v] = from
  /\ status' = [status EXCEPT ![v] = to]

(* A review is created, or dismissed: nothing is taken. *)
Pass(v) ==
  /\ Become(v, "absent", "pending") \/ Become(v, "pending", "dismissed")
  /\ UNCHANGED <<stock, taken, lost>>

(* No more than there is: everything, or an amount of a known quantity. *)
NoMoreThan(after, before) ==
  before # Gone /\ (after = 0 \/ (before # Unknown /\ after < before))

Withdraw(v) ==
  /\ Become(v, "pending", "confirmed")
  /\ taken' = [taken EXCEPT ![v] = taken'[v]]
  /\ \A i \in DOMAIN taken'[v] :
       /\ taken'[v][i].before = stock[i]
       /\ NoMoreThan(taken'[v][i].after, taken'[v][i].before)
  /\ stock' = [i \in DOMAIN stock |->
                 IF i \in DOMAIN taken'[v] THEN taken'[v][i].after ELSE stock[i]]
  /\ UNCHANGED lost

(* An item that left the promise may be one that was lost and made anew. *)
GiveBack(v) ==
  /\ Become(v, "confirmed", "undone")
  /\ lost[v] => DOMAIN stock # Items
  /\ \A i \in DOMAIN taken[v] : stock[i] = taken[v][i].after
  /\ stock' = [i \in DOMAIN stock |->
                 IF i \in DOMAIN taken[v] THEN taken[v][i].before ELSE stock[i]]
  /\ UNCHANGED <<taken, lost>>

(***************************************************************************)
(* Stock is set, made anew or deleted by someone else; what was taken of a *)
(* deleted item can never be given back.                                   *)
(***************************************************************************)
Deleted == {i \in DOMAIN stock : stock[i] # Gone /\ stock'[i] = Gone}

Set ==
  /\ DOMAIN stock' = DOMAIN stock
  /\ taken' = [v \in DOMAIN status |-> Restrict(taken[v], DOMAIN taken[v] \ Deleted)]
  /\ lost' = [v \in DOMAIN status |-> lost[v] \/ DOMAIN taken[v] \cap Deleted # {}]
  /\ UNCHANGED status

(* Items and reviews leave the promise. *)
Disturb ==
  /\ DOMAIN stock' \subseteq DOMAIN stock
  /\ DOMAIN status' \subseteq DOMAIN status
  /\ stock' = Restrict(stock, DOMAIN stock')
  /\ status' = Restrict(status, DOMAIN status')
  /\ taken' = [v \in DOMAIN status' |->
                 Restrict(taken[v], DOMAIN taken[v] \cap DOMAIN stock')]
  /\ DOMAIN lost' = DOMAIN status'
  /\ \A v \in DOMAIN lost' : lost[v] => lost'[v]

Next ==
  \/ \E v \in DOMAIN status : Pass(v) \/ Withdraw(v) \/ GiveBack(v)
  \/ Set
  \/ Disturb

Spec == Init /\ [][Next]_vars
=============================================================================

------------------------------- MODULE Pantry -------------------------------
(***************************************************************************)
(* The pantry of app/inventory.py, the consumption reviews of              *)
(* app/consumption.py that withdraw from it, and the shopping list of      *)
(* app/shopping.py that restocks it, with the ledger                       *)
(* (inventory_adjustments) the last two write.                             *)
(*                                                                         *)
(* The handlers are `def`: each runs in a thread with a database session   *)
(* of its own.  SQLite begins a transaction at the first write, so that a  *)
(* handler reads without a lock what it looks at first (its review or row, *)
(* and the first pantry item), and from its first flush to its commit it   *)
(* holds the write lock and what it reads then is current.  A handler is   *)
(* therefore two steps: Begin reads, Commit decides and writes.  What      *)
(* inventory.py writes depends on nothing it read, so that one step will   *)
(* do.  Stock is written as an absolute value computed from what was read, *)
(* and an attribute that keeps the value read is left out of the UPDATE.   *)
(*                                                                         *)
(* A household with one owner is modelled.  Units are taken to be          *)
(* compatible, names stand for the items that bear them.  A line that      *)
(* leaves an item unchanged writes nothing, and the session keeps nothing  *)
(* of what it read for it: such lines are left out, and so is a            *)
(* confirmation that is refused for its lines alone.                       *)
(***************************************************************************)
EXTENDS Integers, Sequences, FiniteSets, Functions

CONSTANTS
  Items,        \* ids of pantry items
  Reviews,      \* ids of consumption reviews
  Rows,         \* ids of shopping list rows
  Requests,     \* how many handlers may be in flight at once
  MaxQuantity,  \* bound on a stock
  MaxLines,     \* bound on the lines of a confirmation that take something
  LowStock,     \* low_stock_threshold of every item
  Unknown,      \* a quantity that is NULL
  Gone,         \* the stock of an id that no row has
  NoEntry,      \* the ledger says nothing of the item's present stock
  All,          \* consume_all
  None

ASSUME PantryAssumption ==
  /\ Items \subseteq Nat \ {0}
  /\ MaxQuantity \in Nat
  /\ MaxLines \in Nat
  /\ LowStock \in Nat
  /\ {Unknown, Gone, NoEntry, All} \cap Nat = {}
  /\ Unknown \notin {Gone, NoEntry}
  /\ None \notin Items \cup Reviews \cup Rows
  /\ Items \cap Reviews = {}

VARIABLES
  stock,       \* pantry_items.quantity
  review,      \* consumption_reviews.status
  undone,      \* whether confirmed_json says when the review was undone
  candidates,  \* the pantry items the proposal of a review offers
  originals,   \* the withdrawals the ledger holds of each review, by id
  logged,      \* quantity_after of the newest ledger row of each item
  shop,        \* shopping_list_items
  req,         \* the requests in flight
  raced        \* items and reviews two requests handled at once (for checking)

vars == <<stock, review, undone, candidates, originals, logged, shop, req, raced>>

Quantities == 0..MaxQuantity
Stocked == Quantities \cup {Unknown}

(* One line of a confirmation: what it takes of which item. *)
Line == [item: Items, take: Quantities \cup {All}]

(* A row of the ledger; its item is None when that item was deleted. *)
Entry == [item: Items \cup {None}, before: Stocked, after: Stocked, reversed: BOOLEAN]

ShopRow == [item: Items, status: {"active", "completed", "dismissed"}]
NoRow == [item |-> None, status |-> "absent"]

(***************************************************************************)
(* A request in flight: what it handles and what it has read.  seen is the *)
(* stock of the first item, os the withdrawals an undo has found.          *)
(***************************************************************************)
Request == [op: {"confirm", "dismiss", "undo", "complete", "restock", "create",
                 "add", "row_dismiss", "row_restore", "row_edit", "row_delete"},
            review: Reviews \cup {None}, row: Rows \cup {None}, name: Items \cup {None},
            lines: Seq(Line), seen: Stocked \cup {None}, os: Seq(Entry)]

Idle == [op |-> "idle", review |-> None, row |-> None, name |-> None,
         lines |-> <<>>, seen |-> None, os |-> <<>>]

TypeOK ==
  /\ stock \in [Items -> Stocked \cup {Gone}]
  /\ review \in [Reviews -> {"absent", "pending", "confirmed", "dismissed"}]
  /\ undone \in [Reviews -> BOOLEAN]
  /\ candidates \in [Reviews -> SUBSET Items]
  /\ originals \in [Reviews -> Seq(Entry)]
  /\ logged \in [Items -> Stocked \cup {NoEntry}]
  /\ shop \in [Rows -> ShopRow \cup {NoRow}]
  /\ req \in [Requests -> Request \cup {Idle}]
  /\ raced \in SUBSET (Items \cup Reviews)

Init ==
  /\ stock = [i \in Items |-> Gone]
  /\ review = [v \in Reviews |-> "absent"]
  /\ undone = [v \in Reviews |-> FALSE]
  /\ candidates = [v \in Reviews |-> {}]
  /\ originals = [v \in Reviews |-> <<>>]
  /\ logged = [i \in Items |-> NoEntry]
  /\ shop = [r \in Rows |-> NoRow]
  /\ req = [q \in Requests |-> Idle]
  /\ raced = {}

-----------------------------------------------------------------------------
(* Requests *)

ItemsOf(s) == {s[k].item : k \in DOMAIN s} \ {None}

(* The items and the review a request handles. *)
Handles(r) == ItemsOf(r.lines) \cup ItemsOf(r.os) \cup ({r.review} \ {None})

(* What the requests other than those of Q in flight handle. *)
InHand(Q) == UNION {Handles(req[p]) : p \in Requests \ Q}

Begin(q, r) ==
  /\ req[q] = Idle
  /\ req' = [req EXCEPT ![q] = r]
  /\ raced' = raced \cup (Handles(r) \cap InHand({q}))

Return(q) == req' = [req EXCEPT ![q] = Idle]

Asking(op, v, row, lines, seen, os) ==
  [op |-> op, review |-> v, row |-> row, name |-> None,
   lines |-> lines, seen |-> seen, os |-> os]

AskingFor(op, row, i) ==
  [op |-> op, review |-> None, row |-> row, name |-> i,
   lines |-> <<>>, seen |-> None, os |-> <<>>]

-----------------------------------------------------------------------------
(* app/inventory.py *)

(* What inventory.py writes is in no ledger row. *)
Overwrite(i, n) ==
  /\ stock' = [stock EXCEPT ![i] = n]
  /\ logged' = [logged EXCEPT ![i] = NoEntry]
  /\ raced' = raced \cup ({i} \cap InHand({}))

(***************************************************************************)
(* SQLite's rowid: one more than the largest id in the table, so that the  *)
(* id of the newest item is used again after its deletion.                 *)
(***************************************************************************)
NewId(i) ==
  /\ \A j \in Items : j >= i => stock[j] = Gone
  /\ \A j \in Items : j = i - 1 => stock[j] # Gone

CreateItem(i, n) ==
  /\ NewId(i)
  /\ Overwrite(i, n)
  /\ UNCHANGED <<review, undone, candidates, originals, shop, req>>

(* update_inventory_item, restock_inventory_item, consume_inventory_item *)
SetQuantity(i, n) ==
  /\ stock[i] \notin {Gone, n}
  /\ Overwrite(i, n)
  /\ UNCHANGED <<review, undone, candidates, originals, shop, req>>

(* The ledger rows of a deleted item lose their pantry_item_id. *)
Forget(s, i) ==
  [k \in DOMAIN s |->
     [item |-> IF s[k].item = i THEN None ELSE s[k].item, before |-> s[k].before,
      after |-> s[k].after, reversed |-> s[k].reversed]]

DeleteItem(i) ==
  /\ stock[i] # Gone
  /\ Overwrite(i, Gone)
  /\ originals' = [v \in Reviews |-> Forget(originals[v], i)]
  /\ UNCHANGED <<review, undone, candidates, shop, req>>

-----------------------------------------------------------------------------
(* The proposal of a review *)

(* build_consumption_proposal: the items that the names of ingredients match. *)
InPantry(match) == {i \in match : stock[i] # Gone}

(* create_review_for_session: the proposal offers what the names match. *)
CreateReview(v, match) ==
  /\ review[v] = "absent"
  /\ review' = [review EXCEPT ![v] = "pending"]
  /\ candidates' = [candidates EXCEPT ![v] = InPantry(match)]
  /\ UNCHANGED <<stock, undone, originals, logged, shop, req, raced>>

-----------------------------------------------------------------------------
(* confirm_review *)

Taking(before, take) == IF take = All THEN 0 ELSE before - take

(* Wrong variant: nobody looks whether there is enough. *)
MayTakeAny(before, take) == before # Gone /\ (take # All => before # Unknown)

(* The amount asked for can be taken from the stock as it was read. *)
MayTake(before, take) ==
  /\ before # Gone
  /\ take # All => before # Unknown /\ take > 0 /\ take <= before

(* Wrong variant: nothing remembers which items were adjusted. *)
AnyLines(lines) == TRUE

OncePerItem(lines) ==
  \A k, l \in DOMAIN lines : lines[k].item = lines[l].item => k = l

(* The review is read, it is pending, and so is the first item's stock. *)
BeginConfirm(q, v, lines) ==
  /\ review[v] = "pending"
  /\ ItemsOf(lines) \subseteq candidates[v]
  /\ OncePerItem(lines)
  /\ lines # <<>> => MayTake(stock[lines[1].item], lines[1].take)
  /\ Begin(q, Asking("confirm", v, None, lines,
                     IF lines = <<>> THEN None ELSE stock[lines[1].item], <<>>))
  /\ UNCHANGED <<stock, review, undone, candidates, originals, logged, shop>>

(* What the handler takes the stock of line k to be. *)
Before(r, k) == IF k = 1 THEN r.seen ELSE stock[r.lines[k].item]
After(r, k) == Taking(Before(r, k), r.lines[k].take)

Passes(r) ==
  \A k \in DOMAIN r.lines :
    /\ stock[r.lines[k].item] # Gone
    /\ MayTake(Before(r, k), r.lines[k].take)

LineOf(r, i) == CHOOSE k \in DOMAIN r.lines : r.lines[k].item = i

Withdrawals(r) ==
  [k \in DOMAIN r.lines |-> [item |-> r.lines[k].item, before |-> Before(r, k),
                             after |-> After(r, k), reversed |-> FALSE]]

(***************************************************************************)
(* _shopping_add for each item of L: an active row that already asks for   *)
(* it is kept, else a new row does.                                        *)
(***************************************************************************)
Listed(L) ==
  LET missing == {i \in L : \A r \in Rows : shop[r] # [item |-> i, status |-> "active"]}
  IN \E f \in [missing -> {r \in Rows : shop[r] = NoRow}] :
       /\ IsInjective(f)
       /\ shop' = [r \in Rows |->
                     IF \E i \in missing : f[i] = r
                     THEN [item |-> CHOOSE i \in missing : f[i] = r, status |-> "active"]
                     ELSE shop[r]]

CommitConfirm(q, L) ==
  LET r == req[q] IN
  /\ r.op = "confirm"
  /\ Passes(r)
  /\ L \subseteq {r.lines[k].item : k \in {l \in DOMAIN r.lines : After(r, l) <= LowStock}}
  /\ stock' = [i \in Items |->
                 IF /\ i \in ItemsOf(r.lines)
                    /\ After(r, LineOf(r, i)) # Before(r, LineOf(r, i))
                 THEN After(r, LineOf(r, i)) ELSE stock[i]]
  /\ logged' = [i \in Items |->
                  IF i \in ItemsOf(r.lines) THEN After(r, LineOf(r, i)) ELSE logged[i]]
  /\ originals' = [originals EXCEPT ![r.review] = @ \o Withdrawals(r)]
  /\ review' = [review EXCEPT ![r.review] = "confirmed"]
  /\ undone' = [undone EXCEPT ![r.review] = FALSE]
  /\ Listed(L)
  /\ Return(q)
  /\ UNCHANGED <<candidates, raced>>

(***************************************************************************)
(* A check fails after the first flush, or a row to update is gone, or the *)
(* item that one more line was to leave unchanged.                         *)
(***************************************************************************)
RefuseConfirm(q) ==
  /\ req[q].op = "confirm"
  /\ \/ ~Passes(req[q])
     \/ \E i \in candidates[req[q].review] : stock[i] = Gone
  /\ Return(q)
  /\ UNCHANGED <<stock, review, undone, candidates, originals, logged, shop, raced>>

-----------------------------------------------------------------------------
(* dismiss_review and undo_review *)

BeginDismiss(q, v) ==
  /\ review[v] = "pending"
  /\ Begin(q, Asking("dismiss", v, None, <<>>, None, <<>>))
  /\ UNCHANGED <<stock, review, undone, candidates, originals, logged, shop>>

CommitDismiss(q) ==
  /\ req[q].op = "dismiss"
  /\ review' = [review EXCEPT ![req[q].review] = "dismissed"]
  /\ Return(q)
  /\ UNCHANGED <<stock, undone, candidates, originals, logged, shop, raced>>

(***************************************************************************)
(* The review, its withdrawals and the first item are read; nothing of it  *)
(* was undone, and the first item has what the review left of it.          *)
(***************************************************************************)
BeginUndo(q, v) ==
  LET os == originals[v] IN
  /\ review[v] = "confirmed"
  /\ ~undone[v]
  /\ \A k \in DOMAIN os : ~os[k].reversed
  /\ os # <<>> => os[1].item # None /\ stock[os[1].item] = os[1].after
  /\ Begin(q, Asking("undo", v, None, <<>>,
                     IF os = <<>> THEN None ELSE stock[os[1].item], os))
  /\ UNCHANGED <<stock, review, undone, candidates, originals, logged, shop>>

(***************************************************************************)
(* What the handler takes the stock of the item of withdrawal k to be:     *)
(* what it has already put back itself, else what it read first, else what *)
(* the database holds.                                                     *)
(***************************************************************************)
Earlier(os, k) == {l \in 1..k-1 : os[l].item = os[k].item}
LastOf(S) == CHOOSE l \in S : \A m \in S : m <= l
Found(r, k) ==
  IF Earlier(r.os, k) # {} THEN r.os[LastOf(Earlier(r.os, k))].before
  ELSE IF r.os[k].item = r.os[1].item THEN r.seen
  ELSE stock[r.os[k].item]

(* Wrong variant: whatever has become of the stock meanwhile. *)
ReversibleAnyway(r) ==
  \A k \in DOMAIN r.os : r.os[k].item # None /\ stock[r.os[k].item] # Gone

(* Every item is still there and has what the review left of it. *)
Reversible(r) ==
  \A k \in DOMAIN r.os :
    /\ r.os[k].item # None
    /\ stock[r.os[k].item] # Gone
    /\ Found(r, k) = r.os[k].after

Last(os, i) == LastOf({k \in DOMAIN os : os[k].item = i})

(* Wrong variant: the item is given what the review left of it. *)
LeftOf(os, i) == os[Last(os, i)].after

PutBack(os, i) == os[Last(os, i)].before
Changes(os, i) == \E k \in DOMAIN os : os[k].item = i /\ os[k].before # os[k].after

(* The withdrawals the undo had found are marked reversed. *)
MarkReversed(s, n) ==
  [k \in DOMAIN s |-> [item |-> s[k].item, before |-> s[k].before, after |-> s[k].after,
                       reversed |-> s[k].reversed \/ k <= n]]

CommitUndo(q) ==
  LET r == req[q] IN
  /\ r.op = "undo"
  /\ Reversible(r)
  /\ stock' = [i \in Items |->
                 IF i \in ItemsOf(r.os) /\ Changes(r.os, i)
                 THEN PutBack(r.os, i) ELSE stock[i]]
  /\ logged' = [i \in Items |->
                  IF i \in ItemsOf(r.os) THEN r.os[Last(r.os, i)].before ELSE logged[i]]
  /\ originals' = [originals EXCEPT ![r.review] = MarkReversed(@, Len(r.os))]
  /\ undone' = [undone EXCEPT ![r.review] = TRUE]
  /\ Return(q)
  /\ UNCHANGED <<review, candidates, shop, raced>>

RefuseUndo(q) ==
  /\ req[q].op = "undo"
  /\ ~Reversible(req[q])
  /\ Return(q)
  /\ UNCHANGED <<stock, review, undone, candidates, originals, logged, shop, raced>>

-----------------------------------------------------------------------------
(* app/shopping.py *)

(* complete_item: the row is active; to restock an item its stock is read. *)
BeginComplete(q, r) ==
  /\ shop[r].status = "active"
  /\ \E op \in {"complete", "create"} : Begin(q, Asking(op, None, r, <<>>, None, <<>>))
  /\ UNCHANGED <<stock, review, undone, candidates, originals, logged, shop>>

BeginRestock(q, r, i) ==
  /\ shop[r].status = "active"
  /\ stock[i] # Gone
  /\ Begin(q, Asking("restock", None, r, <<[item |-> i, take |-> 0]>>, stock[i], <<>>))
  /\ UNCHANGED <<stock, review, undone, candidates, originals, logged, shop>>

RowAs(r, status) == shop' = [shop EXCEPT ![r] = [item |-> @.item, status |-> status]]

(* The row becomes completed, whatever it has become meanwhile. *)
CommitComplete(q) ==
  /\ req[q].op = "complete"
  /\ shop[req[q].row] # NoRow
  /\ RowAs(req[q].row, "completed")
  /\ Return(q)
  /\ UNCHANGED <<stock, review, undone, candidates, originals, logged, raced>>

(* mode "existing": n is added to the stock that was read. *)
CommitRestock(q, n) ==
  LET i == req[q].lines[1].item
      before == req[q].seen
      after == IF before = Unknown THEN n ELSE before + n IN
  /\ req[q].op = "restock"
  /\ shop[req[q].row] # NoRow
  /\ stock[i] # Gone
  /\ after <= MaxQuantity
  /\ stock' = [stock EXCEPT ![i] = IF after # before THEN after ELSE @]
  /\ logged' = [logged EXCEPT ![i] = after]
  /\ RowAs(req[q].row, "completed")
  /\ Return(q)
  /\ UNCHANGED <<review, undone, candidates, originals, raced>>

(* mode "create": the row's name becomes a new item. *)
CommitCreate(q, i, n) ==
  /\ req[q].op = "create"
  /\ shop[req[q].row] # NoRow
  /\ NewId(i)
  /\ stock' = [stock EXCEPT ![i] = n]
  /\ logged' = [logged EXCEPT ![i] = n]
  /\ raced' = raced \cup ({i} \cap InHand({q}))
  /\ RowAs(req[q].row, "completed")
  /\ Return(q)
  /\ UNCHANGED <<review, undone, candidates, originals>>

(***************************************************************************)
(* add_or_merge, for create_item and from_recipe: the active row that asks *)
(* for the item is read, and a new row is added when there is none.  What  *)
(* the merge changes of the row found is not modelled.                     *)
(***************************************************************************)
BeginAdd(q, i) ==
  /\ \A r \in Rows : shop[r] # [item |-> i, status |-> "active"]
  /\ Begin(q, AskingFor("add", None, i))
  /\ UNCHANGED <<stock, review, undone, candidates, originals, logged, shop>>

CommitAdd(q, r) ==
  /\ req[q].op = "add"
  /\ shop[r] = NoRow
  /\ shop' = [shop EXCEPT ![r] = [item |-> req[q].name, status |-> "active"]]
  /\ Return(q)
  /\ UNCHANGED <<stock, review, undone, candidates, originals, logged, raced>>

(* update_item, _action for dismiss and restore, and delete_item *)
RowOps == {"row_edit", "row_dismiss", "row_restore", "row_delete"}

BeginRow(q, r, op) ==
  /\ \/ op = "row_edit" /\ shop[r].status = "active"
     \/ op = "row_dismiss" /\ shop[r].status = "active"
     \/ op = "row_restore" /\ shop[r].status \in {"completed", "dismissed"}
     \/ op = "row_delete" /\ shop[r].status \in {"completed", "dismissed"}
  /\ Begin(q, AskingFor(op, r, None))
  /\ UNCHANGED <<stock, review, undone, candidates, originals, logged, shop>>

CommitRow(q) ==
  /\ req[q].op \in RowOps
  /\ shop[req[q].row] # NoRow
  /\ \/ /\ req[q].op = "row_edit"
        /\ \E i \in Items : shop' = [shop EXCEPT ![req[q].row] = [item |-> i, status |-> @.status]]
     \/ /\ req[q].op = "row_dismiss"
        /\ RowAs(req[q].row, "dismissed")
     \/ /\ req[q].op = "row_restore"
        /\ RowAs(req[q].row, "active")
     \/ /\ req[q].op = "row_delete"
        /\ shop' = [shop EXCEPT ![req[q].row] = NoRow]
  /\ Return(q)
  /\ UNCHANGED <<stock, review, undone, candidates, originals, logged, raced>>

(* The row, or the item to restock, is gone when the handler writes it. *)
RefuseRow(q) ==
  /\ req[q].row # None
  /\ \/ shop[req[q].row] = NoRow
     \/ req[q].op = "restock" /\ stock[req[q].lines[1].item] = Gone
  /\ Return(q)
  /\ UNCHANGED <<stock, review, undone, candidates, originals, logged, shop, raced>>

-----------------------------------------------------------------------------
(* The confirmations a client may ask for. *)
Lines == UNION {[1..n -> [item: Items, take: (Quantities \ {0}) \cup {All}]] : n \in 0..MaxLines}

InventoryNext ==
  \E i \in Items :
    \/ \E n \in Stocked : CreateItem(i, n) \/ SetQuantity(i, n)
    \/ DeleteItem(i)

ReviewNext(q) ==
  \/ \E v \in Reviews :
       \/ \E lines \in Lines : BeginConfirm(q, v, lines)
       \/ BeginDismiss(q, v)
       \/ BeginUndo(q, v)
  \/ \E L \in SUBSET Items : CommitConfirm(q, L)
  \/ RefuseConfirm(q)
  \/ CommitDismiss(q)
  \/ CommitUndo(q)
  \/ RefuseUndo(q)

ShoppingNext(q) ==
  \/ \E r \in Rows :
       \/ BeginComplete(q, r)
       \/ \E i \in Items : BeginRestock(q, r, i)
       \/ \E op \in RowOps : BeginRow(q, r, op)
       \/ CommitAdd(q, r)
  \/ \E i \in Items : BeginAdd(q, i)
  \/ CommitComplete(q)
  \/ \E n \in Quantities : CommitRestock(q, n)
  \/ \E i \in Items, n \in Quantities : CommitCreate(q, i, n)
  \/ CommitRow(q)
  \/ RefuseRow(q)

Next ==
  \/ InventoryNext
  \/ \E v \in Reviews, match \in SUBSET Items : CreateReview(v, match)
  \/ \E q \in Requests : ReviewNext(q) \/ ShoppingNext(q)

Spec == Init /\ [][Next]_vars

-----------------------------------------------------------------------------
(* Properties *)

CalmReviews == Reviews \ raced
CalmItems == Items \ raced

(***************************************************************************)
(* The ledger holds withdrawals of a review exactly when it was confirmed, *)
(* at most one of each item, and all of them reversed exactly when it was  *)
(* undone, unless two requests handled the review at once.                 *)
(***************************************************************************)
ReviewMatchesLedger ==
  \A v \in CalmReviews :
    /\ review[v] # "confirmed" => originals[v] = <<>> /\ ~undone[v]
    /\ \A k \in DOMAIN originals[v] : originals[v][k].reversed = undone[v]
    /\ \A k, l \in DOMAIN originals[v] :
         originals[v][k].item = originals[v][l].item /\ originals[v][k].item # None => k = l

(***************************************************************************)
(* The newest ledger row of an item says what is in stock, from that row   *)
(* until inventory.py writes the item, unless two requests handled the     *)
(* item at once: what the handlers write from a stock they read before     *)
(* they held the lock is what the stock then is.                           *)
(***************************************************************************)
LedgerExplainsStock ==
  \A i \in CalmItems : logged[i] # NoEntry => stock[i] = logged[i]

(***************************************************************************)
(* One review withdraws from one item at most once (consumption.py:392:    *)
(* "A pantry item cannot be adjusted twice in one review").                *)
(***************************************************************************)
ItemAdjustedOncePerReview ==
  \A v \in Reviews : \A k, l \in DOMAIN originals[v] :
    originals[v][k].item = originals[v][l].item /\ originals[v][k].item # None => k = l

(* What the ledger rows s say was taken from the items of C. *)
RowOf(s, i) == CHOOSE k \in DOMAIN s : s[k].item = i

Taken(s, C) ==
  [i \in ItemsOf(s) \cap C |->
     [before |-> s[RowOf(s, i)].before, after |-> s[RowOf(s, i)].after]]

(* What StockLedger says of the items and reviews nobody raced for. *)
LedgerStock == Restrict(stock, CalmItems)
LedgerStatus == [v \in CalmReviews |-> IF undone[v] THEN "undone" ELSE review[v]]
LedgerTaken == [v \in CalmReviews |-> Taken(originals[v], CalmItems)]
LedgerLost == [v \in CalmReviews |-> \E k \in DOMAIN originals[v] : originals[v][k].item = None]

Ledger == INSTANCE StockLedger WITH
  stock <- LedgerStock, status <- LedgerStatus, taken <- LedgerTaken, lost <- LedgerLost

(***************************************************************************)
(* The two-step handlers implement the one-step operations of StockLedger  *)
(* on the items and reviews that no two of them handled at once.           *)
(***************************************************************************)
ImplementsLedger == Ledger!Spec
=============================================================================

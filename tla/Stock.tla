-------------------------------- MODULE Stock --------------------------------
(***************************************************************************)
(* The stock of ingredients and of prepared items (preps): what orders     *)
(* take and voids give back (createOrder, updateOrderItemQuantity and      *)
(* voidOrder of app.repository.ts), counts, adjustments and production     *)
(* (inventory.repository.ts), and goods received for purchase orders       *)
(* (suppliers.repository.ts).                                              *)
(*                                                                         *)
(* There is one dish, of which every order has one line.  A portion takes  *)
(* one unit of each item of its recipe.  A handler that keeps the rows it  *)
(* changes locked from its first read of them to its commit is one step;   *)
(* one that reads without a lock is two, and the step that writes may find *)
(* what others have written in between.  History variables keep the books  *)
(* that the movement rows amount to and name the rows such a step hit.     *)
(***************************************************************************)
EXTENDS Integers, FiniteSets, Functions

CONSTANTS
    Items,      \* rows of inventory and of prep_items
    Preps,      \* those of prep_items
    Inputs,     \* Inputs[p][i]: units of i that one unit of the prep p takes
    Recipes,    \* recipes the dish is given, sets of items
    Opening,    \* Opening[i]: the quantity an item was created with
    Orders,
    POs,        \* purchase orders
    Lines,      \* their lines (purchase_order_items)
    POOf,       \* POOf[l]: the purchase order of a line
    NoItem,
    OrderedQty, \* OrderedQty[l]: quantity of a line
    Staff,      \* requests that may be under way at once
    MaxPortions,\* bound on the quantity of an order's line
    MaxArrival, \* bound on the quantity of a line in a goods receipt
    MaxActs     \* bound on the acts of the back office

ASSUME ItemsAssumption == Preps \subseteq Items /\ NoItem \notin Items
ASSUME InputsAssumption == Inputs \in [Preps -> [Items -> Nat]] /\ \A p \in Preps : Inputs[p][p] = 0
ASSUME RecipesAssumption == Recipes \subseteq SUBSET Items
ASSUME OpeningAssumption == Opening \in [Items -> Nat]
ASSUME LinesAssumption ==
    IsFiniteSet(Lines) /\ POOf \in [Lines -> POs] /\ \A p \in POs : \E l \in Lines : POOf[l] = p
ASSUME OrderedQtyAssumption == OrderedQty \in [Lines -> Nat \ {0}]
ASSUME StaffAssumption == IsFiniteSet(Staff)
ASSUME BoundsAssumption == MaxPortions \in Nat /\ MaxArrival \in Nat /\ MaxActs \in Nat

VARIABLES
    quantity,    \* inventory.quantity, prep_items.stock_quantity
    recipe,      \* items of the dish's recipe (menu_item_components)
    tracked,     \* items whose stock orders touch
    orderStatus, \* "open" stands for pending, preparing, ready and served
    portions,    \* quantity of the order's line, 0 when it is deleted
    impacts,     \* impacts[o][i]: order_stock_impacts of the order
    poStatus,
    link,        \* the inventory row of a purchase order's line, or NoItem
    received,    \* sum of the goods_receipt_items of a line
    request,     \* what a request under way has read
    acts,        \* number of acts of the back office, to bound them
    booked,      \* history: opening quantity, movements, production, audits
    net,         \* history: net[o][i], taken from i for o less what was given back
    altered,     \* history: orders whose line leaves out or adds something
    restored,    \* history: orders whose impacts a void gave back
    crossed,     \* history: orders hit by a request that had read them before
    overwritten, \* history: items counted in by such a request
    unaudited,   \* history: items of which a count failed before its audit
    poCrossed    \* history: purchase orders hit by such a request

items == <<quantity, booked, overwritten, unaudited>>
menu == <<recipe, tracked>>
orderRows == <<orderStatus, portions, impacts, net, altered, restored, crossed>>
purchases == <<poStatus, link, received, poCrossed>>
vars == <<items, menu, orderRows, purchases, request, acts>>

\* isStockTrackingEnabled: with the inventory module off nothing is tracked, with
\* it on every prep is, and the ingredients whose isStockTracked is set.
Trackings == {{}} \cup {Preps \cup S : S \in SUBSET (Items \ Preps)}

OrderStatus == {"absent", "open", "paid", "cancelled"}
POStatus == {"absent", "draft", "sent", "partial_received", "received", "cancelled"}

Idle == [op |-> "none"]
Requests ==
    {Idle}
    \cup [op: {"void"}, order: Orders, impacts: [Items -> Nat]]
    \cup [op: {"status"}, order: Orders, seen: OrderStatus, status: OrderStatus]
    \cup [op: {"count", "audit"}, item: Items, seen: Nat, counted: Nat]
    \cup [op: {"poStatus"}, po: POs, seen: POStatus, status: POStatus]
    \cup [op: {"receipt"}, po: POs, qty: [Lines -> Nat], seen: POStatus]
    \cup [op: {"tally"}, po: POs, qty: [Lines -> Nat], seen: POStatus, sum: [Lines -> Nat]]

TypeOK ==
    /\ quantity \in [Items -> Nat]
    /\ recipe \subseteq Items
    /\ tracked \in Trackings
    /\ orderStatus \in [Orders -> OrderStatus]
    /\ portions \in [Orders -> 0..MaxPortions]
    /\ impacts \in [Orders -> [Items -> Nat]]
    /\ poStatus \in [POs -> POStatus]
    /\ link \in [Lines -> (Items \ Preps) \cup {NoItem}]
    /\ received \in [Lines -> Nat]
    /\ request \in [Staff -> Requests]
    /\ acts \in 0..MaxActs
    /\ booked \in [Items -> Int]
    /\ net \in [Orders -> [Items -> Int]]
    /\ altered \subseteq Orders
    /\ restored \subseteq Orders
    /\ crossed \subseteq Orders
    /\ overwritten \subseteq Items
    /\ unaudited \subseteq Items
    /\ poCrossed \subseteq POs

Nothing == [i \in Items |-> 0]

Init ==
    /\ quantity = Opening
    /\ recipe \in Recipes
    /\ tracked \in Trackings
    /\ orderStatus = [o \in Orders |-> "absent"]
    /\ portions = [o \in Orders |-> 0]
    /\ impacts = [o \in Orders |-> Nothing]
    /\ poStatus = [p \in POs |-> "absent"]
    /\ link = [l \in Lines |-> NoItem]
    /\ received = [l \in Lines |-> 0]
    /\ request = [s \in Staff |-> Idle]
    /\ acts = 0
    /\ booked = Opening
    /\ net = [o \in Orders |-> Nothing]
    /\ altered = {}
    /\ restored = {}
    /\ crossed = {}
    /\ overwritten = {}
    /\ unaudited = {}
    /\ poCrossed = {}

Act ==
    /\ acts < MaxActs
    /\ acts' = acts + 1

Ask(s, r) == request[s] = Idle /\ request' = [request EXCEPT ![s] = r]
Done(s) == request' = [request EXCEPT ![s] = Idle]

\* The inventory rows that a receipt of these quantities is about.
Rows(qty) == {link[l] : l \in {k \in Lines : qty[k] > 0}} \ {NoItem}

\* Those locked by receipts that have still to commit.
Held == UNION {Rows(request[s].qty) : s \in {t \in Staff : request[t].op = "tally"}}

\* Quantities change by the given amounts, each with a movement row.
Book(change) ==
    /\ quantity' = [i \in Items |-> quantity[i] + change[i]]
    /\ booked' = [i \in Items |-> booked[i] + change[i]]
    /\ UNCHANGED <<overwritten, unaudited>>

\* The same, once no receipt locks a row that is to change.
Move(change) == (\A i \in Held : change[i] = 0) /\ Book(change)

-----------------------------------------------------------------------------
(* Orders.                                                                 *)

\* What a line of n portions takes: the recipe less what is left out, and what
\* modifiers, additions and formulas (BoMs) put on top.
Consumption(n, extra, removed) ==
    [i \in Items |-> IF i \notin tracked THEN 0
                     ELSE (IF i \in recipe \ removed THEN n ELSE 0)
                            + (IF i \in extra THEN n ELSE 0)]

\* canonicalImpactRows: the recipe alone, whatever the line leaves out or adds.
Impacts(n) == [i \in Items |-> IF i \in recipe \cap tracked THEN n ELSE 0]

\* Mutant: only one portion of the recipe is looked for.
CoveredForRecipe(taken) == \A i \in Items : i \in recipe /\ taken[i] > 0 => quantity[i] >= 1

\* Rows are locked and compared with all that is taken before the first UPDATE.
Covered(taken) == \A i \in Items : quantity[i] >= taken[i]

CreateOrder(o, n, extra, removed) ==
    LET taken == Consumption(n, extra, removed)
    IN  /\ orderStatus[o] = "absent"
        /\ Covered(taken)
        /\ Move([i \in Items |-> -taken[i]])
        /\ orderStatus' = [orderStatus EXCEPT ![o] = "open"]
        /\ portions' = [portions EXCEPT ![o] = n]
        /\ impacts' = [impacts EXCEPT ![o] = Impacts(n)]
        /\ net' = [net EXCEPT ![o] = taken]
        /\ altered' = IF extra = {} /\ removed = {} THEN altered ELSE altered \cup {o}
        /\ UNCHANGED <<menu, restored, crossed, purchases, request, acts>>

\* The impacts of the line when its quantity becomes n.
Scaled(o, n) == [i \in Items |-> (impacts[o][i] \div portions[o]) * n]

\* Mutant: the impacts of a line that stays are not replaced.
EditedKeepingImpacts(o, n) == IF n = 0 THEN Nothing ELSE impacts[o]

\* A line's impacts are replaced, or deleted with it.
Edited(o, n) == Scaled(o, n)

\* updateOrderItemQuantity, under the order's lock.  Without its last line the
\* order is cancelled.
EditQuantity(o, n) ==
    LET more == [i \in Items |-> Scaled(o, n)[i] - impacts[o][i]]
    IN  /\ orderStatus[o] = "open"
        /\ portions[o] > 0 /\ n # portions[o]
        /\ Covered(more)
        /\ Move([i \in Items |-> -more[i]])
        /\ net' = [net EXCEPT ![o] = [i \in Items |-> @[i] + more[i]]]
        /\ portions' = [portions EXCEPT ![o] = n]
        /\ impacts' = [impacts EXCEPT ![o] = Edited(o, n)]
        /\ orderStatus' = [orderStatus EXCEPT ![o] = IF n = 0 THEN "cancelled" ELSE @]
        /\ UNCHANGED <<menu, altered, restored, crossed, purchases, request, acts>>

\* Mutant: orders are marked paid by table alone.
PayAnyStatus(o) ==
    /\ orderStatus[o] # "absent"
    /\ orderStatus' = [orderStatus EXCEPT ![o] = "paid"]
    /\ UNCHANGED <<items, menu, portions, impacts, net, altered, restored, crossed, purchases,
                   request, acts>>

\* A checkout marks the orders of its table that are open when it does so.
Pay(o) ==
    /\ orderStatus[o] = "open"
    /\ orderStatus' = [orderStatus EXCEPT ![o] = "paid"]
    /\ UNCHANGED <<items, menu, portions, impacts, net, altered, restored, crossed, purchases,
                   request, acts>>

VoidRead(s, o) ==
    /\ orderStatus[o] = "open"
    /\ Ask(s, [op |-> "void", order |-> o, impacts |-> impacts[o]])
    /\ UNCHANGED <<items, menu, orderRows, purchases, acts>>

\* The order is not read again: its impacts as they were are given back, and it is
\* cancelled whatever it has become.
VoidCommit(s) ==
    LET o == request[s].order
        back == request[s].impacts
    IN  /\ request[s].op = "void"
        /\ Move(back)
        /\ net' = [net EXCEPT ![o] = [i \in Items |-> @[i] - back[i]]]
        /\ orderStatus' = [orderStatus EXCEPT ![o] = "cancelled"]
        /\ restored' = restored \cup {o}
        /\ crossed' = IF orderStatus[o] = "open" /\ impacts[o] = back THEN crossed
                        ELSE crossed \cup {o}
        /\ Done(s)
        /\ UNCHANGED <<menu, portions, impacts, altered, purchases, acts>>

\* updateOrder: the policy is asked about the status read here.
StatusRead(s, o, status) ==
    /\ \/ orderStatus[o] = "open" /\ status \in {"open", "cancelled"}
       \/ orderStatus[o] = "cancelled" /\ status = "cancelled"
    /\ Act
    /\ Ask(s, [op |-> "status", order |-> o, seen |-> orderStatus[o], status |-> status])
    /\ UNCHANGED <<items, menu, orderRows, purchases>>

\* No stock is given back to an order that is cancelled this way.
StatusWrite(s) ==
    LET o == request[s].order
    IN  /\ request[s].op = "status"
        /\ orderStatus' = [orderStatus EXCEPT ![o] = request[s].status]
        /\ crossed' = IF orderStatus[o] = request[s].seen THEN crossed ELSE crossed \cup {o}
        /\ Done(s)
        /\ UNCHANGED <<items, menu, portions, impacts, net, altered, restored, purchases, acts>>

-----------------------------------------------------------------------------
(* The back office.                                                        *)

EditRecipe(r) ==
    /\ r # recipe
    /\ Act
    /\ recipe' = r
    /\ UNCHANGED <<items, tracked, orderRows, purchases, request>>

SwitchTracking(t) ==
    /\ t # tracked
    /\ Act
    /\ tracked' = t
    /\ UNCHANGED <<items, recipe, orderRows, purchases, request>>

\* updateInventoryItem reads the row for the audit of the change.
CountRead(s, i, counted) ==
    /\ i \notin Preps
    /\ Act
    /\ Ask(s, [op |-> "count", item |-> i, seen |-> quantity[i], counted |-> counted])
    /\ UNCHANGED <<items, menu, orderRows, purchases>>

\* Mutant: a count of zero is taken for none.
ChangesIfAny(seen, counted) == counted # seen /\ counted > 0

\* The fields whose values before and after differ are audited.
Changes(seen, counted) == counted # seen

\* What was counted is written, whatever has left or come in between ...
CountWrite(s) ==
    LET i == request[s].item
    IN  /\ request[s].op = "count" /\ i \notin Held
        /\ quantity' = [quantity EXCEPT ![i] = request[s].counted]
        /\ overwritten' = IF quantity[i] = request[s].seen THEN overwritten
                            ELSE overwritten \cup {i}
        /\ IF Changes(request[s].seen, request[s].counted)
           THEN request' = [request EXCEPT ![s].op = "audit"]
           ELSE Done(s)
        /\ UNCHANGED <<booked, unaudited, menu, orderRows, purchases, acts>>

\* ... and a statement of its own, without a transaction around both, adds the
\* audit of the change.
CountAudit(s) ==
    LET i == request[s].item
    IN  /\ request[s].op = "audit"
        /\ booked' = [booked EXCEPT ![i] = @ + request[s].counted - request[s].seen]
        /\ Done(s)
        /\ UNCHANGED <<quantity, overwritten, unaudited, menu, orderRows, purchases, acts>>

\* A lost connection, a deadlock or the end of the API's process: the transaction
\* of a request is rolled back, but a count that was written stays.
Fail(s) ==
    /\ request[s] # Idle
    /\ Done(s)
    /\ unaudited' = IF request[s].op = "audit" THEN unaudited \cup {request[s].item} ELSE unaudited
    /\ UNCHANGED <<quantity, booked, overwritten, menu, orderRows, purchases, acts>>

\* adjustInventoryItem, under the row's lock.
Adjust(i, delta) ==
    /\ i \notin Preps
    /\ delta # 0 /\ quantity[i] + delta >= 0
    /\ Act
    /\ Move([j \in Items |-> IF j = i THEN delta ELSE 0])
    /\ UNCHANGED <<menu, orderRows, purchases, request>>

\* preparePrepItem: movements for what it takes, a production run for what it makes.
Prepare(p, n) ==
    /\ \A i \in Items : quantity[i] >= Inputs[p][i] * n
    /\ Act
    /\ Move([i \in Items |-> (IF i = p THEN n ELSE 0) - Inputs[p][i] * n])
    /\ UNCHANGED <<menu, orderRows, purchases, request>>

-----------------------------------------------------------------------------
(* Purchase orders.                                                        *)

LinesOf(p) == {l \in Lines : POOf[l] = p}

CreatePurchaseOrder(p, rows) ==
    /\ poStatus[p] = "absent"
    /\ link' = [l \in Lines |-> IF l \in LinesOf(p) THEN rows[l] ELSE link[l]]
    /\ poStatus' = [poStatus EXCEPT ![p] = "draft"]
    /\ UNCHANGED <<items, menu, orderRows, received, poCrossed, request, acts>>

purchaseOrderTransitions(from) ==
    CASE from = "draft" -> {"sent", "cancelled"}
      [] from = "sent" -> {"partial_received", "received", "cancelled"}
      [] from = "partial_received" -> {"received", "cancelled"}
      [] OTHER -> {}

POStatusRead(s, p, status) ==
    /\ status \in purchaseOrderTransitions(poStatus[p])
    /\ Act
    /\ Ask(s, [op |-> "poStatus", po |-> p, seen |-> poStatus[p], status |-> status])
    /\ UNCHANGED <<items, menu, orderRows, purchases>>

POStatusWrite(s) ==
    LET p == request[s].po
    IN  /\ request[s].op = "poStatus"
        /\ poStatus' = [poStatus EXCEPT ![p] = request[s].status]
        /\ poCrossed' = IF poStatus[p] = request[s].seen THEN poCrossed ELSE poCrossed \cup {p}
        /\ Done(s)
        /\ UNCHANGED <<items, menu, orderRows, link, received, acts>>

\* createGoodsReceipt asks for no particular status of the purchase order.
ReceiptRead(s, p, qty) ==
    /\ poStatus[p] # "absent"
    /\ \E l \in Lines : qty[l] > 0
    /\ \A l \in Lines \ LinesOf(p) : qty[l] = 0
    /\ Act
    /\ Ask(s, [op |-> "receipt", po |-> p, qty |-> qty, seen |-> poStatus[p]])
    /\ UNCHANGED <<items, menu, orderRows, purchases>>

\* The rows of its own entries are locked one after the other; then all lines of
\* the order are summed, the receipts committed by now and its own.  Nothing holds
\* back a receipt of other rows, or of lines without one.
ReceiptTally(s) ==
    LET r == request[s]
    IN  /\ r.op = "receipt"
        /\ Rows(r.qty) \cap Held = {}
        /\ request' = [request EXCEPT ![s] =
             [op |-> "tally", po |-> r.po, qty |-> r.qty, seen |-> r.seen,
              sum |-> [l \in Lines |-> received[l] + r.qty[l]]]]
        /\ UNCHANGED <<items, menu, orderRows, purchases, acts>>

\* Mutant: more than was ordered must have come.
NextStatusAboveOrdered(p, seen, sum) ==
    IF \A l \in LinesOf(p) : sum[l] > OrderedQty[l] THEN "received"
    ELSE IF seen # "received" THEN "partial_received" ELSE seen

NextStatus(p, seen, sum) ==
    IF \A l \in LinesOf(p) : sum[l] >= OrderedQty[l] THEN "received"
    ELSE IF seen # "received" THEN "partial_received" ELSE seen

\* What a receipt adds to the items its lines are linked to.
Arriving(qty) == [i \in Items |-> SumFunctionOnSet(qty, {l \in Lines : link[l] = i})]

ReceiptCommit(s) ==
    LET r == request[s]
        fresh == \A l \in LinesOf(r.po) : r.sum[l] = received[l] + r.qty[l]
    IN  /\ r.op = "tally"
        /\ Book(Arriving(r.qty))
        /\ received' = [l \in Lines |-> received[l] + r.qty[l]]
        /\ poStatus' = [poStatus EXCEPT ![r.po] = NextStatus(r.po, r.seen, r.sum)]
        /\ poCrossed' = IF fresh THEN poCrossed ELSE poCrossed \cup {r.po}
        /\ Done(s)
        /\ UNCHANGED <<menu, orderRows, link, acts>>

-----------------------------------------------------------------------------
Sales ==
    \/ \E o \in Orders :
         \/ \E n \in 1..MaxPortions, extra \in SUBSET Items, removed \in SUBSET recipe :
              CreateOrder(o, n, extra, removed)
         \/ \E n \in 0..MaxPortions : EditQuantity(o, n)
         \/ Pay(o)
         \/ \E s \in Staff : \/ VoidRead(s, o)
                             \/ \E status \in OrderStatus : StatusRead(s, o, status)
    \/ \E s \in Staff : VoidCommit(s) \/ StatusWrite(s)

BackOffice ==
    \/ \E r \in Recipes : EditRecipe(r)
    \/ \E t \in Trackings : SwitchTracking(t)
    \/ \E i \in Items, n \in 1..MaxPortions : Adjust(i, n) \/ Adjust(i, -n)
    \/ \E p \in Preps, n \in 1..MaxPortions : Prepare(p, n)
    \/ \E s \in Staff, i \in Items, n \in 0..MaxPortions : CountRead(s, i, n)
    \/ \E s \in Staff : CountWrite(s) \/ CountAudit(s)

Purchasing ==
    \/ \E p \in POs :
         \/ \E rows \in [Lines -> (Items \ Preps) \cup {NoItem}] : CreatePurchaseOrder(p, rows)
         \/ \E s \in Staff, status \in POStatus : POStatusRead(s, p, status)
         \/ \E s \in Staff, qty \in [Lines -> 0..MaxArrival] : ReceiptRead(s, p, qty)
    \/ \E s \in Staff : POStatusWrite(s) \/ ReceiptTally(s) \/ ReceiptCommit(s)

Next == Sales \/ BackOffice \/ Purchasing \/ \E s \in Staff : Fail(s)

Spec == Init /\ [][Next]_vars

-----------------------------------------------------------------------------
(* Properties.                                                             *)

\* What an order has taken on balance is what its impacts say, or nothing once a
\* void gave them back, for every order that no request hit which had read it
\* before (the comment above order_stock_impacts: the stock effect captured when an
\* order is created).  It is not so for a line that leaves something out or adds
\* to the recipe: its impacts are the recipe's.
BooksBalance ==
    \A o \in Orders \ (crossed \cup altered), i \in Items :
      net[o][i] = IF o \in restored THEN 0 ELSE impacts[o][i]

\* An order whose stock was given back is cancelled: not paid, not open again
\* (voidOrder and the checkout, whichever commits first).
ReturnedIsCancelled == \A o \in restored \ crossed : orderStatus[o] = "cancelled"

\* Counts of an item that are written and not audited yet.
AuditsOf(i) == {s \in Staff : request[s].op = "audit" /\ request[s].item = i}

\* Opening quantity, movements, production runs and audited counts explain the
\* quantity of every item of which no audit is under way, however sales, voids,
\* counts, receipts and production interleave, unless a count wrote over what it had
\* not seen or failed before its audit (stock_movements, inventory_audit).
LedgerExplains ==
    \A i \in Items \ (overwritten \cup unaudited) : AuditsOf(i) = {} => quantity[i] = booked[i]

\* A purchase order of which every line has come is received, in whatever order
\* receipts commit, unless a status change or a sum was out of date when it was
\* written: a sum can be that of a receipt which shares no locked row with another
\* one of the order (createGoodsReceipt).
DeliveredIsReceived ==
    \A p \in POs \ poCrossed :
      (\A l \in LinesOf(p) : received[l] >= OrderedQty[l]) => poStatus[p] = "received"
=============================================================================

----------------------------- MODULE StockProofs -----------------------------
(***************************************************************************)
(* Proofs about Stock: its types, the balance of every order's books, what *)
(* becomes of voided orders, the ledger and the receipt of purchases, for  *)
(* any items, orders and purchase orders and any number of requests.       *)
(***************************************************************************)
EXTENDS Stock, SumLemmas

USE ItemsAssumption, RecipesAssumption, LinesAssumption, StaffAssumption, InputsAssumption,
    OpeningAssumption, OrderedQtyAssumption, BoundsAssumption

-----------------------------------------------------------------------------
(* Types.                                                                  *)

\* Item quantities and their sums and differences.
Amounts == [Items -> Int]

LEMMA ItemTypes ==
    ASSUME TypeOK, NEW change \in [Items -> Int], Book(change),
           \A i \in Items : quantity[i] + change[i] >= 0
    PROVE  quantity' \in [Items -> Nat] /\ booked' \in [Items -> Int]
           /\ overwritten' \subseteq Items /\ unaudited' \subseteq Items
BY DEF TypeOK, Book

LEMMA DivisionIsNatural == \A a \in Nat, b \in Nat \ {0} : a \div b \in Nat
OBVIOUS

LEMMA ConsumptionTypes ==
    ASSUME TypeOK, NEW n \in Nat, NEW extra, NEW removed
    PROVE  Consumption(n, extra, removed) \in [Items -> Nat] /\ Impacts(n) \in [Items -> Nat]
BY DEF TypeOK, Consumption, Impacts

LEMMA ScaledTypes ==
    ASSUME TypeOK, NEW o \in Orders, portions[o] > 0, NEW n \in Nat
    PROVE  Scaled(o, n) \in [Items -> Nat]
BY DivisionIsNatural DEF TypeOK, Scaled

\* What the requests under way carry, by kind.
LEMMA RequestTypes ==
    ASSUME TypeOK, NEW s \in Staff
    PROVE  /\ request[s].op = "void" => request[s].order \in Orders /\ request[s].impacts \in [Items -> Nat]
           /\ request[s].op = "status" =>
                request[s].order \in Orders /\ request[s].seen \in OrderStatus /\ request[s].status \in OrderStatus
           /\ request[s].op \in {"count", "audit"} =>
                request[s].item \in Items /\ request[s].seen \in Nat /\ request[s].counted \in Nat
           /\ request[s].op = "poStatus" =>
                request[s].po \in POs /\ request[s].seen \in POStatus /\ request[s].status \in POStatus
           /\ request[s].op = "receipt" =>
                request[s].po \in POs /\ request[s].qty \in [Lines -> Nat] /\ request[s].seen \in POStatus
           /\ request[s].op = "tally" =>
                /\ request[s].po \in POs /\ request[s].qty \in [Lines -> Nat] /\ request[s].seen \in POStatus
                /\ request[s].sum \in [Lines -> Nat]
<1>1. request[s] \in Requests
  BY DEF TypeOK
<1> QED
  BY <1>1 DEF Requests, Idle

LEMMA AskTypes ==
    ASSUME TypeOK, NEW s \in Staff, NEW r \in Requests, Ask(s, r)
    PROVE  request' \in [Staff -> Requests]
BY DEF TypeOK, Ask

LEMMA DoneTypes ==
    ASSUME TypeOK, NEW s \in Staff, Done(s)
    PROVE  request' \in [Staff -> Requests]
BY DEF TypeOK, Done, Requests

LEMMA ActTypes ==
    ASSUME TypeOK, Act
    PROVE  acts' \in 0..MaxActs
BY DEF TypeOK, Act

\* TypeOK in three parts, each disturbed by a few actions.
ItemsTyped ==
    /\ quantity \in [Items -> Nat]
    /\ booked \in [Items -> Int]
    /\ overwritten \subseteq Items
    /\ unaudited \subseteq Items
    /\ recipe \subseteq Items
    /\ tracked \in Trackings

OrdersTyped ==
    /\ orderStatus \in [Orders -> OrderStatus]
    /\ portions \in [Orders -> 0..MaxPortions]
    /\ impacts \in [Orders -> [Items -> Nat]]
    /\ net \in [Orders -> [Items -> Int]]
    /\ altered \subseteq Orders
    /\ restored \subseteq Orders
    /\ crossed \subseteq Orders

PurchasesTyped ==
    /\ poStatus \in [POs -> POStatus]
    /\ link \in [Lines -> (Items \ Preps) \cup {NoItem}]
    /\ received \in [Lines -> Nat]
    /\ poCrossed \subseteq POs

RequestsTyped ==
    /\ request \in [Staff -> Requests]
    /\ acts \in 0..MaxActs

LEMMA TypeParts ==
    /\ TypeOK => ItemsTyped /\ OrdersTyped /\ PurchasesTyped /\ RequestsTyped
    /\ ItemsTyped' /\ OrdersTyped' /\ PurchasesTyped' /\ RequestsTyped' => TypeOK'
BY DEF TypeOK, ItemsTyped, OrdersTyped, PurchasesTyped, RequestsTyped

LEMMA UnchangedParts ==
    /\ ItemsTyped /\ UNCHANGED <<items, menu>> => ItemsTyped'
    /\ OrdersTyped /\ UNCHANGED orderRows => OrdersTyped'
    /\ PurchasesTyped /\ UNCHANGED purchases => PurchasesTyped'
    /\ RequestsTyped /\ UNCHANGED <<request, acts>> => RequestsTyped'
BY DEF ItemsTyped, OrdersTyped, PurchasesTyped, RequestsTyped, items, menu, orderRows, purchases

LEMMA CreateOrderTypes ==
    ASSUME TypeOK, NEW o \in Orders, NEW n \in 1..MaxPortions, NEW extra \in SUBSET Items,
           NEW removed \in SUBSET recipe, CreateOrder(o, n, extra, removed)
    PROVE  TypeOK'
<1> DEFINE taken == Consumption(n, extra, removed)
<1>1. taken \in [Items -> Nat] /\ Impacts(n) \in [Items -> Nat]
  BY ConsumptionTypes
<1>2. Book([i \in Items |-> -taken[i]]) /\ Covered(taken)
  BY DEF CreateOrder, Move
<1> HIDE DEF taken
<1>3. \A i \in Items : quantity[i] + [j \in Items |-> -taken[j]][i] >= 0
  BY <1>1, <1>2 DEF Covered, TypeOK
<1>4. [i \in Items |-> -taken[i]] \in [Items -> Int]
  BY <1>1
<1>5. ItemsTyped'
  BY <1>2, <1>3, <1>4, ItemTypes, TypeParts DEF ItemsTyped, CreateOrder, menu
<1>6. net' = [net EXCEPT ![o] = taken]
  BY DEF CreateOrder, taken
<1>8. taken \in [Items -> Int]
  BY <1>1
<1>9. net' \in [Orders -> [Items -> Int]]
  BY <1>6, <1>8 DEF TypeOK
<1>10. OrdersTyped'
  BY <1>1, <1>9 DEF OrdersTyped, TypeOK, CreateOrder, OrderStatus
<1> QED
  BY <1>5, <1>10, TypeParts, UnchangedParts DEF CreateOrder

LEMMA EditQuantityTypes ==
    ASSUME TypeOK, NEW o \in Orders, NEW n \in 0..MaxPortions, EditQuantity(o, n)
    PROVE  TypeOK'
<1>1. Scaled(o, n) \in [Items -> Nat] /\ impacts[o] \in [Items -> Nat] /\ net[o] \in [Items -> Int]
  BY ScaledTypes DEF EditQuantity, TypeOK
<1> DEFINE more == [i \in Items |-> Scaled(o, n)[i] - impacts[o][i]]
<1>2. Book([i \in Items |-> -more[i]]) /\ Covered(more)
  BY DEF EditQuantity, Move
<1>3. more \in [Items -> Int]
  BY <1>1
<1>4. net' = [net EXCEPT ![o] = [i \in Items |-> @[i] + more[i]]]
  BY DEF EditQuantity
<1> HIDE DEF more
<1>5. \A i \in Items : quantity[i] + [j \in Items |-> -more[j]][i] >= 0
  BY <1>2, <1>3 DEF Covered, TypeOK
<1>6. [i \in Items |-> -more[i]] \in [Items -> Int]
  BY <1>3
<1>7. ItemsTyped'
  BY <1>2, <1>5, <1>6, ItemTypes, TypeParts DEF ItemsTyped, EditQuantity, menu
<1>8. [i \in Items |-> net[o][i] + more[i]] \in [Items -> Int]
  BY <1>1, <1>3
<1>9. net' \in [Orders -> [Items -> Int]]
  BY <1>4, <1>8 DEF TypeOK
<1>10. OrdersTyped'
  BY <1>1, <1>9 DEF OrdersTyped, TypeOK, EditQuantity, Edited, OrderStatus
<1> QED
  BY <1>7, <1>10, TypeParts, UnchangedParts DEF EditQuantity

LEMMA VoidCommitTypes ==
    ASSUME TypeOK, NEW s \in Staff, VoidCommit(s)
    PROVE  TypeOK'
<1> DEFINE o == request[s].order
           back == request[s].impacts
<1>1. o \in Orders /\ back \in [Items -> Nat]
  BY RequestTypes DEF VoidCommit
<1>2. Book(back) /\ net' = [net EXCEPT ![o] = [i \in Items |-> @[i] - back[i]]]
  BY DEF VoidCommit, Move
<1>3. /\ orderStatus' = [orderStatus EXCEPT ![o] = "cancelled"]
      /\ restored' = restored \cup {o}
      /\ crossed' \in {crossed, crossed \cup {o}}
      /\ UNCHANGED <<menu, portions, impacts, altered, purchases, acts>>
  BY DEF VoidCommit
<1> HIDE DEF o, back
<1>4. \A i \in Items : quantity[i] + back[i] >= 0
  BY <1>1 DEF TypeOK
<1>5. ItemsTyped'
  BY <1>1, <1>2, <1>3, <1>4, ItemTypes, TypeParts DEF ItemsTyped, menu
<1>6. [i \in Items |-> net[o][i] - back[i]] \in [Items -> Int]
  BY <1>1 DEF TypeOK
<1>7. net' \in [Orders -> [Items -> Int]]
  BY <1>1, <1>2, <1>6 DEF TypeOK
<1>8. OrdersTyped'
  BY <1>1, <1>3, <1>7 DEF OrdersTyped, TypeOK, OrderStatus
<1>9. RequestsTyped'
  BY <1>3, DoneTypes DEF VoidCommit, RequestsTyped, TypeOK
<1> QED
  BY <1>3, <1>5, <1>8, <1>9, TypeParts, UnchangedParts

LEMMA StatusTypes ==
    ASSUME TypeOK, NEW s \in Staff,
           \/ StatusWrite(s)
           \/ \E o \in Orders : VoidRead(s, o)
           \/ \E o \in Orders, status \in OrderStatus : StatusRead(s, o, status)
    PROVE  TypeOK'
<1>1. CASE StatusWrite(s)
  <2>1. request[s].order \in Orders /\ request[s].status \in OrderStatus
    BY <1>1, RequestTypes DEF StatusWrite
  <2>2. OrdersTyped'
    BY <1>1, <2>1 DEF StatusWrite, OrdersTyped, TypeOK
  <2>3. RequestsTyped'
    BY <1>1, DoneTypes DEF StatusWrite, RequestsTyped, TypeOK
  <2> QED
    BY <1>1, <2>2, <2>3, TypeParts, UnchangedParts DEF StatusWrite
<1>2. ASSUME NEW o \in Orders, VoidRead(s, o) PROVE TypeOK'
  <2>1. [op |-> "void", order |-> o, impacts |-> impacts[o]] \in Requests
    BY DEF Requests, TypeOK
  <2>2. RequestsTyped'
    BY <1>2, <2>1, AskTypes DEF VoidRead, RequestsTyped, TypeOK
  <2> QED
    BY <1>2, <2>2, TypeParts, UnchangedParts DEF VoidRead
<1>3. ASSUME NEW o \in Orders, NEW status \in OrderStatus, StatusRead(s, o, status) PROVE TypeOK'
  <2>1. [op |-> "status", order |-> o, seen |-> orderStatus[o], status |-> status] \in Requests
    BY DEF Requests, TypeOK
  <2>2. RequestsTyped'
    BY <1>3, <2>1, AskTypes, ActTypes DEF StatusRead, RequestsTyped
  <2> QED
    BY <1>3, <2>2, TypeParts, UnchangedParts DEF StatusRead
<1> QED
  BY <1>1, <1>2, <1>3

LEMMA PayTypes ==
    ASSUME TypeOK, NEW o \in Orders, Pay(o)
    PROVE  TypeOK'
<1>1. OrdersTyped'
  BY DEF Pay, OrdersTyped, TypeOK, OrderStatus
<1> QED
  BY <1>1, TypeParts, UnchangedParts DEF Pay

LEMMA MenuTypes ==
    ASSUME TypeOK, \/ \E r \in SUBSET Items : EditRecipe(r)
                   \/ \E t \in Trackings : SwitchTracking(t)
    PROVE  TypeOK'
<1>1. ItemsTyped'
  BY DEF ItemsTyped, TypeOK, EditRecipe, SwitchTracking, items
<1>2. RequestsTyped'
  BY ActTypes DEF RequestsTyped, TypeOK, EditRecipe, SwitchTracking
<1> QED
  BY <1>1, <1>2, TypeParts, UnchangedParts DEF EditRecipe, SwitchTracking

LEMMA AdjustTypes ==
    ASSUME TypeOK, NEW i \in Items, NEW delta \in Int, Adjust(i, delta)
    PROVE  TypeOK'
<1> DEFINE change == [j \in Items |-> IF j = i THEN delta ELSE 0]
<1>1. change \in [Items -> Int] /\ Book(change)
  BY DEF Adjust, Move
<1>2. \A j \in Items : quantity[j] + change[j] >= 0
  BY DEF Adjust, TypeOK
<1> HIDE DEF change
<1>3. ItemsTyped'
  BY <1>1, <1>2, ItemTypes, TypeParts DEF ItemsTyped, Adjust, menu
<1>4. RequestsTyped'
  BY ActTypes DEF RequestsTyped, TypeOK, Adjust
<1> QED
  BY <1>3, <1>4, TypeParts, UnchangedParts DEF Adjust

LEMMA ProductIsNatural == \A a \in Nat, b \in Nat : a * b \in Nat
OBVIOUS

LEMMA PrepareTypes ==
    ASSUME TypeOK, NEW p \in Preps, NEW n \in 1..MaxPortions, Prepare(p, n)
    PROVE  TypeOK'
<1> DEFINE used(i) == Inputs[p][i] * n
           change == [i \in Items |-> (IF i = p THEN n ELSE 0) - used(i)]
<1>1. Book(change) /\ \A i \in Items : quantity[i] >= used(i)
  BY DEF Prepare, Move
<1>2. \A i \in Items : used(i) \in Nat
  <2> SUFFICES ASSUME NEW i \in Items PROVE used(i) \in Nat
    OBVIOUS
  <2>1. Inputs[p][i] \in Nat /\ n \in Nat
    OBVIOUS
  <2> QED
    BY <2>1, ProductIsNatural
<1> HIDE DEF used
<1>3. change \in [Items -> Int]
  BY <1>2
<1>4. \A i \in Items : quantity[i] + change[i] >= 0
  BY <1>1, <1>2 DEF TypeOK
<1> HIDE DEF change
<1>5. ItemsTyped'
  BY <1>1, <1>3, <1>4, ItemTypes, TypeParts DEF ItemsTyped, Prepare, menu
<1>6. RequestsTyped'
  BY ActTypes DEF RequestsTyped, TypeOK, Prepare
<1> QED
  BY <1>5, <1>6, TypeParts, UnchangedParts DEF Prepare

LEMMA CountTypes ==
    ASSUME TypeOK, NEW s \in Staff,
           \/ \E i \in Items, n \in 0..MaxPortions : CountRead(s, i, n)
           \/ CountWrite(s) \/ CountAudit(s)
    PROVE  TypeOK'
<1>1. ASSUME NEW i \in Items, NEW n \in 0..MaxPortions, CountRead(s, i, n) PROVE TypeOK'
  <2>1. [op |-> "count", item |-> i, seen |-> quantity[i], counted |-> n] \in Requests
    BY DEF Requests, TypeOK
  <2>2. RequestsTyped'
    BY <1>1, <2>1, AskTypes, ActTypes DEF CountRead, RequestsTyped
  <2> QED
    BY <1>1, <2>2, TypeParts, UnchangedParts DEF CountRead
<1>2. CASE CountWrite(s)
  <2>1. request[s].item \in Items /\ request[s].seen \in Nat /\ request[s].counted \in Nat
    BY <1>2, RequestTypes DEF CountWrite
  <2>2. ItemsTyped'
    BY <1>2, <2>1 DEF CountWrite, ItemsTyped, TypeOK, menu
  <2>3. request' \in [Staff -> Requests]
    <3>1. CASE Done(s)
      BY <3>1, DoneTypes
    <3>2. CASE request' = [request EXCEPT ![s].op = "audit"]
      <4>1. request[s] \in [op: {"count"}, item: Items, seen: Nat, counted: Nat]
        <5>1. request[s] \in Requests /\ request[s].op = "count"
          BY <1>2 DEF CountWrite, TypeOK
        <5> QED
          BY <5>1 DEF Requests, Idle
      <4>2. [request[s] EXCEPT !.op = "audit"] \in Requests
        BY <4>1 DEF Requests
      <4> QED
        BY <3>2, <4>2 DEF TypeOK
    <3> QED
      BY <1>2, <3>1, <3>2 DEF CountWrite
  <2>4. RequestsTyped'
    BY <1>2, <2>3 DEF CountWrite, RequestsTyped, TypeOK
  <2> QED
    BY <1>2, <2>2, <2>4, TypeParts, UnchangedParts DEF CountWrite
<1>3. CASE CountAudit(s)
  <2>1. request[s].item \in Items /\ request[s].seen \in Nat /\ request[s].counted \in Nat
    BY <1>3, RequestTypes DEF CountAudit
  <2>2. ItemsTyped'
    BY <1>3, <2>1 DEF CountAudit, ItemsTyped, TypeOK, menu
  <2>3. RequestsTyped'
    BY <1>3, DoneTypes DEF CountAudit, RequestsTyped, TypeOK
  <2> QED
    BY <1>3, <2>2, <2>3, TypeParts, UnchangedParts DEF CountAudit
<1> QED
  BY <1>1, <1>2, <1>3

LEMMA FailTypes ==
    ASSUME TypeOK, NEW s \in Staff, Fail(s)
    PROVE  TypeOK'
<1>1. request[s].op = "audit" => request[s].item \in Items
  BY RequestTypes
<1>2. ItemsTyped'
  BY <1>1 DEF Fail, ItemsTyped, TypeOK, menu
<1>3. RequestsTyped'
  BY DoneTypes DEF Fail, RequestsTyped, TypeOK
<1> QED
  BY <1>2, <1>3, TypeParts, UnchangedParts DEF Fail

LEMMA CreatePurchaseOrderTypes ==
    ASSUME TypeOK, NEW p \in POs, NEW rows \in [Lines -> (Items \ Preps) \cup {NoItem}],
           CreatePurchaseOrder(p, rows)
    PROVE  TypeOK'
<1>1. PurchasesTyped'
  BY DEF CreatePurchaseOrder, PurchasesTyped, TypeOK, POStatus
<1> QED
  BY <1>1, TypeParts, UnchangedParts DEF CreatePurchaseOrder

LEMMA POStatusTypes ==
    ASSUME TypeOK, NEW s \in Staff,
           \/ \E p \in POs, status \in POStatus : POStatusRead(s, p, status)
           \/ POStatusWrite(s)
    PROVE  TypeOK'
<1>1. ASSUME NEW p \in POs, NEW status \in POStatus, POStatusRead(s, p, status) PROVE TypeOK'
  <2>1. [op |-> "poStatus", po |-> p, seen |-> poStatus[p], status |-> status] \in Requests
    BY DEF Requests, TypeOK
  <2>2. RequestsTyped'
    BY <1>1, <2>1, AskTypes, ActTypes DEF POStatusRead, RequestsTyped
  <2> QED
    BY <1>1, <2>2, TypeParts, UnchangedParts DEF POStatusRead
<1>2. CASE POStatusWrite(s)
  <2>1. request[s].po \in POs /\ request[s].status \in POStatus
    BY <1>2, RequestTypes DEF POStatusWrite
  <2>2. PurchasesTyped'
    BY <1>2, <2>1 DEF POStatusWrite, PurchasesTyped, TypeOK
  <2>3. RequestsTyped'
    BY <1>2, DoneTypes DEF POStatusWrite, RequestsTyped, TypeOK
  <2> QED
    BY <1>2, <2>2, <2>3, TypeParts, UnchangedParts DEF POStatusWrite
<1> QED
  BY <1>1, <1>2

\* What arrives is a quantity of every item.
LEMMA ArrivingTypes ==
    ASSUME NEW qty \in [Lines -> Nat]
    PROVE  Arriving(qty) \in [Items -> Nat]
<1>1. ASSUME NEW i \in Items PROVE SumFunctionOnSet(qty, {l \in Lines : link[l] = i}) \in Nat
  <2> DEFINE here == {l \in Lines : link[l] = i}
  <2>1. IsFiniteSet(here) /\ \A l \in here : qty[l] \in Nat
    BY FS_Subset
  <2> HIDE DEF here
  <2>2. SumFunctionOnSet(qty, here) \in Nat
    BY <2>1, SumNat
  <2> QED
    BY <2>2 DEF here
<1> QED
  BY <1>1 DEF Arriving

LEMMA ReceiptTypes ==
    ASSUME TypeOK, NEW s \in Staff,
           \/ \E p \in POs, qty \in [Lines -> 0..MaxArrival] : ReceiptRead(s, p, qty)
           \/ ReceiptTally(s) \/ ReceiptCommit(s)
    PROVE  TypeOK'
<1>1. ASSUME NEW p \in POs, NEW qty \in [Lines -> 0..MaxArrival], ReceiptRead(s, p, qty) PROVE TypeOK'
  <2>1. [op |-> "receipt", po |-> p, qty |-> qty, seen |-> poStatus[p]] \in Requests
    BY DEF Requests, TypeOK
  <2>2. RequestsTyped'
    BY <1>1, <2>1, AskTypes, ActTypes DEF ReceiptRead, RequestsTyped
  <2> QED
    BY <1>1, <2>2, TypeParts, UnchangedParts DEF ReceiptRead
<1>2. CASE ReceiptTally(s)
  <2>1. request[s].po \in POs /\ request[s].qty \in [Lines -> Nat] /\ request[s].seen \in POStatus
    BY <1>2, RequestTypes DEF ReceiptTally
  <2>2. [l \in Lines |-> received[l] + request[s].qty[l]] \in [Lines -> Nat]
    BY <2>1 DEF TypeOK
  <2>3. [op |-> "tally", po |-> request[s].po, qty |-> request[s].qty, seen |-> request[s].seen,
         sum |-> [l \in Lines |-> received[l] + request[s].qty[l]]] \in Requests
    BY <2>1, <2>2 DEF Requests
  <2>4. RequestsTyped'
    BY <1>2, <2>3 DEF ReceiptTally, RequestsTyped, TypeOK
  <2> QED
    BY <1>2, <2>4, TypeParts, UnchangedParts DEF ReceiptTally
<1>3. CASE ReceiptCommit(s)
  <2> DEFINE p == request[s].po
             qty == request[s].qty
             arriving == Arriving(qty)
  <2>1. p \in POs /\ qty \in [Lines -> Nat] /\ request[s].seen \in POStatus
    BY <1>3, RequestTypes DEF ReceiptCommit
  <2>2. Book(arriving) /\ arriving \in [Items -> Nat]
    BY <1>3, <2>1, ArrivingTypes DEF ReceiptCommit
  <2>3. /\ received' = [l \in Lines |-> received[l] + qty[l]]
        /\ poStatus' = [poStatus EXCEPT ![p] = NextStatus(p, request[s].seen, request[s].sum)]
        /\ poCrossed' \in {poCrossed, poCrossed \cup {p}}
        /\ UNCHANGED link
    BY <1>3 DEF ReceiptCommit
  <2>4. NextStatus(p, request[s].seen, request[s].sum) \in POStatus
    BY <2>1 DEF NextStatus, POStatus
  <2> HIDE DEF arriving, p, qty
  <2>5. arriving \in [Items -> Int] /\ \A i \in Items : quantity[i] + arriving[i] >= 0
    BY <2>2 DEF TypeOK
  <2>6. ItemsTyped'
    BY <1>3, <2>2, <2>5, ItemTypes, TypeParts DEF ItemsTyped, ReceiptCommit, menu
  <2>7. PurchasesTyped'
    BY <2>1, <2>3, <2>4 DEF PurchasesTyped, TypeOK
  <2>8. RequestsTyped'
    BY <1>3, DoneTypes DEF ReceiptCommit, RequestsTyped, TypeOK
  <2> QED
    BY <1>3, <2>6, <2>7, <2>8, TypeParts, UnchangedParts DEF ReceiptCommit
<1> QED
  BY <1>1, <1>2, <1>3

LEMMA InitTyped == Init => TypeOK
<1> SUFFICES ASSUME Init PROVE TypeOK
  OBVIOUS
<1>1. Nothing \in [Items -> Nat] /\ Nothing \in [Items -> Int] /\ 0 \in 0..MaxPortions /\ 0 \in 0..MaxActs
  BY DEF Nothing
<1>2. quantity \in [Items -> Nat] /\ booked \in [Items -> Int] /\ recipe \subseteq Items
  BY DEF Init
<1>3. tracked \in Trackings /\ acts \in 0..MaxActs
  BY <1>1 DEF Init
<1>4. /\ orderStatus \in [Orders -> OrderStatus] /\ portions \in [Orders -> 0..MaxPortions]
      /\ poStatus \in [POs -> POStatus]
  BY <1>1 DEF Init, OrderStatus, POStatus
<1>5. /\ impacts \in [Orders -> [Items -> Nat]] /\ net \in [Orders -> [Items -> Int]]
  BY <1>1 DEF Init
<1>6. link \in [Lines -> (Items \ Preps) \cup {NoItem}] /\ received \in [Lines -> Nat]
  BY DEF Init
<1>7. Idle \in Requests
  BY DEF Requests
<1>8. request \in [Staff -> Requests]
  BY <1>7 DEF Init
<1>9. /\ altered = {} /\ restored = {} /\ crossed = {}
      /\ overwritten = {} /\ unaudited = {} /\ poCrossed = {}
  BY DEF Init
<1> QED
  BY <1>2, <1>3, <1>4, <1>5, <1>6, <1>8, <1>9 DEF TypeOK

LEMMA StepTyped == TypeOK /\ [Next]_vars => TypeOK'
<1> SUFFICES ASSUME TypeOK, [Next]_vars PROVE TypeOK'
  OBVIOUS
<1>1. CASE Sales
  BY <1>1, CreateOrderTypes, EditQuantityTypes, VoidCommitTypes, StatusTypes, PayTypes DEF Sales
<1>2. CASE BackOffice
  <2>1. \A n \in 1..MaxPortions : n \in Int /\ -n \in Int
    OBVIOUS
  <2> QED
    BY <1>2, <2>1, MenuTypes, AdjustTypes, PrepareTypes, CountTypes DEF BackOffice
<1>3. CASE Purchasing
  BY <1>3, CreatePurchaseOrderTypes, POStatusTypes, ReceiptTypes DEF Purchasing
<1>4. CASE UNCHANGED vars
  BY <1>4, TypeParts, UnchangedParts DEF vars
<1> QED
  BY <1>1, <1>2, <1>3, <1>4, FailTypes DEF Next

\* Every reachable state of the stock is well typed; above all, no interleaving of
\* sales, edits, production, adjustments and counts makes a quantity negative.
THEOREM TypeCorrect == Spec => []TypeOK
<1> QED
  BY InitTyped, StepTyped, PTL DEF Spec

-----------------------------------------------------------------------------
(* The books of orders.                                                    *)

\* The policy lets a cancelled order be nothing but cancelled.
PolicyAsked ==
    \A s \in Staff :
      request[s].op = "status" /\ request[s].seen = "cancelled" => request[s].status = "cancelled"

BooksInv == BooksBalance /\ ReturnedIsCancelled /\ PolicyAsked

LEMMA RequestOf ==
    ASSUME TypeOK, NEW s \in Staff
    PROVE  /\ Done(s) => request'[s] = Idle /\ \A t \in Staff \ {s} : request'[t] = request[t]
           /\ \A r : Ask(s, r) => request'[s] = r /\ \A t \in Staff \ {s} : request'[t] = request[t]
BY DEF TypeOK, Done, Ask

LEMMA PolicyDone ==
    ASSUME TypeOK, PolicyAsked, NEW s \in Staff, Done(s)
    PROVE  PolicyAsked'
<1>1. Idle.op # "status"
  BY DEF Idle
<1> QED
  BY <1>1, RequestOf DEF PolicyAsked

LEMMA PolicyAsk ==
    ASSUME TypeOK, PolicyAsked, NEW s \in Staff, NEW r, Ask(s, r),
           r.op = "status" /\ r.seen = "cancelled" => r.status = "cancelled"
    PROVE  PolicyAsked'
BY RequestOf DEF PolicyAsked

LEMMA BooksKept ==
    ASSUME BooksInv, UNCHANGED <<orderRows, request>>
    PROVE  BooksInv'
BY DEF BooksInv, BooksBalance, ReturnedIsCancelled, PolicyAsked, orderRows

LEMMA OrdersKept ==
    ASSUME BooksInv, UNCHANGED orderRows, PolicyAsked'
    PROVE  BooksInv'
BY DEF BooksInv, BooksBalance, ReturnedIsCancelled, orderRows

LEMMA CreateOrderBooks ==
    ASSUME TypeOK, BooksInv, NEW o \in Orders, NEW n \in 1..MaxPortions, NEW extra \in SUBSET Items,
           NEW removed \in SUBSET recipe, CreateOrder(o, n, extra, removed)
    PROVE  BooksInv'
<1> DEFINE taken == Consumption(n, extra, removed)
<1>1. taken \in [Items -> Nat] /\ Impacts(n) \in [Items -> Nat]
  BY ConsumptionTypes
<1>2. /\ net' = [net EXCEPT ![o] = taken]
      /\ altered' = IF extra = {} /\ removed = {} THEN altered ELSE altered \cup {o}
      /\ impacts' = [impacts EXCEPT ![o] = Impacts(n)]
      /\ orderStatus' = [orderStatus EXCEPT ![o] = "open"] /\ orderStatus[o] = "absent"
      /\ UNCHANGED <<restored, crossed, request>>
  BY DEF CreateOrder
<1>p. extra = {} /\ removed = {} => taken = Impacts(n)
  <2> SUFFICES ASSUME extra = {}, removed = {} PROVE taken = Impacts(n)
    OBVIOUS
  <2>1. \A i \in Items : (IF i \in recipe \ removed THEN n ELSE 0) + (IF i \in extra THEN n ELSE 0)
                           = IF i \in recipe THEN n ELSE 0
    OBVIOUS
  <2> QED
    BY <2>1 DEF Consumption, Impacts
<1> HIDE DEF taken
<1>3. o \in restored => o \in crossed
  BY <1>2 DEF BooksInv, ReturnedIsCancelled
<1>4. o \notin altered' => \A i \in Items : net'[o][i] = impacts'[o][i]
  BY <1>1, <1>2, <1>p DEF TypeOK
<1>5. \A q \in Orders \ {o} : /\ net'[q] = net[q] /\ impacts'[q] = impacts[q]
                              /\ q \in altered' <=> q \in altered
  BY <1>2 DEF TypeOK
<1>6. BooksBalance'
  BY <1>2, <1>3, <1>4, <1>5 DEF BooksInv, BooksBalance
<1>7. ReturnedIsCancelled' /\ PolicyAsked'
  BY <1>2, <1>3 DEF BooksInv, ReturnedIsCancelled, PolicyAsked, TypeOK
<1> QED
  BY <1>6, <1>7 DEF BooksInv

LEMMA EditQuantityBooks ==
    ASSUME TypeOK, BooksInv, NEW o \in Orders, NEW n \in 0..MaxPortions, EditQuantity(o, n)
    PROVE  BooksInv'
<1>1. Scaled(o, n) \in [Items -> Nat] /\ impacts[o] \in [Items -> Nat] /\ net[o] \in [Items -> Int]
  BY ScaledTypes DEF EditQuantity, TypeOK
<1>2. PICK next : next = Scaled(o, n)
  OBVIOUS
<1>3. /\ net' = [net EXCEPT ![o] = [i \in Items |-> @[i] + (next[i] - impacts[o][i])]]
      /\ impacts' = [impacts EXCEPT ![o] = next]
      /\ orderStatus[o] = "open"
      /\ \A q \in Orders \ {o} : orderStatus'[q] = orderStatus[q]
      /\ UNCHANGED <<altered, restored, crossed, request>>
  BY <1>2 DEF EditQuantity, Edited, TypeOK
<1>4. o \in restored => o \in crossed
  BY <1>3 DEF BooksInv, ReturnedIsCancelled
<1>5. \A i \in Items : net'[o][i] = net[o][i] + (next[i] - impacts[o][i]) /\ impacts'[o][i] = next[i]
  BY <1>1, <1>3 DEF TypeOK
<1>6. ASSUME o \notin crossed \cup altered, NEW i \in Items PROVE net'[o][i] = impacts'[o][i]
  <2>1. net[o][i] = impacts[o][i]
    BY <1>4, <1>6 DEF BooksInv, BooksBalance
  <2>2. net[o][i] \in Int /\ impacts[o][i] \in Int /\ next[i] \in Int
    BY <1>1, <1>2 DEF TypeOK
  <2> QED
    BY <1>3, <1>5, <2>1, <2>2
<1>7. \A q \in Orders \ {o} : net'[q] = net[q] /\ impacts'[q] = impacts[q]
  BY <1>3 DEF TypeOK
<1>8. BooksBalance'
  BY <1>3, <1>4, <1>6, <1>7 DEF BooksInv, BooksBalance
<1>9. ReturnedIsCancelled' /\ PolicyAsked'
  BY <1>3, <1>4 DEF BooksInv, ReturnedIsCancelled, PolicyAsked, TypeOK
<1> QED
  BY <1>8, <1>9 DEF BooksInv

LEMMA VoidCommitBooks ==
    ASSUME TypeOK, BooksInv, NEW s \in Staff, VoidCommit(s)
    PROVE  BooksInv'
<1>1. PICK o \in Orders : o = request[s].order
  BY RequestTypes DEF VoidCommit
<1>2. PICK back \in [Items -> Nat] : back = request[s].impacts
  BY RequestTypes DEF VoidCommit
<1>3. /\ net' = [net EXCEPT ![o] = [i \in Items |-> @[i] - back[i]]]
      /\ orderStatus' = [orderStatus EXCEPT ![o] = "cancelled"]
      /\ restored' = restored \cup {o}
      /\ crossed' = IF orderStatus[o] = "open" /\ impacts[o] = back THEN crossed ELSE crossed \cup {o}
      /\ UNCHANGED <<impacts, altered>> /\ Done(s)
  BY <1>1, <1>2 DEF VoidCommit
<1>4. ASSUME o \notin crossed' \cup altered, NEW i \in Items PROVE net'[o][i] = 0
  <2>1. o \notin crossed /\ orderStatus[o] = "open" /\ impacts[o] = back
    BY <1>3, <1>4
  <2>2. o \notin restored
    BY <2>1 DEF BooksInv, ReturnedIsCancelled
  <2>3. net[o][i] = back[i]
    BY <1>4, <2>1, <2>2 DEF BooksInv, BooksBalance
  <2>4. net'[o][i] = net[o][i] - back[i]
    BY <1>3 DEF TypeOK
  <2>5. net[o][i] \in Int /\ back[i] \in Int
    BY DEF TypeOK
  <2> QED
    BY <2>3, <2>4, <2>5
<1>6. \A q \in Orders \ {o} : net'[q] = net[q] /\ orderStatus'[q] = orderStatus[q]
  BY <1>3 DEF TypeOK
<1>7. \A q \in Orders \ {o} : (q \in restored' <=> q \in restored) /\ (q \in crossed' <=> q \in crossed)
  BY <1>3
<1>8. BooksBalance'
  BY <1>3, <1>4, <1>6, <1>7 DEF BooksInv, BooksBalance
<1>9. ReturnedIsCancelled'
  BY <1>3, <1>6, <1>7 DEF BooksInv, ReturnedIsCancelled, TypeOK
<1>10. PolicyAsked'
  BY <1>3, PolicyDone DEF BooksInv
<1> QED
  BY <1>8, <1>9, <1>10 DEF BooksInv

LEMMA StatusWriteBooks ==
    ASSUME TypeOK, BooksInv, NEW s \in Staff, StatusWrite(s)
    PROVE  BooksInv'
<1>1. PICK o \in Orders : o = request[s].order
  BY RequestTypes DEF StatusWrite
<1>2. /\ orderStatus' = [orderStatus EXCEPT ![o] = request[s].status]
      /\ crossed' = IF orderStatus[o] = request[s].seen THEN crossed ELSE crossed \cup {o}
      /\ UNCHANGED <<impacts, net, altered, restored>> /\ Done(s)
  BY <1>1 DEF StatusWrite
<1>3. ASSUME o \in restored, o \notin crossed' PROVE orderStatus'[o] = "cancelled"
  <2>1. orderStatus[o] = "cancelled" /\ request[s].seen = "cancelled"
    BY <1>2, <1>3 DEF BooksInv, ReturnedIsCancelled
  <2> QED
    BY <1>2, <2>1 DEF BooksInv, PolicyAsked, StatusWrite, TypeOK
<1>4. ReturnedIsCancelled'
  BY <1>2, <1>3 DEF BooksInv, ReturnedIsCancelled, TypeOK
<1>5. BooksBalance'
  BY <1>2 DEF BooksInv, BooksBalance
<1>6. PolicyAsked'
  BY <1>2, PolicyDone DEF BooksInv
<1> QED
  BY <1>4, <1>5, <1>6 DEF BooksInv

LEMMA PayBooks ==
    ASSUME TypeOK, BooksInv, NEW o \in Orders, Pay(o)
    PROVE  BooksInv'
BY DEF BooksInv, BooksBalance, ReturnedIsCancelled, PolicyAsked, Pay, TypeOK

LEMMA ReadsBooks ==
    ASSUME TypeOK, BooksInv, NEW s \in Staff,
           \/ \E o \in Orders : VoidRead(s, o)
           \/ \E o \in Orders, status \in OrderStatus : StatusRead(s, o, status)
           \/ \E i \in Items, n \in 0..MaxPortions : CountRead(s, i, n)
           \/ \E p \in POs, status \in POStatus : POStatusRead(s, p, status)
           \/ \E p \in POs, qty \in [Lines -> 0..MaxArrival] : ReceiptRead(s, p, qty)
    PROVE  BooksInv'
<1>1. UNCHANGED orderRows
  BY DEF VoidRead, StatusRead, CountRead, POStatusRead, ReceiptRead
<1>2. PICK r : Ask(s, r) /\ (r.op = "status" /\ r.seen = "cancelled" => r.status = "cancelled")
  <2>1. ASSUME NEW o \in Orders, NEW status \in OrderStatus, StatusRead(s, o, status)
        PROVE  LET r == [op |-> "status", order |-> o, seen |-> orderStatus[o], status |-> status]
               IN  Ask(s, r) /\ (r.seen = "cancelled" => r.status = "cancelled")
    BY <2>1 DEF StatusRead
  <2>2. ASSUME NEW o \in Orders, VoidRead(s, o) PROVE \E r : Ask(s, r) /\ r.op # "status"
    BY <2>2 DEF VoidRead
  <2>3. ASSUME NEW i \in Items, NEW n \in 0..MaxPortions, CountRead(s, i, n)
        PROVE  \E r : Ask(s, r) /\ r.op # "status"
    BY <2>3 DEF CountRead
  <2>4. ASSUME NEW p \in POs, NEW status \in POStatus, POStatusRead(s, p, status)
        PROVE  \E r : Ask(s, r) /\ r.op # "status"
    BY <2>4 DEF POStatusRead
  <2>5. ASSUME NEW p \in POs, NEW qty \in [Lines -> 0..MaxArrival], ReceiptRead(s, p, qty)
        PROVE  \E r : Ask(s, r) /\ r.op # "status"
    BY <2>5 DEF ReceiptRead
  <2> QED
    BY <2>1, <2>2, <2>3, <2>4, <2>5
<1>3. PolicyAsked'
  BY <1>2, PolicyAsk DEF BooksInv
<1> QED
  BY <1>1, <1>3, OrdersKept

LEMMA WritesBooks ==
    ASSUME TypeOK, BooksInv, NEW s \in Staff,
           \/ CountWrite(s) \/ CountAudit(s) \/ Fail(s)
           \/ POStatusWrite(s) \/ ReceiptTally(s) \/ ReceiptCommit(s)
    PROVE  BooksInv'
<1>1. UNCHANGED orderRows
  BY DEF CountWrite, CountAudit, Fail, POStatusWrite, ReceiptTally, ReceiptCommit
<1>2. ASSUME request'[s].op # "status", \A t \in Staff \ {s} : request'[t] = request[t]
      PROVE  PolicyAsked'
  BY <1>2 DEF BooksInv, PolicyAsked
<1>3. ASSUME Done(s) PROVE PolicyAsked'
  BY <1>3, PolicyDone DEF BooksInv
<1>4. CASE CountWrite(s) /\ ~Done(s)
  <2>1. request' = [request EXCEPT ![s].op = "audit"] /\ request[s] \in Requests /\ request[s].op = "count"
    BY <1>4 DEF CountWrite, TypeOK
  <2>2. [request[s] EXCEPT !.op = "audit"].op = "audit"
    BY <2>1 DEF Requests, Idle
  <2>3. request'[s].op = "audit" /\ \A t \in Staff \ {s} : request'[t] = request[t]
    BY <2>1, <2>2 DEF TypeOK
  <2> QED
    BY <1>1, <1>2, <2>3, OrdersKept
<1>5. CASE ReceiptTally(s)
  <2>1. request'[s].op = "tally" /\ \A t \in Staff \ {s} : request'[t] = request[t]
    BY <1>5 DEF ReceiptTally, TypeOK
  <2> QED
    BY <1>1, <1>2, <2>1, OrdersKept
<1>6. CASE Done(s)
  BY <1>1, <1>3, <1>6, OrdersKept
<1> QED
  BY <1>4, <1>5, <1>6 DEF CountAudit, Fail, POStatusWrite, ReceiptCommit

LEMMA BooksStep == TypeOK /\ BooksInv /\ [Next]_vars => BooksInv'
<1> SUFFICES ASSUME TypeOK, BooksInv, [Next]_vars PROVE BooksInv'
  OBVIOUS
<1>1. CASE Sales
  BY <1>1, CreateOrderBooks, EditQuantityBooks, VoidCommitBooks, StatusWriteBooks, PayBooks, ReadsBooks DEF Sales
<1>2. CASE BackOffice
  BY <1>2, BooksKept, ReadsBooks, WritesBooks DEF BackOffice, EditRecipe, SwitchTracking, Adjust, Prepare
<1>3. CASE Purchasing
  BY <1>3, BooksKept, ReadsBooks, WritesBooks DEF Purchasing, CreatePurchaseOrder
<1>4. CASE UNCHANGED vars
  BY <1>4, BooksKept DEF vars
<1> QED
  BY <1>1, <1>2, <1>3, <1>4, WritesBooks DEF Next

LEMMA BooksInit == Init => BooksInv
<1> SUFFICES ASSUME Init PROVE BooksInv
  OBVIOUS
<1>1. \A o \in Orders, i \in Items : net[o][i] = 0 /\ impacts[o][i] = 0
  BY DEF Init, Nothing
<1>2. BooksBalance
  BY <1>1 DEF BooksBalance
<1>3. ReturnedIsCancelled /\ PolicyAsked
  BY DEF Init, ReturnedIsCancelled, PolicyAsked, Idle
<1> QED
  BY <1>2, <1>3 DEF BooksInv

LEMMA BooksInvariant == Spec => []BooksInv
<1> QED
  BY BooksInit, BooksStep, TypeCorrect, PTL DEF Spec

\* What an order has taken is what its impacts say, or nothing after a void, unless
\* a stale request hit it or its line leaves out or adds something: edits, voids and
\* the checkout keep the two in step for every line that is as the recipe says.
THEOREM OrderBooksBalance == Spec => []BooksBalance
<1>1. BooksInv => BooksBalance
  BY DEF BooksInv
<1> QED
  BY <1>1, BooksInvariant, PTL

\* Stock that was given back belongs to a cancelled order: no checkout and no edit
\* gets at it any more.
THEOREM ReturnedStaysCancelled == Spec => []ReturnedIsCancelled
<1>1. BooksInv => ReturnedIsCancelled
  BY DEF BooksInv
<1> QED
  BY <1>1, BooksInvariant, PTL

-----------------------------------------------------------------------------
(* The ledger.                                                             *)

\* What the counts of i that await their audit saw, and what they wrote.
Before(i) == [s \in Staff |-> IF s \in AuditsOf(i) THEN request[s].seen ELSE 0]
After(i) == [s \in Staff |-> IF s \in AuditsOf(i) THEN request[s].counted ELSE 0]
AllBefore(i) == SumFunctionOnSet(Before(i), Staff)
AllAfter(i) == SumFunctionOnSet(After(i), Staff)

\* The ledger and the audits to come explain the quantity of an item.
Explained(i) == quantity[i] + AllBefore(i) = booked[i] + AllAfter(i)

LedgerInv == \A i \in Items \ (overwritten \cup unaudited) : Explained(i)

\* Two sums that differ at one element.
LEMMA SumChange ==
    ASSUME NEW S, IsFiniteSet(S), NEW x \in S,
           NEW f, NEW g, \A y \in S : f[y] \in Nat /\ g[y] \in Nat, \A y \in S \ {x} : g[y] = f[y]
    PROVE  /\ SumFunctionOnSet(f, S) \in Nat /\ SumFunctionOnSet(g, S) \in Nat
           /\ SumFunctionOnSet(g, S) + f[x] = SumFunctionOnSet(f, S) + g[x]
<1> DEFINE rest == S \ {x}
<1>1. IsFiniteSet(rest) /\ \A y \in rest : f[y] \in Nat /\ g[y] \in Nat
  BY FS_RemoveElement
<1>2. /\ SumFunctionOnSet(f, S) = f[x] + SumFunctionOnSet(f, rest)
      /\ SumFunctionOnSet(g, S) = g[x] + SumFunctionOnSet(g, rest)
  BY SumRemove
<1>3. \A y \in rest : g[y] = f[y]
  OBVIOUS
<1> HIDE DEF rest
<1>4. SumFunctionOnSet(g, rest) = SumFunctionOnSet(f, rest) /\ SumFunctionOnSet(f, rest) \in Nat
  BY <1>1, <1>3, SumSame, SumNat
<1>5. f[x] \in Nat /\ g[x] \in Nat
  OBVIOUS
<1> QED
  BY <1>2, <1>4, <1>5

AuditsTyped == \A i \in Items, s \in Staff : Before(i)[s] \in Nat /\ After(i)[s] \in Nat

LEMMA AuditTypes == TypeOK => AuditsTyped
BY RequestTypes DEF AuditsTyped, Before, After, AuditsOf

\* Without an audit under way nothing is left to be explained.
LEMMA NoAudits ==
    ASSUME NEW i \in Items, AuditsOf(i) = {}
    PROVE  AllBefore(i) = 0 /\ AllAfter(i) = 0
<1>1. \A s \in Staff : Before(i)[s] = 0 /\ After(i)[s] = 0
  BY DEF Before, After
<1>2. Cardinality(Staff) * 0 = 0
  BY FS_CardinalityType
<1>3. SumFunctionOnSet(Before(i), Staff) = Cardinality(Staff) * 0
  BY <1>1, SumConstant
<1>4. SumFunctionOnSet(After(i), Staff) = Cardinality(Staff) * 0
  BY <1>1, SumConstant
<1> QED
  BY <1>2, <1>3, <1>4 DEF AllBefore, AllAfter

\* A step at the request s leaves the audits of the others as they are.
LEMMA AuditsElsewhere ==
    ASSUME NEW i \in Items, NEW s \in Staff, \A t \in Staff \ {s} : request'[t] = request[t]
    PROVE  /\ \A t \in Staff \ {s} : Before(i)'[t] = Before(i)[t] /\ After(i)'[t] = After(i)[t]
           /\ s \notin AuditsOf(i) => Before(i)[s] = 0 /\ After(i)[s] = 0
           /\ s \notin AuditsOf(i)' => Before(i)'[s] = 0 /\ After(i)'[s] = 0
           /\ s \in AuditsOf(i) => Before(i)[s] = request[s].seen /\ After(i)[s] = request[s].counted
           /\ s \in AuditsOf(i)' => Before(i)'[s] = request'[s].seen /\ After(i)'[s] = request'[s].counted
BY DEF Before, After, AuditsOf

LEMMA AllChange ==
    ASSUME AuditsTyped, AuditsTyped', NEW i \in Items, NEW s \in Staff,
           \A t \in Staff \ {s} : request'[t] = request[t]
    PROVE  /\ AllBefore(i) \in Nat /\ AllAfter(i) \in Nat
           /\ AllBefore(i)' \in Nat /\ AllAfter(i)' \in Nat
           /\ AllBefore(i)' + Before(i)[s] = AllBefore(i) + Before(i)'[s]
           /\ AllAfter(i)' + After(i)[s] = AllAfter(i) + After(i)'[s]
<1>1. \A t \in Staff : Before(i)[t] \in Nat /\ After(i)[t] \in Nat
  BY DEF AuditsTyped
<1>2. \A t \in Staff : Before(i)'[t] \in Nat /\ After(i)'[t] \in Nat
  BY DEF AuditsTyped
<1>3. \A t \in Staff \ {s} : Before(i)'[t] = Before(i)[t] /\ After(i)'[t] = After(i)[t]
  BY AuditsElsewhere
<1>4. PICK b, a, bn, an : b = Before(i) /\ a = After(i) /\ bn = Before(i)' /\ an = After(i)'
  OBVIOUS
<1>5. /\ SumFunctionOnSet(b, Staff) \in Nat /\ SumFunctionOnSet(bn, Staff) \in Nat
      /\ SumFunctionOnSet(bn, Staff) + b[s] = SumFunctionOnSet(b, Staff) + bn[s]
  BY <1>1, <1>2, <1>3, <1>4, SumChange
<1>6. /\ SumFunctionOnSet(a, Staff) \in Nat /\ SumFunctionOnSet(an, Staff) \in Nat
      /\ SumFunctionOnSet(an, Staff) + a[s] = SumFunctionOnSet(a, Staff) + an[s]
  BY <1>1, <1>2, <1>3, <1>4, SumChange
<1> QED
  BY <1>4, <1>5, <1>6 DEF AllBefore, AllAfter

LEMMA AuditsKept ==
    ASSUME AuditsTyped, AuditsTyped', NEW i \in Items, NEW s \in Staff,
           \A t \in Staff \ {s} : request'[t] = request[t], s \notin AuditsOf(i), s \notin AuditsOf(i)'
    PROVE  AllBefore(i)' = AllBefore(i) /\ AllAfter(i)' = AllAfter(i)
<1>1. Before(i)[s] = 0 /\ After(i)[s] = 0 /\ Before(i)'[s] = 0 /\ After(i)'[s] = 0
  BY AuditsElsewhere
<1>2. PICK b \in Nat, a \in Nat, bn \in Nat, an \in Nat :
        /\ b = AllBefore(i) /\ a = AllAfter(i) /\ bn = AllBefore(i)' /\ an = AllAfter(i)'
        /\ bn + 0 = b + 0 /\ an + 0 = a + 0
  BY <1>1, AllChange
<1> QED
  BY <1>2

\* A step that neither starts nor ends an audit.
AuditsStay == \A i \in Items : AllBefore(i)' = AllBefore(i) /\ AllAfter(i)' = AllAfter(i)

LEMMA RequestStays == UNCHANGED request => AuditsStay
<1> SUFFICES ASSUME UNCHANGED request, NEW i \in Items
             PROVE  AllBefore(i)' = AllBefore(i) /\ AllAfter(i)' = AllAfter(i)
  BY DEF AuditsStay
<1>1. Before(i)' = Before(i) /\ After(i)' = After(i)
  BY DEF Before, After, AuditsOf
<1> QED
  BY <1>1 DEF AllBefore, AllAfter

LEMMA NoAuditStays ==
    ASSUME AuditsTyped, AuditsTyped', NEW s \in Staff, request[s].op # "audit", request'[s].op # "audit",
           \A t \in Staff \ {s} : request'[t] = request[t]
    PROVE  AuditsStay
<1>1. \A i \in Items : s \notin AuditsOf(i) /\ s \notin AuditsOf(i)'
  BY DEF AuditsOf
<1> QED
  BY <1>1, AuditsKept DEF AuditsStay

\* Such a step that changes no quantity without a movement keeps the ledger.
LEMMA BookedExplained ==
    ASSUME TypeOK, LedgerInv, NEW change \in [Items -> Int], Book(change), AuditsStay,
           \A i \in Items : AllBefore(i) \in Nat /\ AllAfter(i) \in Nat
    PROVE  LedgerInv'
<1> SUFFICES ASSUME NEW i \in Items, i \notin overwritten' \cup unaudited' PROVE Explained(i)'
  BY DEF LedgerInv
<1>1. Explained(i) /\ quantity'[i] = quantity[i] + change[i] /\ booked'[i] = booked[i] + change[i]
  BY DEF LedgerInv, Book
<1>2. quantity[i] \in Int /\ booked[i] \in Int /\ change[i] \in Int
  BY DEF TypeOK
<1>3. PICK b \in Nat, a \in Nat : b = AllBefore(i) /\ a = AllAfter(i) /\ quantity[i] + b = booked[i] + a
  BY <1>1 DEF Explained
<1>4. AllBefore(i)' = b /\ AllAfter(i)' = a
  BY <1>3 DEF AuditsStay
<1>5. quantity'[i] + b = booked'[i] + a
  BY <1>1, <1>2, <1>3
<1> QED
  BY <1>4, <1>5 DEF Explained

LEMMA ItemsExplained ==
    ASSUME LedgerInv, UNCHANGED items, AuditsStay
    PROVE  LedgerInv'
BY DEF LedgerInv, Explained, items, AuditsStay

\* What a step moves are amounts.
LEMMA MovesAmounts ==
    ASSUME TypeOK,
           \/ \E o \in Orders, n \in 1..MaxPortions, extra \in SUBSET Items, removed \in SUBSET recipe :
                CreateOrder(o, n, extra, removed)
           \/ \E o \in Orders, n \in 0..MaxPortions : EditQuantity(o, n)
           \/ \E i \in Items, delta \in Int : Adjust(i, delta)
           \/ \E p \in Preps, n \in 1..MaxPortions : Prepare(p, n)
           \/ \E s \in Staff : VoidCommit(s) \/ ReceiptCommit(s)
    PROVE  \E change \in [Items -> Int] : Book(change)
<1>1. ASSUME NEW o \in Orders, NEW n \in 1..MaxPortions, NEW extra \in SUBSET Items,
             NEW removed \in SUBSET recipe, CreateOrder(o, n, extra, removed)
      PROVE  \E change \in [Items -> Int] : Book(change)
  <2> DEFINE taken == Consumption(n, extra, removed)
  <2>1. Book([i \in Items |-> -taken[i]])
    BY <1>1 DEF CreateOrder, Move
  <2>2. taken \in [Items -> Nat]
    BY ConsumptionTypes
  <2> HIDE DEF taken
  <2>3. [i \in Items |-> -taken[i]] \in [Items -> Int]
    BY <2>2
  <2> QED
    BY <2>1, <2>3
<1>2. ASSUME NEW o \in Orders, NEW n \in 0..MaxPortions, EditQuantity(o, n)
      PROVE  \E change \in [Items -> Int] : Book(change)
  <2> DEFINE more == [i \in Items |-> Scaled(o, n)[i] - impacts[o][i]]
  <2>1. Book([i \in Items |-> -more[i]])
    BY <1>2 DEF EditQuantity, Move
  <2>2. Scaled(o, n) \in [Items -> Nat] /\ impacts[o] \in [Items -> Nat]
    BY <1>2, ScaledTypes DEF EditQuantity, TypeOK
  <2>3. more \in [Items -> Int]
    BY <2>2
  <2> HIDE DEF more
  <2>4. [i \in Items |-> -more[i]] \in [Items -> Int]
    BY <2>3
  <2> QED
    BY <2>1, <2>4
<1>3. ASSUME NEW i \in Items, NEW delta \in Int, Adjust(i, delta)
      PROVE  \E change \in [Items -> Int] : Book(change)
  <2>1. Book([j \in Items |-> IF j = i THEN delta ELSE 0])
    BY <1>3 DEF Adjust, Move
  <2> QED
    BY <2>1
<1>4. ASSUME NEW p \in Preps, NEW n \in 1..MaxPortions, Prepare(p, n)
      PROVE  \E change \in [Items -> Int] : Book(change)
  <2> DEFINE used(i) == Inputs[p][i] * n
  <2>1. Book([i \in Items |-> (IF i = p THEN n ELSE 0) - used(i)])
    BY <1>4 DEF Prepare, Move
  <2>2. \A i \in Items : Inputs[p][i] \in Nat /\ n \in Nat
    OBVIOUS
  <2>3. \A i \in Items : used(i) \in Nat
    BY <2>2, ProductIsNatural
  <2> HIDE DEF used
  <2>4. [i \in Items |-> (IF i = p THEN n ELSE 0) - used(i)] \in [Items -> Int]
    BY <2>3
  <2> QED
    BY <2>1, <2>4
<1>5. ASSUME NEW s \in Staff, VoidCommit(s) PROVE \E change \in [Items -> Int] : Book(change)
  BY <1>5, RequestTypes DEF VoidCommit, Move
<1>6. ASSUME NEW s \in Staff, ReceiptCommit(s) PROVE \E change \in [Items -> Int] : Book(change)
  <2>1. PICK qty \in [Lines -> Nat] : Book(Arriving(qty))
    BY <1>6, RequestTypes DEF ReceiptCommit
  <2>2. Arriving(qty) \in [Items -> Nat]
    BY ArrivingTypes
  <2>3. Arriving(qty) \in [Items -> Int]
    BY <2>2
  <2> QED
    BY <2>1, <2>3
<1> QED
  BY <1>1, <1>2, <1>3, <1>4, <1>5, <1>6

\* Requests that end or begin without an audit.
LEMMA OtherRequestsStay ==
    ASSUME TypeOK, AuditsTyped, AuditsTyped', NEW s \in Staff,
           \/ VoidCommit(s) \/ StatusWrite(s) \/ POStatusWrite(s) \/ ReceiptTally(s) \/ ReceiptCommit(s)
           \/ \E r : Ask(s, r) /\ r.op # "audit"
    PROVE  AuditsStay
<1>1. Idle.op # "audit"
  BY DEF Idle
<1>2. CASE ReceiptTally(s)
  BY <1>2, NoAuditStays DEF ReceiptTally, TypeOK
<1>3. CASE VoidCommit(s) \/ StatusWrite(s) \/ POStatusWrite(s) \/ ReceiptCommit(s)
  <2>1. Done(s) /\ request[s].op # "audit"
    BY <1>3 DEF VoidCommit, StatusWrite, POStatusWrite, ReceiptCommit
  <2> QED
    BY <1>1, <2>1, RequestOf, NoAuditStays
<1>4. ASSUME NEW r, Ask(s, r), r.op # "audit" PROVE AuditsStay
  <2>1. request[s].op # "audit"
    BY <1>1, <1>4 DEF Ask
  <2> QED
    BY <1>4, <2>1, RequestOf, NoAuditStays
<1> QED
  BY <1>2, <1>3, <1>4

LEMMA ReadsAsk ==
    ASSUME NEW s \in Staff,
           \/ \E o \in Orders : VoidRead(s, o)
           \/ \E o \in Orders, status \in OrderStatus : StatusRead(s, o, status)
           \/ \E i \in Items, n \in 0..MaxPortions : CountRead(s, i, n)
           \/ \E p \in POs, status \in POStatus : POStatusRead(s, p, status)
           \/ \E p \in POs, qty \in [Lines -> 0..MaxArrival] : ReceiptRead(s, p, qty)
    PROVE  UNCHANGED items /\ \E r : Ask(s, r) /\ r.op # "audit"
<1>1. ASSUME NEW o \in Orders, VoidRead(s, o) PROVE \E r : Ask(s, r) /\ r.op # "audit"
  BY <1>1 DEF VoidRead
<1>2. ASSUME NEW o \in Orders, NEW status \in OrderStatus, StatusRead(s, o, status)
      PROVE  \E r : Ask(s, r) /\ r.op # "audit"
  BY <1>2 DEF StatusRead
<1>3. ASSUME NEW i \in Items, NEW n \in 0..MaxPortions, CountRead(s, i, n)
      PROVE  \E r : Ask(s, r) /\ r.op # "audit"
  BY <1>3 DEF CountRead
<1>4. ASSUME NEW p \in POs, NEW status \in POStatus, POStatusRead(s, p, status)
      PROVE  \E r : Ask(s, r) /\ r.op # "audit"
  BY <1>4 DEF POStatusRead
<1>5. ASSUME NEW p \in POs, NEW qty \in [Lines -> 0..MaxArrival], ReceiptRead(s, p, qty)
      PROVE  \E r : Ask(s, r) /\ r.op # "audit"
  BY <1>5 DEF ReceiptRead
<1>6. UNCHANGED items
  BY DEF VoidRead, StatusRead, CountRead, POStatusRead, ReceiptRead
<1> QED
  BY <1>1, <1>2, <1>3, <1>4, <1>5, <1>6

LEMMA CountWriteLedger ==
    ASSUME TypeOK, AuditsTyped, AuditsTyped', LedgerInv, NEW s \in Staff, CountWrite(s)
    PROVE  LedgerInv'
<1>1. PICK i \in Items : i = request[s].item
  BY RequestTypes DEF CountWrite
<1>2. PICK seen \in Nat, counted \in Nat : seen = request[s].seen /\ counted = request[s].counted
  BY RequestTypes DEF CountWrite
<1>3. /\ quantity' = [quantity EXCEPT ![i] = counted]
      /\ overwritten' = IF quantity[i] = seen THEN overwritten ELSE overwritten \cup {i}
      /\ UNCHANGED <<booked, unaudited>>
  BY <1>1, <1>2 DEF CountWrite
<1>4. request[s].op = "count" /\ \A j \in Items : s \notin AuditsOf(j)
  BY DEF CountWrite, AuditsOf
<1>5. \A t \in Staff \ {s} : request'[t] = request[t]
  BY DEF CountWrite, Done, TypeOK
<1>6. CASE Changes(seen, counted)
  <2>1. request' = [request EXCEPT ![s].op = "audit"] /\ request[s] \in [op: {"count"}, item: Items, seen: Nat, counted: Nat]
    <3>1. request[s] \in Requests
      BY DEF TypeOK
    <3> QED
      BY <1>2, <1>4, <1>6, <3>1 DEF CountWrite, Requests, Idle
  <2>2. request'[s].op = "audit" /\ request'[s].item = i /\ request'[s].seen = seen /\ request'[s].counted = counted
    BY <1>1, <1>2, <2>1 DEF TypeOK
  <2>3. s \in AuditsOf(i)' /\ \A j \in Items \ {i} : s \notin AuditsOf(j)'
    BY <2>2 DEF AuditsOf
  <2>4. ASSUME NEW j \in Items \ {i}, j \notin overwritten' \cup unaudited' PROVE Explained(j)'
    <3>1. AllBefore(j)' = AllBefore(j) /\ AllAfter(j)' = AllAfter(j)
      BY <1>4, <1>5, <2>3, AuditsKept
    <3>2. Explained(j) /\ quantity'[j] = quantity[j]
      BY <1>3, <2>4 DEF LedgerInv, TypeOK
    <3> QED
      BY <1>3, <3>1, <3>2 DEF Explained
  <2>5. ASSUME i \notin overwritten' \cup unaudited' PROVE Explained(i)'
    <3>1. Before(i)[s] = 0 /\ After(i)[s] = 0 /\ Before(i)'[s] = seen /\ After(i)'[s] = counted
      BY <1>4, <1>5, <2>2, <2>3, AuditsElsewhere
    <3>2. PICK b \in Nat, a \in Nat, bn \in Nat, an \in Nat :
            /\ b = AllBefore(i) /\ a = AllAfter(i) /\ bn = AllBefore(i)' /\ an = AllAfter(i)'
            /\ bn + 0 = b + seen /\ an + 0 = a + counted
      BY <1>5, <3>1, AllChange
    <3>3. quantity[i] = seen /\ Explained(i)
      BY <1>3, <2>5 DEF LedgerInv
    <3>4. seen + b = booked[i] + a /\ booked[i] \in Int
      BY <3>2, <3>3 DEF Explained, TypeOK
    <3>5. counted + bn = booked[i] + an
      BY <3>2, <3>4
    <3>6. quantity'[i] = counted /\ booked'[i] = booked[i]
      BY <1>3 DEF TypeOK
    <3> QED
      BY <3>2, <3>5, <3>6 DEF Explained
  <2> QED
    BY <2>4, <2>5 DEF LedgerInv
<1>7. CASE ~Changes(seen, counted)
  <2>1. Done(s) /\ seen = counted
    BY <1>2, <1>7 DEF CountWrite, Changes
  <2>2. request'[s].op # "audit"
    BY <2>1, RequestOf DEF Idle
  <2>3. AuditsStay
    BY <1>4, <1>5, <2>2, NoAuditStays
  <2>4. ASSUME NEW j \in Items, j \notin overwritten' \cup unaudited' PROVE Explained(j)'
    <3>1. Explained(j) /\ quantity'[j] = quantity[j]
      BY <1>3, <2>1, <2>4 DEF LedgerInv, TypeOK
    <3> QED
      BY <1>3, <2>3, <3>1 DEF Explained, AuditsStay
  <2> QED
    BY <2>4 DEF LedgerInv
<1> QED
  BY <1>6, <1>7

\* The audit of s is over: what it says passes into the ledger, or its item is
\* left out of account.
LEMMA AuditEnds ==
    ASSUME TypeOK, AuditsTyped, AuditsTyped', LedgerInv, NEW s \in Staff, NEW i \in Items,
           request[s].op = "audit", request[s].item = i, Done(s),
           NEW seen \in Nat, NEW counted \in Nat, seen = request[s].seen, counted = request[s].counted,
           UNCHANGED <<quantity, overwritten>>, unaudited \subseteq unaudited',
           \A j \in Items \ {i} : booked'[j] = booked[j],
           i \in unaudited' \/ booked'[i] = booked[i] + counted - seen
    PROVE  LedgerInv'
<1>1. request'[s].op # "audit" /\ \A t \in Staff \ {s} : request'[t] = request[t]
  BY RequestOf DEF Idle
<1>2. s \in AuditsOf(i) /\ (\A j \in Items \ {i} : s \notin AuditsOf(j)) /\ \A j \in Items : s \notin AuditsOf(j)'
  BY <1>1 DEF AuditsOf
<1>3. ASSUME NEW j \in Items \ {i}, j \notin overwritten' \cup unaudited' PROVE Explained(j)'
  <2>1. AllBefore(j)' = AllBefore(j) /\ AllAfter(j)' = AllAfter(j)
    BY <1>1, <1>2, AuditsKept
  <2>2. Explained(j)
    BY <1>3 DEF LedgerInv
  <2> QED
    BY <2>1, <2>2 DEF Explained
<1>4. ASSUME i \notin overwritten' \cup unaudited' PROVE Explained(i)'
  <2>1. Before(i)[s] = seen /\ After(i)[s] = counted /\ Before(i)'[s] = 0 /\ After(i)'[s] = 0
    BY <1>1, <1>2, AuditsElsewhere
  <2>2. PICK b \in Nat, a \in Nat, bn \in Nat, an \in Nat :
          /\ b = AllBefore(i) /\ a = AllAfter(i) /\ bn = AllBefore(i)' /\ an = AllAfter(i)'
          /\ bn + seen = b + 0 /\ an + counted = a + 0
    BY <1>1, <2>1, AllChange
  <2>3. quantity[i] + b = booked[i] + a /\ booked[i] \in Int /\ quantity[i] \in Int
    BY <1>4, <2>2 DEF LedgerInv, Explained, TypeOK
  <2>4. quantity[i] + bn = booked'[i] + an
    BY <1>4, <2>2, <2>3
  <2> QED
    BY <2>2, <2>4 DEF Explained
<1> QED
  BY <1>3, <1>4 DEF LedgerInv

LEMMA CountAuditLedger ==
    ASSUME TypeOK, AuditsTyped, AuditsTyped', LedgerInv, NEW s \in Staff, CountAudit(s)
    PROVE  LedgerInv'
<1>1. PICK i \in Items, seen \in Nat, counted \in Nat :
        i = request[s].item /\ seen = request[s].seen /\ counted = request[s].counted
  BY RequestTypes DEF CountAudit
<1>2. booked' = [booked EXCEPT ![i] = booked[i] + counted - seen]
  BY <1>1 DEF CountAudit
<1>3. booked'[i] = booked[i] + counted - seen /\ \A j \in Items \ {i} : booked'[j] = booked[j]
  BY <1>2 DEF TypeOK
<1>4. /\ request[s].op = "audit" /\ Done(s)
      /\ UNCHANGED <<quantity, overwritten, unaudited>>
  BY DEF CountAudit
<1> QED
  BY <1>1, <1>3, <1>4, AuditEnds

LEMMA FailLedger ==
    ASSUME TypeOK, AuditsTyped, AuditsTyped', LedgerInv, NEW s \in Staff, Fail(s)
    PROVE  LedgerInv'
<1>1. Done(s) /\ UNCHANGED <<quantity, booked, overwritten>>
  BY DEF Fail
<1>2. CASE request[s].op = "audit"
  <2>1. PICK i \in Items, seen \in Nat, counted \in Nat :
          i = request[s].item /\ seen = request[s].seen /\ counted = request[s].counted
    BY <1>2, RequestTypes
  <2>2. unaudited' = unaudited \cup {i}
    BY <1>2, <2>1 DEF Fail
  <2> QED
    BY <1>1, <1>2, <2>1, <2>2, AuditEnds
<1>3. CASE request[s].op # "audit"
  <2>1. unaudited' = unaudited
    BY <1>3 DEF Fail
  <2>2. AuditsStay
    BY <1>1, <1>3, RequestOf, NoAuditStays DEF Idle
  <2> QED
    BY <1>1, <2>1, <2>2, ItemsExplained DEF items
<1> QED
  BY <1>2, <1>3

LEMMA LedgerStep == TypeOK /\ TypeOK' /\ LedgerInv /\ [Next]_vars => LedgerInv'
<1> SUFFICES ASSUME TypeOK, TypeOK', LedgerInv, [Next]_vars PROVE LedgerInv'
  OBVIOUS
<1>1. AuditsTyped /\ AuditsTyped'
  BY AuditTypes, PTL
<1>2. \A i \in Items : AllBefore(i) \in Nat /\ AllAfter(i) \in Nat
  BY <1>1, SumNat DEF AuditsTyped, AllBefore, AllAfter
<1>3. CASE Sales
  <2>1. ASSUME UNCHANGED <<items, request>> PROVE LedgerInv'
    BY <2>1, RequestStays, ItemsExplained
  <2>2. ASSUME NEW s \in Staff, VoidCommit(s) PROVE LedgerInv'
    BY <1>1, <1>2, <2>2, MovesAmounts, OtherRequestsStay, BookedExplained
  <2>3. ASSUME NEW s \in Staff, StatusWrite(s) PROVE LedgerInv'
    BY <1>1, <2>3, OtherRequestsStay, ItemsExplained DEF StatusWrite
  <2>4. ASSUME NEW s \in Staff, NEW o \in Orders,
               VoidRead(s, o) \/ \E status \in OrderStatus : StatusRead(s, o, status)
        PROVE  LedgerInv'
    BY <1>1, <2>4, ReadsAsk, OtherRequestsStay, ItemsExplained
  <2>5. ASSUME NEW o \in Orders,
               \/ \E n \in 1..MaxPortions, extra \in SUBSET Items, removed \in SUBSET recipe :
                    CreateOrder(o, n, extra, removed)
               \/ \E n \in 0..MaxPortions : EditQuantity(o, n)
        PROVE  LedgerInv'
    <3>1. UNCHANGED request
      BY <2>5 DEF CreateOrder, EditQuantity
    <3>2. PICK change \in [Items -> Int] : Book(change)
      BY <2>5, MovesAmounts
    <3> QED
      BY <1>2, <3>1, <3>2, RequestStays, BookedExplained
  <2>6. ASSUME NEW o \in Orders, Pay(o) PROVE LedgerInv'
    BY <2>1, <2>6 DEF Pay
  <2> QED
    BY <1>3, <2>2, <2>3, <2>4, <2>5, <2>6 DEF Sales
<1>4. CASE BackOffice
  <2>1. ASSUME UNCHANGED <<items, request>> PROVE LedgerInv'
    BY <2>1, RequestStays, ItemsExplained
  <2>2. ASSUME NEW i \in Items, NEW n \in 1..MaxPortions, Adjust(i, n) \/ Adjust(i, -n) PROVE LedgerInv'
    <3>1. n \in Int /\ -n \in Int
      OBVIOUS
    <3>2. PICK change \in [Items -> Int] : Book(change)
      BY <2>2, <3>1, MovesAmounts
    <3>3. UNCHANGED request
      BY <2>2 DEF Adjust
    <3> QED
      BY <1>2, <3>2, <3>3, RequestStays, BookedExplained
  <2>3. ASSUME NEW p \in Preps, NEW n \in 1..MaxPortions, Prepare(p, n) PROVE LedgerInv'
    <3>1. PICK change \in [Items -> Int] : Book(change)
      BY <2>3, MovesAmounts
    <3>2. UNCHANGED request
      BY <2>3 DEF Prepare
    <3> QED
      BY <1>2, <3>1, <3>2, RequestStays, BookedExplained
  <2>4. ASSUME NEW s \in Staff, NEW i \in Items, NEW n \in 0..MaxPortions, CountRead(s, i, n)
        PROVE  LedgerInv'
    BY <1>1, <2>4, ReadsAsk, OtherRequestsStay, ItemsExplained
  <2>5. ASSUME (\E r \in Recipes : EditRecipe(r)) \/ \E t \in Trackings : SwitchTracking(t) PROVE LedgerInv'
    BY <2>1, <2>5 DEF EditRecipe, SwitchTracking
  <2> QED
    BY <1>1, <1>4, <2>2, <2>3, <2>4, <2>5, CountWriteLedger, CountAuditLedger DEF BackOffice
<1>5. CASE Purchasing
  <2>1. ASSUME NEW p \in POs, NEW rows, CreatePurchaseOrder(p, rows) PROVE LedgerInv'
    BY <2>1, RequestStays, ItemsExplained DEF CreatePurchaseOrder
  <2>2. ASSUME NEW s \in Staff, NEW p \in POs,
               \/ \E status \in POStatus : POStatusRead(s, p, status)
               \/ \E qty \in [Lines -> 0..MaxArrival] : ReceiptRead(s, p, qty)
        PROVE  LedgerInv'
    BY <1>1, <2>2, ReadsAsk, OtherRequestsStay, ItemsExplained
  <2>3. ASSUME NEW s \in Staff, POStatusWrite(s) \/ ReceiptTally(s) PROVE LedgerInv'
    BY <1>1, <2>3, OtherRequestsStay, ItemsExplained DEF POStatusWrite, ReceiptTally
  <2>4. ASSUME NEW s \in Staff, ReceiptCommit(s) PROVE LedgerInv'
    BY <1>1, <1>2, <2>4, MovesAmounts, OtherRequestsStay, BookedExplained
  <2> QED
    BY <1>5, <2>1, <2>2, <2>3, <2>4 DEF Purchasing
<1>6. CASE UNCHANGED vars
  BY <1>6, RequestStays, ItemsExplained DEF vars
<1> QED
  BY <1>1, <1>3, <1>4, <1>5, <1>6, FailLedger DEF Next

LEMMA LedgerInit == Init => LedgerInv
<1> SUFFICES ASSUME Init, NEW i \in Items PROVE Explained(i)
  BY DEF LedgerInv
<1>1. AuditsOf(i) = {} /\ quantity[i] = booked[i]
  BY DEF Init, AuditsOf, Idle
<1> QED
  BY <1>1, NoAudits DEF Explained

\* Movements, production runs and audits explain every quantity of which no audit is
\* under way, unless a count was written over a change it had not seen, or failed
\* between its two statements.
THEOREM LedgerIsComplete == Spec => []LedgerExplains
<1>1. TypeOK /\ LedgerInv => LedgerExplains
  <2> SUFFICES ASSUME TypeOK, LedgerInv, NEW i \in Items \ (overwritten \cup unaudited), AuditsOf(i) = {}
               PROVE  quantity[i] = booked[i]
    BY DEF LedgerExplains
  <2>1. AllBefore(i) = 0 /\ AllAfter(i) = 0 /\ Explained(i)
    BY NoAudits DEF LedgerInv
  <2> QED
    BY <2>1 DEF Explained, TypeOK
<1> QED
  BY <1>1, LedgerInit, LedgerStep, TypeCorrect, PTL DEF Spec

-----------------------------------------------------------------------------
(* Deliveries.                                                             *)

\* No transition leads out of "received", and a receipt is about lines of its order.
Sound(r) ==
    /\ r.op = "poStatus" => r.seen # "received"
    /\ r.op \in {"receipt", "tally"} => \A l \in Lines \ LinesOf(r.po) : r.qty[l] = 0

RequestsSound == \A s \in Staff : Sound(request[s])

DeliveryInv == DeliveredIsReceived /\ RequestsSound

LEMMA DeliveryKept ==
    ASSUME DeliveryInv, UNCHANGED purchases, RequestsSound'
    PROVE  DeliveryInv'
BY DEF DeliveryInv, DeliveredIsReceived, purchases

LEMMA RequestsSoundKept ==
    ASSUME TypeOK, RequestsSound, NEW s \in Staff, Done(s) \/ \E r : Ask(s, r) /\ Sound(r)
    PROVE  RequestsSound'
<1>1. Sound(Idle)
  BY DEF Idle, Sound
<1>2. Sound(request'[s]) /\ \A t \in Staff \ {s} : request'[t] = request[t]
  BY <1>1, RequestOf
<1> QED
  BY <1>2 DEF RequestsSound

LEMMA POStatusWriteDelivers ==
    ASSUME TypeOK, DeliveryInv, NEW s \in Staff, POStatusWrite(s)
    PROVE  DeliveryInv'
<1>1. PICK p \in POs : p = request[s].po
  BY RequestTypes DEF POStatusWrite
<1>2. /\ poStatus' = [poStatus EXCEPT ![p] = request[s].status]
      /\ poCrossed' = IF poStatus[p] = request[s].seen THEN poCrossed ELSE poCrossed \cup {p}
      /\ received' = received /\ Done(s)
  BY <1>1 DEF POStatusWrite
<1>3. request[s].seen # "received"
  BY DEF POStatusWrite, DeliveryInv, RequestsSound, Sound
<1>4. p \notin poCrossed' => ~(\A l \in LinesOf(p) : received[l] >= OrderedQty[l])
  BY <1>2, <1>3 DEF DeliveryInv, DeliveredIsReceived
<1>5. \A q \in POs \ {p} : poStatus'[q] = poStatus[q] /\ (q \in poCrossed' <=> q \in poCrossed)
  BY <1>2 DEF TypeOK
<1>6. DeliveredIsReceived'
  BY <1>2, <1>4, <1>5 DEF DeliveryInv, DeliveredIsReceived, LinesOf
<1> QED
  BY <1>2, <1>6, RequestsSoundKept DEF DeliveryInv

\* The sums of a receipt are those its commit makes true, or its order is crossed;
\* the lines of other orders get nothing.
LEMMA ReceiptCommitDelivers ==
    ASSUME TypeOK, DeliveryInv, NEW s \in Staff, ReceiptCommit(s)
    PROVE  DeliveryInv'
<1>1. PICK p \in POs, qty \in [Lines -> Nat], sum \in [Lines -> Nat], seen \in POStatus :
        p = request[s].po /\ qty = request[s].qty /\ sum = request[s].sum /\ seen = request[s].seen
  BY RequestTypes DEF ReceiptCommit
<1>2. /\ received' = [l \in Lines |-> received[l] + qty[l]]
      /\ poStatus' = [poStatus EXCEPT ![p] = NextStatus(p, seen, sum)]
      /\ poCrossed' = IF \A l \in LinesOf(p) : sum[l] = received[l] + qty[l] THEN poCrossed
                        ELSE poCrossed \cup {p}
      /\ Done(s)
  BY <1>1 DEF ReceiptCommit
<1>3. ASSUME p \notin poCrossed', \A l \in LinesOf(p) : received'[l] >= OrderedQty[l]
      PROVE  poStatus'[p] = "received"
  <2>1. \A l \in LinesOf(p) : received'[l] = sum[l]
    BY <1>2, <1>3 DEF LinesOf
  <2>2. \A l \in LinesOf(p) : sum[l] >= OrderedQty[l]
    BY <1>3, <2>1
  <2>3. NextStatus(p, seen, sum) = "received"
    BY <2>2 DEF NextStatus
  <2> QED
    BY <1>2, <2>3 DEF TypeOK
<1>4. ASSUME NEW q \in POs \ {p}, q \notin poCrossed', \A l \in LinesOf(q) : received'[l] >= OrderedQty[l]
      PROVE  poStatus'[q] = "received"
  <2>1. \A l \in LinesOf(q) : qty[l] = 0
    BY <1>1 DEF DeliveryInv, RequestsSound, Sound, LinesOf, ReceiptCommit
  <2>2. \A l \in LinesOf(q) : received'[l] = received[l]
    BY <1>2, <2>1 DEF LinesOf, TypeOK
  <2>3. q \notin poCrossed /\ poStatus'[q] = poStatus[q]
    BY <1>2, <1>4 DEF TypeOK
  <2> QED
    BY <1>4, <2>2, <2>3 DEF DeliveryInv, DeliveredIsReceived
<1>5. DeliveredIsReceived'
  BY <1>3, <1>4 DEF DeliveredIsReceived, LinesOf
<1> QED
  BY <1>2, <1>5, RequestsSoundKept DEF DeliveryInv

LEMMA ReceiptTallyDelivers ==
    ASSUME TypeOK, DeliveryInv, NEW s \in Staff, ReceiptTally(s)
    PROVE  DeliveryInv'
<1>1. /\ request'[s].op = "tally" /\ request'[s].po = request[s].po /\ request'[s].qty = request[s].qty
      /\ request[s].op = "receipt"
      /\ \A t \in Staff \ {s} : request'[t] = request[t]
  BY DEF ReceiptTally, TypeOK
<1>2. Sound(request[s]) => Sound(request'[s])
  BY <1>1 DEF Sound
<1>3. RequestsSound'
  BY <1>1, <1>2 DEF DeliveryInv, RequestsSound
<1> QED
  BY <1>3, DeliveryKept DEF ReceiptTally

LEMMA CountWriteDelivers ==
    ASSUME TypeOK, DeliveryInv, NEW s \in Staff, CountWrite(s)
    PROVE  DeliveryInv'
<1>1. UNCHANGED purchases
  BY DEF CountWrite
<1>2. CASE Done(s)
  BY <1>1, <1>2, DeliveryKept, RequestsSoundKept DEF DeliveryInv
<1>3. CASE request' = [request EXCEPT ![s].op = "audit"]
  <2>1. request[s] \in Requests /\ request[s].op = "count"
    BY DEF CountWrite, TypeOK
  <2>2. [request[s] EXCEPT !.op = "audit"].op = "audit"
    BY <2>1 DEF Requests, Idle
  <2>3. request'[s].op = "audit" /\ \A t \in Staff \ {s} : request'[t] = request[t]
    BY <1>3, <2>2 DEF TypeOK
  <2>4. RequestsSound'
    BY <2>3 DEF DeliveryInv, RequestsSound, Sound
  <2> QED
    BY <1>1, <2>4, DeliveryKept
<1> QED
  BY <1>2, <1>3 DEF CountWrite

LEMMA RequestDelivers ==
    ASSUME TypeOK, DeliveryInv, NEW s \in Staff,
           \/ VoidCommit(s) \/ StatusWrite(s) \/ CountAudit(s) \/ Fail(s)
           \/ \E o \in Orders : VoidRead(s, o)
           \/ \E o \in Orders, status \in OrderStatus : StatusRead(s, o, status)
           \/ \E i \in Items, n \in 0..MaxPortions : CountRead(s, i, n)
           \/ \E p \in POs, status \in POStatus : POStatusRead(s, p, status)
           \/ \E p \in POs, qty \in [Lines -> 0..MaxArrival] : ReceiptRead(s, p, qty)
    PROVE  DeliveryInv'
<1>1. UNCHANGED purchases
  BY DEF VoidCommit, StatusWrite, CountAudit, Fail, VoidRead, StatusRead, CountRead, POStatusRead, ReceiptRead
<1>2. CASE VoidCommit(s) \/ StatusWrite(s) \/ CountAudit(s) \/ Fail(s)
  BY <1>1, <1>2, DeliveryKept, RequestsSoundKept
     DEF VoidCommit, StatusWrite, CountAudit, Fail, DeliveryInv
<1>3. ASSUME NEW o \in Orders, VoidRead(s, o) PROVE \E r : Ask(s, r) /\ Sound(r)
  BY <1>3 DEF VoidRead, Sound
<1>4. ASSUME NEW o \in Orders, NEW status \in OrderStatus, StatusRead(s, o, status)
      PROVE  \E r : Ask(s, r) /\ Sound(r)
  BY <1>4 DEF StatusRead, Sound
<1>5. ASSUME NEW i \in Items, NEW n \in 0..MaxPortions, CountRead(s, i, n)
      PROVE  \E r : Ask(s, r) /\ Sound(r)
  BY <1>5 DEF CountRead, Sound
<1>6. ASSUME NEW p \in POs, NEW status \in POStatus, POStatusRead(s, p, status)
      PROVE  \E r : Ask(s, r) /\ Sound(r)
  <2>1. poStatus[p] # "received"
    BY <1>6 DEF POStatusRead, purchaseOrderTransitions
  <2> QED
    BY <1>6, <2>1 DEF POStatusRead, Sound
<1>7. ASSUME NEW p \in POs, NEW qty \in [Lines -> 0..MaxArrival], ReceiptRead(s, p, qty)
      PROVE  \E r : Ask(s, r) /\ Sound(r)
  BY <1>7 DEF ReceiptRead, Sound
<1>8. ASSUME \E r : Ask(s, r) /\ Sound(r) PROVE DeliveryInv'
  BY <1>1, <1>8, DeliveryKept, RequestsSoundKept DEF DeliveryInv
<1> QED
  BY <1>2, <1>3, <1>4, <1>5, <1>6, <1>7, <1>8

\* The order that is created is a draft: it was absent, so a status other than
\* "received" told that some line had not come, or it is crossed.
LEMMA CreateDelivers ==
    ASSUME TypeOK, DeliveryInv, NEW p \in POs, NEW rows, CreatePurchaseOrder(p, rows)
    PROVE  DeliveryInv'
<1>1. /\ poStatus[p] = "absent" /\ \A q \in POs \ {p} : poStatus'[q] = poStatus[q]
      /\ UNCHANGED <<received, poCrossed, request>>
  BY DEF CreatePurchaseOrder, TypeOK
<1>2. DeliveredIsReceived'
  BY <1>1 DEF DeliveryInv, DeliveredIsReceived, LinesOf
<1> QED
  BY <1>1, <1>2 DEF DeliveryInv, RequestsSound

LEMMA OthersDeliver ==
    ASSUME DeliveryInv, UNCHANGED <<purchases, request>>
    PROVE  DeliveryInv'
BY DEF DeliveryInv, DeliveredIsReceived, RequestsSound, purchases

LEMMA DeliveryStep == TypeOK /\ DeliveryInv /\ [Next]_vars => DeliveryInv'
<1> SUFFICES ASSUME TypeOK, DeliveryInv, [Next]_vars PROVE DeliveryInv'
  OBVIOUS
<1>1. CASE Sales
  BY <1>1, RequestDelivers, OthersDeliver DEF Sales, CreateOrder, EditQuantity, Pay
<1>2. CASE BackOffice
  BY <1>2, RequestDelivers, CountWriteDelivers, OthersDeliver
     DEF BackOffice, EditRecipe, SwitchTracking, Adjust, Prepare
<1>3. CASE Purchasing
  BY <1>3, CreateDelivers, RequestDelivers, POStatusWriteDelivers, ReceiptTallyDelivers, ReceiptCommitDelivers
     DEF Purchasing
<1>4. CASE UNCHANGED vars
  BY <1>4, OthersDeliver DEF vars
<1> QED
  BY <1>1, <1>2, <1>3, <1>4, RequestDelivers DEF Next

LEMMA DeliveryInit == Init => DeliveryInv
<1> SUFFICES ASSUME Init PROVE DeliveryInv
  OBVIOUS
<1>1. \A p \in POs : \E l \in LinesOf(p) : ~(received[l] >= OrderedQty[l])
  BY DEF Init, LinesOf
<1>2. DeliveredIsReceived
  BY <1>1 DEF DeliveredIsReceived
<1>3. RequestsSound
  BY DEF Init, RequestsSound, Sound, Idle
<1> QED
  BY <1>2, <1>3 DEF DeliveryInv

\* A purchase order of which every line has come is received, in whatever order its
\* receipts lock, sum and commit, unless a stale status change or sum was written to it.
THEOREM DeliveriesAreReceived == Spec => []DeliveredIsReceived
<1>1. DeliveryInv => DeliveredIsReceived
  BY DEF DeliveryInv
<1> QED
  BY <1>1, DeliveryInit, DeliveryStep, TypeCorrect, PTL DEF Spec
=============================================================================

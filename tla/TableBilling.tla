---------------------------- MODULE TableBilling ----------------------------
(***************************************************************************)
(* The bill of a restaurant table: orders, payments and table status, and  *)
(* the transactions of cashiers and waiters that meet on them.             *)
(*                                                                         *)
(* PostgreSQL runs the transactions at READ COMMITTED.  Checkout (close,   *)
(* split, pay items, pay a share) and relocation lock the tables row first; *)
(* order creation updates that row, so it waits for the lock and holds it; *)
(* edits, voids and status changes of an order lock at most the order.     *)
(* A step reads or writes what no other transaction can change meanwhile.  *)
(*                                                                         *)
(* An order has one line, at unit price one: qty is both the quantity of   *)
(* the line and orders.total.  A line of quantity zero has been deleted.   *)
(***************************************************************************)
EXTENDS Naturals, Sequences, FiniteSets, Functions

CONSTANTS
    Tables,      \* ids of tables rows
    Orders,      \* ids of orders rows, each with one order_items row
    Null,
    Ops,         \* handlers in use
    MaxQty,      \* bound on the quantity of a line
    MaxPeople,   \* bound on the shares of a split
    MaxPayments, \* bound on payments rows
    MaxRequests  \* bound on requests under way at one time

ASSUME NullAssumption == Null \notin Tables
ASSUME OrdersAssumption == IsFiniteSet(Orders)
ASSUME BoundsAssumption == MaxQty \in Nat \ {0} /\ MaxPeople \in Nat /\ MaxPayments \in Nat
                             /\ MaxRequests \in Nat

VARIABLES
    orderTable,   \* orders.table_number
    orderStatus,  \* orders.status; "open" is any status but paid and cancelled
    qty,          \* order_items.quantity and orders.total
    paidUnits,    \* sum of payment_items.quantity of the order's line
    payments,     \* payments rows in the order of insertion
    tableStatus,  \* tables.status
    tx,           \* transaction that holds the lock of a tables row
    creating,     \* createOrder under way, and its table
    floor,        \* request about an order that does not lock the table
    signal,       \* status a suspend or resume is about to write
    peak,         \* history: largest quantity of the order's line
    reopened,     \* history: paid or cancelled orders that a status change opened
    doubled,      \* history: orders whose line one request to pay items named twice
    freedByFloor  \* history: tables last freed by a request of the floor

orderRows == <<orderTable, orderStatus, qty, paidUnits, peak, reopened, doubled>>
tableRows == <<tableStatus, freedByFloor>>
vars == <<orderRows, payments, tableRows, tx, creating, floor, signal>>

NoTx == [op |-> "none", seen |-> {}, units |-> [o \in Orders |-> 0], to |-> Null]
NoFloor == [op |-> "none", table |-> Null, frees |-> FALSE]

Payment == [type : {"close", "share", "items", "refund"}, table : Tables, total : Nat,
            state : {"pending", "captured"}, share : 0..MaxPeople, ref : Nat,
            covers : SUBSET Orders, bill : Nat]

Transaction == [op : {"none", "close", "split", "items", "relocate", "target"},
                seen : SUBSET Orders, units : [Orders -> 0..MaxQty], to : Tables \cup {Null}]

FloorRequest == [op : {"none", "status", "void", "voiding", "removing"},
                 table : Tables \cup {Null}, frees : BOOLEAN]

RowsTyped ==
    /\ orderTable \in [Orders -> Tables \cup {Null}]
    /\ orderStatus \in [Orders -> {"absent", "open", "paid", "cancelled"}]
    /\ qty \in [Orders -> 0..MaxQty]
    /\ paidUnits \in [Orders -> 0..2 * MaxQty]
    /\ tableStatus \in [Tables -> {"free", "occupied", "suspended"}]
    /\ tx \in [Tables -> Transaction]
    /\ creating \in [Orders -> Tables \cup {Null}]
    /\ floor \in [Orders -> FloorRequest]
    /\ signal \in [Tables -> {"none", "suspended", "occupied", "free"}]
    /\ peak \in [Orders -> 0..MaxQty]
    /\ freedByFloor \subseteq Tables
    /\ reopened \subseteq Orders
    /\ doubled \subseteq Orders

TypeOK == RowsTyped /\ payments \in Seq(Payment) /\ Len(payments) <= MaxPayments

Init ==
    /\ orderTable = [o \in Orders |-> Null]
    /\ orderStatus = [o \in Orders |-> "absent"]
    /\ qty = [o \in Orders |-> 0]
    /\ paidUnits = [o \in Orders |-> 0]
    /\ payments = <<>>
    /\ tableStatus = [t \in Tables |-> "free"]
    /\ tx = [t \in Tables |-> NoTx]
    /\ creating = [o \in Orders |-> Null]
    /\ floor = [o \in Orders |-> NoFloor]
    /\ signal = [t \in Tables |-> "none"]
    /\ peak = [o \in Orders |-> 0]
    /\ freedByFloor = {}
    /\ reopened = {}
    /\ doubled = {}

OpenAt(t) == {o \in Orders : orderStatus[o] = "open" /\ orderTable[o] = t}

PaymentsAt(t) == {i \in DOMAIN payments : payments[i].table = t}

Total(f, S) == SumFunctionOnSet(f, S)

\* The tables row is locked by a checkout, a relocation or a createOrder.
Locked(t) == tx[t] # NoTx \/ \E o \in Orders : creating[o] = t

\* The order's row is locked by a void or a line removal not yet committed.
InFlight(o) == floor[o].op \in {"voiding", "removing"}

\* Mutant: the orders' row locks are ignored.
SettleAtOnce(t) ==
    /\ orderStatus' = [o \in Orders |-> IF o \in OpenAt(t) THEN "paid" ELSE orderStatus[o]]
    /\ tableStatus' = [tableStatus EXCEPT ![t] = "free"]
    /\ freedByFloor' = freedByFloor \ {t}

\* The table's open orders become paid and the table free.  The UPDATE waits for
\* the locks of its rows.
Settle(t) ==
    /\ \A o \in OpenAt(t) : ~InFlight(o)
    /\ orderStatus' = [o \in Orders |-> IF o \in OpenAt(t) THEN "paid" ELSE orderStatus[o]]
    /\ tableStatus' = [tableStatus EXCEPT ![t] = "free"]
    /\ freedByFloor' = freedByFloor \ {t}

\* MaxRequests bounds the requests under way.
Requests ==
    Cardinality({t \in Tables : tx[t].op \notin {"none", "target"}})
      + Cardinality({o \in Orders : creating[o] # Null})
      + Cardinality({o \in Orders : floor[o] # NoFloor})
      + Cardinality({t \in Tables : signal[t] # "none"})

Admitted == Requests < MaxRequests

-----------------------------------------------------------------------------
(* createOrder: insert the order, occupy the table, deduct stock, commit.  *)

CreateBegin(o, t) ==
    /\ orderStatus[o] = "absent" /\ creating[o] = Null
    /\ ~Locked(t)
    /\ Admitted
    /\ creating' = [creating EXCEPT ![o] = t]
    /\ UNCHANGED <<orderRows, payments, tableRows, tx, floor, signal>>

CreateCommit(o, q) ==
    /\ creating[o] # Null /\ q > 0
    /\ orderTable' = [orderTable EXCEPT ![o] = creating[o]]
    /\ orderStatus' = [orderStatus EXCEPT ![o] = "open"]
    /\ qty' = [qty EXCEPT ![o] = q]
    /\ peak' = [peak EXCEPT ![o] = q]
    /\ tableStatus' = [tableStatus EXCEPT ![creating[o]] = "occupied"]
    /\ freedByFloor' = freedByFloor \ {creating[o]}
    /\ creating' = [creating EXCEPT ![o] = Null]
    /\ UNCHANGED <<paidUnits, reopened, doubled, payments, tx, floor, signal>>

\* Insufficient stock, an inactive dish, a lost connection: rollback.
CreateAbort(o) ==
    /\ creating[o] # Null
    /\ creating' = [creating EXCEPT ![o] = Null]
    /\ UNCHANGED <<orderRows, payments, tableRows, tx, floor, signal>>

-----------------------------------------------------------------------------
(* Checkout: lock the table, read its open orders, then read on and write. *)

BillRead(t, op) ==
    /\ op \in Ops \cap {"close", "split", "items"}
    /\ ~Locked(t) /\ OpenAt(t) # {}
    /\ Admitted
    /\ tx' = [tx EXCEPT ![t] =
               [op |-> op, seen |-> OpenAt(t), to |-> Null,
                units |-> [o \in Orders |-> IF o \in OpenAt(t) THEN qty[o] ELSE 0]]]
    /\ UNCHANGED <<orderRows, payments, tableRows, creating, floor, signal>>

Release(S) == tx' = [t \in Tables |-> IF t \in S THEN NoTx ELSE tx[t]]

\* No payable balance, a partially paid bill, a share still pending, a deadlock
\* with a void, a lost connection: rollback.
Abort(t) ==
    /\ tx[t].op \notin {"none", "target"}
    /\ Release({t, tx[t].to})
    /\ UNCHANGED <<orderRows, payments, tableRows, creating, floor, signal>>

\* The bill as it was read before the orders were locked.
Bill(t) == Total(tx[t].units, tx[t].seen)

NewPayment(type, t, total, covers) ==
    [type |-> type, table |-> t, total |-> total, state |-> "captured", share |-> 0,
     ref |-> 0, covers |-> covers, bill |-> 0]

HasSplit(t) == \E i \in PaymentsAt(t) : payments[i].share > 0

AllCaptured(t) == \A i \in PaymentsAt(t) : payments[i].state = "captured"

LinesOf(t) == Total(qty, tx[t].seen)

PaidOf(t) == Total(paidUnits, tx[t].seen)

\* Nothing was paid by item: one payment for the whole bill.
ClosePays(t) ==
    /\ tx[t].op = "close" /\ ~HasSplit(t) /\ PaidOf(t) = 0
    /\ Len(payments) < MaxPayments
    /\ payments' = Append(payments, NewPayment("close", t, Bill(t), tx[t].seen))

\* Mutant: a bill without lines counts as paid.
CloseFindsNothingDue(t) ==
    /\ tx[t].op = "close" /\ ~HasSplit(t) /\ PaidOf(t) >= LinesOf(t)
    /\ \E i \in PaymentsAt(t) : payments' = [payments EXCEPT ![i].total = Bill(t)]

\* Everything was paid by item: the last payment gets the total of the bill.
\* The query has no ORDER BY, so "last" is any payment of the table.
CloseFindsPaid(t) ==
    /\ tx[t].op = "close" /\ ~HasSplit(t) /\ LinesOf(t) > 0 /\ PaidOf(t) >= LinesOf(t)
    /\ \E i \in PaymentsAt(t) : payments' = [payments EXCEPT ![i].total = Bill(t)]

\* The table has shares and every payment of it is captured: no row is written.
CloseFindsShares(t) ==
    /\ tx[t].op = "close" /\ HasSplit(t) /\ AllCaptured(t)
    /\ UNCHANGED payments

CloseCommit(t) ==
    /\ ClosePays(t) \/ CloseFindsPaid(t) \/ CloseFindsShares(t)
    /\ Settle(t)
    /\ Release({t})
    /\ UNCHANGED <<orderTable, qty, paidUnits, peak, reopened, doubled, creating, floor, signal>>

\* Mutant: the rounding remainder is dropped.
SharesWithoutRest(total, n) == {[k \in 1..n |-> total \div n]}

\* makeShares: everyone pays the rounded-down share, the last the remainder.
\* The floating-point quotient may fall one cent short of an exact division.
Shares(total, n) ==
    {[k \in 1..n |-> IF k < n THEN s ELSE total - (n - 1) * s] :
       s \in {total \div n} \cup {x \in 0..total : total % n = 0 /\ x + 1 = total \div n}}

SplitCommit(t, n) ==
    /\ tx[t].op = "split" /\ Bill(t) > 0
    /\ \A o \in OpenAt(t) : ~InFlight(o)
    /\ Len(payments) + n <= MaxPayments
    /\ \E shares \in Shares(Bill(t), n) :
         payments' = payments \o
           [k \in 1..n |-> [type |-> "share", table |-> t, total |-> shares[k],
                            state |-> "pending", share |-> k, ref |-> Len(payments) + 1,
                            covers |-> tx[t].seen, bill |-> Bill(t)]]
    /\ Release({t})
    /\ UNCHANGED <<orderRows, tableRows, creating, floor, signal>>

\* Mutant: what was paid before is not subtracted.
SelectionIgnoringPaid(t) == {u \in [Orders -> 0..MaxQty] : \A o \in Orders : u[o] <= tx[t].units[o]}

\* Units that may be selected: of lines read, and not paid yet.  An entry of the
\* request is checked against the payments of earlier requests alone.
Selection(t) ==
    {u \in [Orders -> 0..MaxQty] : \A o \in Orders : u[o] + paidUnits[o] <= tx[t].units[o] \/ u[o] = 0}

\* Inserting a payment_items row needs its line: not deleted, not being deleted.
LinePresent(o) == qty[o] > 0 /\ floor[o].op # "removing"

\* paySelectedItems: the quantities were read without locking the orders.  The
\* bill is settled when the units paid reach the units read, summed over all lines.
\* A request may name a line again, in a second selection checked like the first
\* (two entries of a line stand for any number of them).
ItemsCommit(t) ==
    /\ tx[t].op = "items"
    /\ Len(payments) < MaxPayments
    /\ \E u, again \in Selection(t) :
         LET units == [o \in Orders |-> u[o] + again[o]]
             covers == {o \in Orders : units[o] > 0}
             paid == [o \in Orders |-> paidUnits[o] + units[o]]
         IN /\ covers # {} /\ \A o \in covers : LinePresent(o)
            /\ payments' = Append(payments, NewPayment("items", t, Total(units, covers), covers))
            /\ paidUnits' = paid
            /\ doubled' = doubled \cup {o \in Orders : u[o] > 0 /\ again[o] > 0}
            /\ IF Total(paid, tx[t].seen) >= Bill(t)
               THEN Settle(t)
               ELSE UNCHANGED <<orderStatus, tableRows>>
    /\ Release({t})
    /\ UNCHANGED <<orderTable, qty, peak, reopened, creating, floor, signal>>

\* markShareAsPaid: any pending share with the index; the table's shares of all
\* splits decide whether the open orders are paid.
MarkShare(t, i) ==
    /\ "split" \in Ops
    /\ ~Locked(t)
    /\ i \in PaymentsAt(t) /\ payments[i].share > 0 /\ payments[i].state = "pending"
    /\ payments' = [payments EXCEPT ![i].state = "captured"]
    /\ IF \A k \in PaymentsAt(t) \ {i} : payments[k].share > 0 => payments[k].state = "captured"
       THEN Settle(t)
       ELSE UNCHANGED <<orderStatus, tableRows>>
    /\ UNCHANGED <<orderTable, qty, paidUnits, peak, reopened, doubled, tx, creating, floor, signal>>

\* refundPayment: the refunded row is locked, so refunds of one payment queue up.
RefundsOf(i) == {k \in DOMAIN payments : payments[k].type = "refund" /\ payments[k].ref = i}

Refund(i, amount) ==
    /\ "refund" \in Ops
    /\ i \in DOMAIN payments /\ payments[i].type # "refund"
    /\ Len(payments) < MaxPayments
    /\ amount > 0
    /\ amount + Total([k \in DOMAIN payments |-> payments[k].total], RefundsOf(i)) <= payments[i].total
    /\ payments' = Append(payments, [NewPayment("refund", payments[i].table, amount, {})
                                       EXCEPT !.ref = i])
    /\ UNCHANGED <<orderRows, tableRows, tx, creating, floor, signal>>

-----------------------------------------------------------------------------
(* transferTable and mergeTable share relocateOpenOrdersAndPayments.       *)

RelocateRead(s, t) ==
    /\ "relocate" \in Ops
    /\ s # t /\ ~Locked(s) /\ ~Locked(t)
    /\ OpenAt(s) # {}
    /\ \A i \in PaymentsAt(s) \cup PaymentsAt(t) : ~(payments[i].share > 0 /\ payments[i].state = "pending")
    /\ Admitted
    /\ tx' = [tx EXCEPT ![s] = [NoTx EXCEPT !.op = "relocate", !.seen = OpenAt(s), !.to = t],
                        ![t] = [NoTx EXCEPT !.op = "target"]]
    /\ UNCHANGED <<orderRows, payments, tableRows, creating, floor, signal>>

\* Mutant: payments that the bill of the moved orders needs stay behind.
NoSessionPayments(s) == {}

\* Payments with an item among the lines of the orders read.
SessionPayments(s) ==
    {i \in DOMAIN payments : /\ payments[i].type = "items"
                             /\ \E o \in payments[i].covers \cap tx[s].seen : qty[o] > 0}

\* Mutant: the target is not occupied.
TargetKeepsStatus(t, S) == tableStatus[t]

\* A target with open orders S keeps the pre-bill signal or becomes occupied.
TargetStatus(t, S) ==
    IF S = {} THEN "free" ELSE IF tableStatus[t] = "suspended" THEN "suspended" ELSE "occupied"

RelocateCommit(s) ==
    LET t == tx[s].to
        moved == OpenAt(s)
    IN /\ tx[s].op = "relocate"
       /\ \A o \in moved : ~InFlight(o)
       /\ payments' = [i \in DOMAIN payments |->
                         IF i \in SessionPayments(s) THEN [payments[i] EXCEPT !.table = t]
                                                     ELSE payments[i]]
       /\ orderTable' = [o \in Orders |-> IF o \in moved THEN t ELSE orderTable[o]]
       /\ tableStatus' = [tableStatus EXCEPT ![s] = "free",
                                              ![t] = TargetStatus(t, OpenAt(t) \cup moved)]
       /\ freedByFloor' = freedByFloor \ {s, t}
       /\ Release({s, t})
       /\ UNCHANGED <<orderStatus, qty, paidUnits, peak, reopened, doubled, creating, floor, signal>>

-----------------------------------------------------------------------------
(* The floor: requests about one order, which do not lock its table.  One  *)
(* request per order at a time.                                            *)

SetFloor(o, op, t, frees) ==
    floor' = [floor EXCEPT ![o] = [op |-> op, table |-> t, frees |-> frees]]

NoOtherOpen(o, t) == OpenAt(t) \ {o} = {}

\* updateOrderItemQuantity, quantity > 0: the order's row is locked throughout.
EditQuantity(o, q) ==
    /\ "edit" \in Ops
    /\ orderStatus[o] = "open" /\ qty[o] > 0 /\ floor[o] = NoFloor
    /\ q > 0
    /\ qty' = [qty EXCEPT ![o] = q]
    /\ peak' = [peak EXCEPT ![o] = IF q > @ THEN q ELSE @]
    /\ UNCHANGED <<orderTable, orderStatus, paidUnits, reopened, doubled, payments, tableRows, tx,
                   creating, floor, signal>>

\* Quantity 0 deletes the order's last line: cancel the order and, when no other
\* open order is visible at the table, free the table.
RemoveLine(o) ==
    /\ "edit" \in Ops
    /\ orderStatus[o] = "open" /\ qty[o] > 0 /\ floor[o] = NoFloor
    /\ Admitted
    /\ SetFloor(o, "removing", orderTable[o], NoOtherOpen(o, orderTable[o]))
    /\ UNCHANGED <<orderRows, payments, tableRows, tx, creating, signal>>

\* voidOrder reads the order without a lock ...
VoidRead(o) ==
    /\ "void" \in Ops
    /\ orderStatus[o] = "open" /\ floor[o] = NoFloor
    /\ Admitted
    /\ SetFloor(o, "void", orderTable[o], FALSE)
    /\ UNCHANGED <<orderRows, payments, tableRows, tx, creating, signal>>

\* ... cancels it whatever it has become, and looks for other open orders.
VoidWrite(o) ==
    /\ floor[o].op = "void"
    /\ SetFloor(o, "voiding", floor[o].table, NoOtherOpen(o, floor[o].table))
    /\ UNCHANGED <<orderRows, payments, tableRows, tx, creating, signal>>

\* The UPDATE of the tables row waits for its lock; then the transaction commits.
\* Deleting the line deletes its payment_items.
FloorCommit(o) ==
    /\ InFlight(o)
    /\ orderStatus' = [orderStatus EXCEPT ![o] = "cancelled"]
    /\ IF floor[o].op = "removing"
       THEN /\ qty' = [qty EXCEPT ![o] = 0]
            /\ paidUnits' = [paidUnits EXCEPT ![o] = 0]
            /\ doubled' = doubled \ {o}
       ELSE UNCHANGED <<qty, paidUnits, doubled>>
    /\ IF floor[o].frees
       THEN /\ ~Locked(floor[o].table)
            /\ tableStatus' = [tableStatus EXCEPT ![floor[o].table] = "free"]
            /\ freedByFloor' = freedByFloor \cup {floor[o].table}
       ELSE UNCHANGED tableRows
    /\ floor' = [floor EXCEPT ![o] = NoFloor]
    /\ UNCHANGED <<orderTable, payments, peak, reopened, tx, creating, signal>>

\* A deadlock with a checkout, or a lost connection: rollback.
FloorAbort(o) ==
    /\ floor[o] # NoFloor
    /\ floor' = [floor EXCEPT ![o] = NoFloor]
    /\ UNCHANGED <<orderRows, payments, tableRows, tx, creating, signal>>

\* updateOrder: the transition is checked on a status read before ...
StatusRead(o) ==
    /\ "status" \in Ops
    /\ orderStatus[o] = "open" /\ floor[o] = NoFloor
    /\ Admitted
    /\ SetFloor(o, "status", orderTable[o], FALSE)
    /\ UNCHANGED <<orderRows, payments, tableRows, tx, creating, signal>>

\* ... and written whatever the order has become.
StatusWrite(o, s) ==
    /\ floor[o].op = "status" /\ s \in {"open", "cancelled"}
    /\ orderStatus' = [orderStatus EXCEPT ![o] = s]
    /\ reopened' = IF s = "open" /\ orderStatus[o] # "open" THEN reopened \cup {o} ELSE reopened
    /\ floor' = [floor EXCEPT ![o] = NoFloor]
    /\ UNCHANGED <<orderTable, qty, paidUnits, payments, peak, doubled, tableRows, tx, creating,
                   signal>>

\* suspendTable and resumeTable: read the open orders ...
SignalRead(t, s) ==
    /\ "suspend" \in Ops
    /\ signal[t] = "none"
    /\ s \in IF OpenAt(t) = {} THEN {"free"} ELSE {"suspended", "occupied"}
    /\ Admitted
    /\ signal' = [signal EXCEPT ![t] = s]
    /\ UNCHANGED <<orderRows, payments, tableRows, tx, creating, floor>>

\* ... and write the status that follows from them.
SignalWrite(t) ==
    /\ signal[t] # "none" /\ ~Locked(t)
    /\ tableStatus' = [tableStatus EXCEPT ![t] = signal[t]]
    /\ freedByFloor' = IF signal[t] = "free" THEN freedByFloor \cup {t} ELSE freedByFloor \ {t}
    /\ signal' = [signal EXCEPT ![t] = "none"]
    /\ UNCHANGED <<orderRows, payments, tx, creating, floor>>

-----------------------------------------------------------------------------
CreateStep ==
    \E o \in Orders :
      \/ CreateAbort(o)
      \/ \E t \in Tables : CreateBegin(o, t)
      \/ \E q \in 1..MaxQty : CreateCommit(o, q)

CheckoutStep ==
    \E t \in Tables :
      \/ \E op \in Ops : BillRead(t, op)
      \/ Abort(t) \/ CloseCommit(t) \/ ItemsCommit(t)
      \/ \E n \in 2..MaxPeople : SplitCommit(t, n)
      \/ \E i \in DOMAIN payments : MarkShare(t, i)

RefundStep == \E i \in DOMAIN payments : \E amount \in 1..payments[i].total : Refund(i, amount)

RelocateStep == \E s \in Tables : RelocateCommit(s) \/ \E t \in Tables : RelocateRead(s, t)

FloorStep ==
    \/ \E o \in Orders : \/ \E q \in 1..MaxQty : EditQuantity(o, q)
                         \/ RemoveLine(o) \/ VoidRead(o) \/ VoidWrite(o)
                         \/ FloorCommit(o) \/ FloorAbort(o) \/ StatusRead(o)
                         \/ \E s \in {"open", "cancelled"} : StatusWrite(o, s)
    \/ \E t \in Tables : SignalWrite(t) \/ \E s \in {"suspended", "occupied", "free"} : SignalRead(t, s)

Next == CreateStep \/ CheckoutStep \/ RefundStep \/ RelocateStep \/ FloorStep

Spec == Init /\ [][Next]_vars

-----------------------------------------------------------------------------
(* Properties.                                                             *)

\* No two requests pay the same unit by item: the units paid of a line never
\* exceed the largest quantity it ever had, however payments, edits, removals and
\* relocations of its order interleave (paySelectedItems).  Only a request that
\* names the line twice pays a unit twice.
UnitsPaidOnce == \A o \in Orders \ doubled : paidUnits[o] <= peak[o]

\* The shares of a split add up to the bill that was split (makeShares).
SharesAddUp ==
    \A i \in DOMAIN payments : payments[i].share > 0 =>
      Total([k \in DOMAIN payments |-> payments[k].total],
            {k \in DOMAIN payments : payments[k].share > 0 /\ payments[k].ref = payments[i].ref})
        = payments[i].bill

\* A payment by item stays at the table of the open orders it is for, so that
\* the bill there is complete after a transfer or merge: unless a status change
\* reopened one of them.
PaymentsFollowOrders ==
    \A i \in DOMAIN payments, o \in Orders :
      payments[i].type = "items" /\ o \in payments[i].covers /\ orderStatus[o] = "open"
        /\ payments[i].covers \cap reopened = {}
        => payments[i].table = orderTable[o]

\* Checkout, relocation and order creation never leave an open order at a free
\* table: only a void, a line removal or a resume can have freed it, or a status
\* change have reopened the order.
CheckoutKeepsTables ==
    \A o \in Orders \ reopened :
      orderStatus[o] = "open" /\ tableStatus[orderTable[o]] = "free"
        => orderTable[o] \in freedByFloor

\* A table with an open order is not free.
OpenOrdersHoldTable ==
    \A o \in Orders : orderStatus[o] = "open" => tableStatus[orderTable[o]] # "free"

\* Every closing of a table leaves a row of payments for an order it closes.
ClosingRecorded ==
    [][\A t \in Tables : CloseCommit(t) =>
         \E i \in DOMAIN payments' : payments'[i].covers \cap OpenAt(t) # {}]_vars

\* A closing leaves a row of payments for an order that it read, whatever voids,
\* edits and relocations came between: only a table with a split can do without.
ClosingsExplained ==
    [][\A t \in Tables : CloseCommit(t) =>
         HasSplit(t) \/ \E i \in DOMAIN payments' : payments'[i].covers \cap tx[t].seen # {}]_vars

\* A paid order stays paid.
PaidIsFinal == [][\A o \in Orders : orderStatus[o] = "paid" => orderStatus'[o] = "paid"]_vars

\* Only a void or a status change that read it before takes an order out of
\* paid: a line removal, a relocation or another checkout never does.
PaidUnlessStale ==
    [][\A o \in Orders : orderStatus[o] = "paid" /\ orderStatus'[o] # "paid"
         => floor[o].op \in {"voiding", "status"}]_vars
=============================================================================

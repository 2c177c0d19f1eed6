------------------------- MODULE TableBillingProofs -------------------------
(***************************************************************************)
(* Theorems about TableBilling for any sets of tables and orders and any   *)
(* bounds.                                                                 *)
(***************************************************************************)
EXTENDS TableBilling, SumLemmas, TLAPS

-----------------------------------------------------------------------------
(* Types of the rows and of the transactions under way.  A request of the  *)
(* floor frees the table its order is at: that it is a table, and not Null, *)
(* holds because a request finds its order inserted.                       *)

OrdersPlaced == \A o \in Orders : orderStatus[o] # "absent" => orderTable[o] \in Tables

RequestsPlaced ==
    \A o \in Orders : floor[o] # NoFloor => orderStatus[o] # "absent" /\ floor[o].table \in Tables

CreatingAbsent == \A o \in Orders : creating[o] # Null => orderStatus[o] = "absent"

\* A transaction has read orders that are inserted.
SeenPresent == \A t \in Tables : \A o \in tx[t].seen : orderStatus[o] # "absent"

\* A relocation holds the locks of two tables, each for one relocation only.
RelocationsPair ==
    /\ \A s \in Tables :
         IF tx[s].op = "relocate"
         THEN tx[s].to \in Tables /\ tx[s].to # s /\ tx[tx[s].to].op = "target"
         ELSE tx[s].to = Null
    /\ \A r, s \in Tables :
         tx[r].op = "relocate" /\ tx[s].op = "relocate" /\ tx[r].to = tx[s].to => r = s

LifeInv == /\ RowsTyped /\ OrdersPlaced /\ RequestsPlaced
           /\ CreatingAbsent /\ SeenPresent /\ RelocationsPair

LEMMA SettleTypes ==
  ASSUME RowsTyped, NEW t \in Tables, Settle(t)
  PROVE  /\ orderStatus' \in [Orders -> {"absent", "open", "paid", "cancelled"}]
         /\ tableStatus' \in [Tables -> {"free", "occupied", "suspended"}]
         /\ freedByFloor' \subseteq Tables
BY DEF RowsTyped, Settle

LEMMA NoTxTyped == NoTx \in Transaction
BY BoundsAssumption DEF NoTx, Transaction

LEMMA ReleaseTypes ==
  ASSUME RowsTyped, NEW S, Release(S)
  PROVE  tx' \in [Tables -> Transaction]
BY NoTxTyped DEF RowsTyped, Release

LEMMA CreateTypes ==
  ASSUME RowsTyped, CreateStep
  PROVE  RowsTyped'
<1>1. PICK o \in Orders : \/ CreateAbort(o)
                          \/ \E t \in Tables : CreateBegin(o, t)
                          \/ \E q \in 1..MaxQty : CreateCommit(o, q)
  BY DEF CreateStep
<1>2. CASE CreateAbort(o)
  BY <1>2 DEF RowsTyped, CreateAbort, orderRows, tableRows
<1>3. ASSUME NEW t \in Tables, CreateBegin(o, t)
      PROVE  RowsTyped'
  BY <1>3 DEF RowsTyped, CreateBegin, orderRows, tableRows
<1>4. ASSUME NEW q \in 1..MaxQty, CreateCommit(o, q)
      PROVE  RowsTyped'
  BY <1>4, BoundsAssumption DEF RowsTyped, CreateCommit
<1> QED
  BY <1>1, <1>2, <1>3, <1>4

\* What a payment by item writes, for the two selections of its request.
ItemsWrite(t, u, again, units) ==
    /\ units = [o \in Orders |-> u[o] + again[o]]
    /\ Len(payments) < MaxPayments
    /\ payments' = Append(payments,
         NewPayment("items", t, Total(units, {o \in Orders : units[o] > 0}),
                    {o \in Orders : units[o] > 0}))
    /\ paidUnits' = [o \in Orders |-> paidUnits[o] + units[o]]
    /\ doubled' = doubled \cup {o \in Orders : u[o] > 0 /\ again[o] > 0}
    /\ Settle(t) \/ UNCHANGED <<orderStatus, tableRows>>

LEMMA ItemsWrites ==
  ASSUME NEW t \in Tables, ItemsCommit(t)
  PROVE  \E u, again \in Selection(t) : \E units \in [Orders -> Nat] : ItemsWrite(t, u, again, units)
<1>1. PICK u \in Selection(t), again \in Selection(t) :
        \E units \in {[o \in Orders |-> u[o] + again[o]]} :
          \E covers \in {{o \in Orders : units[o] > 0}} :
            /\ Len(payments) < MaxPayments
            /\ payments' = Append(payments, NewPayment("items", t, Total(units, covers), covers))
            /\ paidUnits' = [o \in Orders |-> paidUnits[o] + units[o]]
            /\ doubled' = doubled \cup {o \in Orders : u[o] > 0 /\ again[o] > 0}
            /\ Settle(t) \/ UNCHANGED <<orderStatus, tableRows>>
  BY DEF ItemsCommit
<1>2. [o \in Orders |-> u[o] + again[o]] \in [Orders -> Nat]
  <2>1. \A o \in Orders : u[o] \in Nat /\ again[o] \in Nat
    BY BoundsAssumption DEF Selection
  <2> QED
    BY <2>1
<1>3. ItemsWrite(t, u, again, [o \in Orders |-> u[o] + again[o]])
  BY <1>1 DEF ItemsWrite
<1> QED
  BY <1>2, <1>3

LEMMA CheckoutTypes ==
  ASSUME RowsTyped, CheckoutStep
  PROVE  RowsTyped'
<1>1. PICK t \in Tables : \/ \E op \in Ops : BillRead(t, op)
                          \/ Abort(t) \/ CloseCommit(t) \/ ItemsCommit(t)
                          \/ \E n \in 2..MaxPeople : SplitCommit(t, n)
                          \/ \E i \in DOMAIN payments : MarkShare(t, i)
  BY DEF CheckoutStep
<1>2. ASSUME NEW op \in Ops, BillRead(t, op)
      PROVE  RowsTyped'
  <2>1. [o \in Orders |-> IF o \in OpenAt(t) THEN qty[o] ELSE 0] \in [Orders -> 0..MaxQty]
    BY BoundsAssumption DEF RowsTyped
  <2>2. [op |-> op, seen |-> OpenAt(t), to |-> Null,
         units |-> [o \in Orders |-> IF o \in OpenAt(t) THEN qty[o] ELSE 0]] \in Transaction
    BY <1>2, <2>1 DEF Transaction, BillRead, OpenAt
  <2> QED
    BY <1>2, <2>2 DEF RowsTyped, BillRead, orderRows, tableRows
<1>3. CASE Abort(t)
  BY <1>3, ReleaseTypes DEF RowsTyped, Abort, orderRows, tableRows
<1>4. CASE CloseCommit(t)
  BY <1>4, ReleaseTypes, SettleTypes DEF RowsTyped, CloseCommit
<1>5. CASE ItemsCommit(t)
  <2>1. PICK u \in Selection(t), again \in Selection(t) :
          /\ paidUnits' = [o \in Orders |-> paidUnits[o] + (u[o] + again[o])]
          /\ doubled' = doubled \cup {o \in Orders : u[o] > 0 /\ again[o] > 0}
          /\ Settle(t) \/ UNCHANGED <<orderStatus, tableRows>>
    <3>1. PICK u \in Selection(t), again \in Selection(t), units \in [Orders -> Nat] :
            ItemsWrite(t, u, again, units)
      BY <1>5, ItemsWrites
    <3> QED
      BY <3>1 DEF ItemsWrite
  <2>2. ASSUME NEW o \in Orders
        PROVE  paidUnits[o] + (u[o] + again[o]) \in 0..2 * MaxQty
    <3>1. /\ paidUnits[o] \in 0..2 * MaxQty /\ u[o] \in 0..MaxQty /\ tx[t].units[o] \in 0..MaxQty
          /\ u[o] + paidUnits[o] <= tx[t].units[o] \/ u[o] = 0
      BY DEF RowsTyped, Selection, Transaction
    <3>2. /\ again[o] \in 0..MaxQty
          /\ again[o] + paidUnits[o] <= tx[t].units[o] \/ again[o] = 0
      BY DEF Selection
    <3> QED
      BY <3>1, <3>2, BoundsAssumption
  <2>3. paidUnits' \in [Orders -> 0..2 * MaxQty] /\ doubled' \subseteq Orders
    BY <2>1, <2>2 DEF RowsTyped
  <2>4. UNCHANGED <<orderTable, qty, peak, reopened, creating, floor, signal>> /\ Release({t})
    BY <1>5 DEF ItemsCommit
  <2> QED
    BY <2>1, <2>3, <2>4, ReleaseTypes, SettleTypes DEF RowsTyped, tableRows
<1>6. ASSUME NEW n \in 2..MaxPeople, SplitCommit(t, n)
      PROVE  RowsTyped'
  BY <1>6, ReleaseTypes DEF RowsTyped, SplitCommit, orderRows, tableRows
<1>7. ASSUME NEW i \in DOMAIN payments, MarkShare(t, i)
      PROVE  RowsTyped'
  BY <1>7, SettleTypes DEF RowsTyped, MarkShare, tableRows
<1> QED
  BY <1>1, <1>2, <1>3, <1>4, <1>5, <1>6, <1>7

LEMMA RelocateTypes ==
  ASSUME RowsTyped, RelocateStep
  PROVE  RowsTyped'
<1>1. PICK s \in Tables : RelocateCommit(s) \/ \E t \in Tables : RelocateRead(s, t)
  BY DEF RelocateStep
<1>2. ASSUME NEW t \in Tables, RelocateRead(s, t)
      PROVE  RowsTyped'
  <2>1. /\ [NoTx EXCEPT !.op = "relocate", !.seen = OpenAt(s), !.to = t] \in Transaction
        /\ [NoTx EXCEPT !.op = "target"] \in Transaction
    <3>1. OpenAt(s) \subseteq Orders
      BY DEF OpenAt
    <3> QED
      BY <3>1, NoTxTyped DEF Transaction
  <2> QED
    BY <1>2, <2>1 DEF RowsTyped, RelocateRead, orderRows, tableRows
<1>3. CASE RelocateCommit(s)
  <2>1. orderTable' \in [Orders -> Tables \cup {Null}]
    BY <1>3 DEF RowsTyped, Transaction, RelocateCommit
  <2>2. \A t, S : t \in Tables => TargetStatus(t, S) \in {"free", "occupied", "suspended"}
    BY DEF TargetStatus
  <2>3. tableStatus' \in [Tables -> {"free", "occupied", "suspended"}]
    <3>1. tableStatus' = [tableStatus EXCEPT ![s] = "free", ![tx[s].to] =
                            TargetStatus(tx[s].to, OpenAt(tx[s].to) \cup OpenAt(s))]
      BY <1>3 DEF RelocateCommit
    <3> QED
      BY <2>2, <3>1 DEF RowsTyped
  <2>4. /\ freedByFloor' \subseteq Tables
        /\ UNCHANGED <<orderStatus, qty, paidUnits, peak, reopened, doubled, creating, floor, signal>>
        /\ tx' \in [Tables -> Transaction]
    BY <1>3, ReleaseTypes DEF RelocateCommit, RowsTyped
  <2> QED
    BY <2>1, <2>3, <2>4 DEF RowsTyped
<1> QED
  BY <1>1, <1>2, <1>3

LEMMA FloorTypes ==
  ASSUME RowsTyped, RequestsPlaced, FloorStep
  PROVE  RowsTyped'
<1>n. NoFloor \in FloorRequest
  BY DEF NoFloor, FloorRequest
<1>f. ASSUME NEW o \in Orders, NEW op \in {"status", "void", "voiding", "removing"},
             NEW t \in Tables \cup {Null}, NEW frees \in BOOLEAN, SetFloor(o, op, t, frees)
      PROVE  floor' \in [Orders -> FloorRequest]
  BY <1>f DEF RowsTyped, SetFloor, FloorRequest
<1>1. ASSUME NEW o \in Orders, NEW q \in 1..MaxQty, EditQuantity(o, q)
      PROVE  RowsTyped'
  BY <1>1 DEF RowsTyped, EditQuantity, tableRows
<1>2. ASSUME NEW o \in Orders, RemoveLine(o)
      PROVE  RowsTyped'
  BY <1>2, <1>f DEF RowsTyped, RemoveLine, NoOtherOpen, orderRows, tableRows
<1>3. ASSUME NEW o \in Orders, VoidRead(o)
      PROVE  RowsTyped'
  BY <1>3, <1>f DEF RowsTyped, VoidRead, orderRows, tableRows
<1>4. ASSUME NEW o \in Orders, VoidWrite(o)
      PROVE  RowsTyped'
  <2>1. floor[o].table \in Tables \cup {Null}
    BY DEF RowsTyped, FloorRequest
  <2> QED
    BY <1>4, <1>f, <2>1 DEF RowsTyped, VoidWrite, NoOtherOpen, orderRows, tableRows
<1>5. ASSUME NEW o \in Orders, FloorCommit(o)
      PROVE  RowsTyped'
  <2>1. /\ qty' \in [Orders -> 0..MaxQty]
        /\ paidUnits' \in [Orders -> 0..2 * MaxQty] /\ doubled' \subseteq Orders
    BY <1>5, BoundsAssumption DEF RowsTyped, FloorCommit
  <2>2. floor[o].table \in Tables
    BY <1>5 DEF FloorCommit, InFlight, RequestsPlaced, NoFloor
  <2>3. /\ tableStatus' \in [Tables -> {"free", "occupied", "suspended"}]
        /\ freedByFloor' \subseteq Tables
    BY <1>5, <2>2 DEF RowsTyped, FloorCommit, tableRows
  <2> QED
    BY <1>5, <1>n, <2>1, <2>3 DEF RowsTyped, FloorCommit
<1>6. ASSUME NEW o \in Orders, FloorAbort(o)
      PROVE  RowsTyped'
  BY <1>6, <1>n DEF RowsTyped, FloorAbort, orderRows, tableRows
<1>7. ASSUME NEW o \in Orders, StatusRead(o)
      PROVE  RowsTyped'
  BY <1>7, <1>f DEF RowsTyped, StatusRead, orderRows, tableRows
<1>8. ASSUME NEW o \in Orders, NEW s \in {"open", "cancelled"}, StatusWrite(o, s)
      PROVE  RowsTyped'
  BY <1>8, <1>n DEF RowsTyped, StatusWrite, tableRows
<1>9. ASSUME NEW t \in Tables, NEW s \in {"suspended", "occupied", "free"}, SignalRead(t, s)
      PROVE  RowsTyped'
  BY <1>9 DEF RowsTyped, SignalRead, orderRows, tableRows
<1>10. ASSUME NEW t \in Tables, SignalWrite(t)
       PROVE  RowsTyped'
  BY <1>10 DEF RowsTyped, SignalWrite, orderRows
<1> QED
  BY <1>1, <1>2, <1>3, <1>4, <1>5, <1>6, <1>7, <1>8, <1>9, <1>10 DEF FloorStep

-----------------------------------------------------------------------------
(* Orders are inserted once and stay.                                      *)

\* What every step does to orders already inserted and to what was read of them.
OrdersStay ==
    /\ \A o \in Orders : orderStatus'[o] = "absent" <=> orderStatus[o] = "absent"
    /\ \A t \in Tables : tx'[t].seen \subseteq tx[t].seen

LEMMA SettleStays ==
  ASSUME RowsTyped, NEW t \in Tables, Settle(t), NEW o \in Orders
  PROVE  orderStatus'[o] = "absent" <=> orderStatus[o] = "absent"
BY DEF RowsTyped, Settle, OpenAt

LEMMA ReleaseStays ==
  ASSUME RowsTyped, NEW S, Release(S), NEW t \in Tables
  PROVE  tx'[t].seen \subseteq tx[t].seen
BY DEF RowsTyped, Release, NoTx

\* A transaction that ends gives up its table and the target of its relocation.
LEMMA ReleasePairs ==
  ASSUME RowsTyped, RelocationsPair, NEW t \in Tables, tx[t].op \notin {"none", "target"},
         Release({t, tx[t].to})
  PROVE  RelocationsPair'
<1>2. \A s \in Tables : tx'[s] = IF s \in {t, tx[t].to} THEN NoTx ELSE tx[s]
  BY DEF Release
<1>3. NoTx.op = "none" /\ NoTx.to = Null
  BY DEF NoTx
<1>4. ASSUME NEW s \in Tables
      PROVE  IF tx'[s].op = "relocate"
             THEN tx'[s].to \in Tables /\ tx'[s].to # s /\ tx'[tx'[s].to].op = "target"
             ELSE tx'[s].to = Null
  <2>1. CASE s \in {t, tx[t].to}
    BY <1>2, <1>3, <2>1
  <2>2. CASE s \notin {t, tx[t].to}
    <3>1. tx'[s] = tx[s]
      BY <1>2, <2>2
    <3>2. ASSUME tx[s].op = "relocate"
          PROVE  tx[s].to \notin {t, tx[t].to}
      <4>1. tx[s].to # t
        BY <3>2 DEF RelocationsPair
      <4>2. tx[t].op = "relocate" => tx[s].to # tx[t].to
        BY <2>2, <3>2 DEF RelocationsPair
      <4>3. tx[t].op # "relocate" => tx[s].to # tx[t].to
        BY <3>2, NullAssumption DEF RelocationsPair
      <4> QED
        BY <4>1, <4>2, <4>3
    <3> QED
      BY <1>2, <3>1, <3>2 DEF RelocationsPair
  <2> QED
    BY <2>1, <2>2
<1>5. ASSUME NEW r \in Tables, NEW s \in Tables,
             tx'[r].op = "relocate", tx'[s].op = "relocate", tx'[r].to = tx'[s].to
      PROVE  r = s
  BY <1>2, <1>3, <1>5 DEF RelocationsPair
<1> QED
  BY <1>4, <1>5 DEF RelocationsPair

LEMMA ReleaseOnePairs ==
  ASSUME RowsTyped, RelocationsPair, NEW t \in Tables,
         tx[t].op \notin {"none", "target", "relocate"}, Release({t})
  PROVE  RelocationsPair'
<1>1. \A s \in Tables : s \in {t} <=> s \in {t, tx[t].to}
  BY NullAssumption DEF RelocationsPair
<1>2. Release({t, tx[t].to})
  BY <1>1 DEF Release
<1> QED
  BY <1>2, ReleasePairs

LEMMA CheckoutLife ==
  ASSUME LifeInv, RowsTyped', OrdersStay, UNCHANGED <<orderTable, floor, creating>>,
         RelocationsPair'
  PROVE  LifeInv'
<1>1. OrdersPlaced' /\ RequestsPlaced' /\ CreatingAbsent'
  BY DEF LifeInv, OrdersStay, OrdersPlaced, RequestsPlaced, CreatingAbsent
<1>2. SeenPresent'
  BY DEF LifeInv, OrdersStay, SeenPresent, RowsTyped, Transaction
<1> QED
  BY <1>1, <1>2 DEF LifeInv

LEMMA CheckoutStepLife ==
  ASSUME LifeInv, CheckoutStep
  PROVE  LifeInv'
<1>r. RowsTyped /\ RowsTyped'
  BY CheckoutTypes DEF LifeInv
<1>1. PICK t \in Tables : \/ \E op \in Ops : BillRead(t, op)
                          \/ Abort(t) \/ CloseCommit(t) \/ ItemsCommit(t)
                          \/ \E n \in 2..MaxPeople : SplitCommit(t, n)
                          \/ \E i \in DOMAIN payments : MarkShare(t, i)
  BY DEF CheckoutStep
<1>2. ASSUME NEW op \in Ops, BillRead(t, op)
      PROVE  LifeInv'
  <2>1. UNCHANGED <<orderTable, orderStatus, floor, creating>>
    BY <1>2 DEF BillRead, orderRows
  <2>2. SeenPresent'
    <3>1. ASSUME NEW s \in Tables, NEW o \in tx'[s].seen
          PROVE  orderStatus'[o] # "absent"
      BY <1>2, <1>r, <2>1, <3>1 DEF LifeInv, SeenPresent, BillRead, OpenAt, RowsTyped
    <3> QED
      BY <3>1 DEF SeenPresent
  <2>3. RelocationsPair'
    <3>1. /\ tx[t].op = "none"
          /\ tx'[t].op \notin {"relocate", "target"} /\ tx'[t].to = Null
          /\ \A s \in Tables \ {t} : tx'[s] = tx[s]
      BY <1>2, <1>r DEF BillRead, Locked, NoTx, RowsTyped
    <3> QED
      BY <3>1 DEF LifeInv, RelocationsPair
  <2> QED
    BY <1>r, <2>1, <2>2, <2>3 DEF LifeInv, OrdersPlaced, RequestsPlaced, CreatingAbsent
<1>3. CASE Abort(t)
  <2>1. RelocationsPair'
    <3>1. tx[t].op \notin {"none", "target"} /\ Release({t, tx[t].to})
      BY <1>3 DEF Abort
    <3> QED
      BY <1>r, <3>1, ReleasePairs DEF LifeInv
  <2> QED
    BY <1>3, <1>r, <2>1, CheckoutLife, ReleaseStays DEF Abort, OrdersStay, orderRows
<1>4. CASE CloseCommit(t)
  <2>1. tx[t].op = "close"
    BY <1>4 DEF CloseCommit, ClosePays, CloseFindsPaid, CloseFindsShares
  <2>2. RelocationsPair'
    BY <1>4, <1>r, <2>1, ReleaseOnePairs DEF CloseCommit, LifeInv
  <2> QED
    BY <1>4, <1>r, <2>2, CheckoutLife, ReleaseStays, SettleStays DEF CloseCommit, OrdersStay
<1>5. CASE ItemsCommit(t)
  <2>1. /\ Settle(t) \/ UNCHANGED orderStatus
        /\ Release({t})
        /\ UNCHANGED <<orderTable, floor, creating>>
    BY <1>5 DEF ItemsCommit
  <2>2. RelocationsPair'
    BY <1>5, <1>r, <2>1, ReleaseOnePairs DEF ItemsCommit, LifeInv
  <2> QED
    BY <2>1, <2>2, <1>r, CheckoutLife, ReleaseStays, SettleStays DEF OrdersStay
<1>6. ASSUME NEW n \in 2..MaxPeople, SplitCommit(t, n)
      PROVE  LifeInv'
  <2>1. RelocationsPair'
    BY <1>6, <1>r, ReleaseOnePairs DEF SplitCommit, LifeInv
  <2> QED
    BY <1>6, <1>r, <2>1, CheckoutLife, ReleaseStays DEF SplitCommit, OrdersStay, orderRows
<1>7. ASSUME NEW i \in DOMAIN payments, MarkShare(t, i)
      PROVE  LifeInv'
  <2>1. (Settle(t) \/ UNCHANGED orderStatus) /\ UNCHANGED <<orderTable, floor, creating, tx>>
    BY <1>7 DEF MarkShare
  <2>2. RelocationsPair'
    BY <2>1 DEF LifeInv, RelocationsPair
  <2> QED
    BY <2>1, <2>2, <1>r, CheckoutLife, SettleStays DEF OrdersStay
<1> QED
  BY <1>1, <1>2, <1>3, <1>4, <1>5, <1>6, <1>7

LEMMA CreateStepLife ==
  ASSUME LifeInv, CreateStep
  PROVE  LifeInv'
<1>r. RowsTyped /\ RowsTyped'
  BY CreateTypes DEF LifeInv
<1>1. PICK o \in Orders : \/ CreateAbort(o)
                          \/ \E t \in Tables : CreateBegin(o, t)
                          \/ \E q \in 1..MaxQty : CreateCommit(o, q)
  BY DEF CreateStep
<1>2. CASE CreateAbort(o) \/ \E t \in Tables : CreateBegin(o, t)
  <2>1. UNCHANGED <<orderTable, orderStatus, floor, tx>>
    BY <1>2 DEF CreateAbort, CreateBegin, orderRows
  <2>2. CreatingAbsent'
    BY <1>2, <1>r, <2>1 DEF LifeInv, CreatingAbsent, CreateAbort, CreateBegin, RowsTyped
  <2> QED
    BY <1>r, <2>1, <2>2 DEF LifeInv, OrdersPlaced, RequestsPlaced, SeenPresent, RelocationsPair
<1>3. ASSUME NEW q \in 1..MaxQty, CreateCommit(o, q)
      PROVE  LifeInv'
  <2>1. creating[o] \in Tables /\ orderStatus[o] = "absent"
    BY <1>3, <1>r DEF LifeInv, CreateCommit, CreatingAbsent, RowsTyped
  <2>2. OrdersPlaced' /\ RequestsPlaced' /\ CreatingAbsent'
    BY <1>3, <1>r, <2>1 DEF LifeInv, OrdersPlaced, RequestsPlaced, CreatingAbsent, CreateCommit, RowsTyped
  <2>3. SeenPresent'
    BY <1>3, <1>r DEF LifeInv, SeenPresent, CreateCommit, RowsTyped, Transaction
  <2>4. RelocationsPair'
    BY <1>3 DEF CreateCommit, LifeInv, RelocationsPair
  <2> QED
    BY <1>r, <2>2, <2>3, <2>4 DEF LifeInv
<1> QED
  BY <1>1, <1>2, <1>3

LEMMA RelocateStepLife ==
  ASSUME LifeInv, RelocateStep
  PROVE  LifeInv'
<1>r. RowsTyped /\ RowsTyped'
  BY RelocateTypes DEF LifeInv
<1>1. PICK s \in Tables : RelocateCommit(s) \/ \E t \in Tables : RelocateRead(s, t)
  BY DEF RelocateStep
<1>2. ASSUME NEW t \in Tables, RelocateRead(s, t)
      PROVE  LifeInv'
  <2>1. UNCHANGED <<orderTable, orderStatus, floor, creating>>
    BY <1>2 DEF RelocateRead, orderRows
  <2>2. \A x \in Tables : tx'[x].seen \subseteq tx[x].seen \cup OpenAt(s)
    BY <1>2, <1>r DEF RelocateRead, RowsTyped, NoTx
  <2>3. SeenPresent'
    BY <1>r, <2>1, <2>2 DEF LifeInv, SeenPresent, OpenAt
  <2>4. RelocationsPair'
    <3>1. /\ s # t /\ tx[s].op = "none" /\ tx[t].op = "none"
          /\ tx'[s].op = "relocate" /\ tx'[s].to = t
          /\ tx'[t].op = "target" /\ tx'[t].to = Null
          /\ \A x \in Tables \ {s, t} : tx'[x] = tx[x]
      <4>1. s # t /\ tx[s] = NoTx /\ tx[t] = NoTx
        BY <1>2 DEF RelocateRead, Locked
      <4>2. tx' = [tx EXCEPT ![s] = [NoTx EXCEPT !.op = "relocate", !.seen = OpenAt(s), !.to = t],
                             ![t] = [NoTx EXCEPT !.op = "target"]]
        BY <1>2 DEF RelocateRead
      <4>3. tx'[s] = [NoTx EXCEPT !.op = "relocate", !.seen = OpenAt(s), !.to = t]
        BY <4>1, <4>2, <1>r DEF RowsTyped
      <4>4. tx'[t] = [NoTx EXCEPT !.op = "target"]
        BY <4>1, <4>2, <1>r DEF RowsTyped
      <4>5. \A x \in Tables \ {s, t} : tx'[x] = tx[x]
        BY <4>2, <1>r DEF RowsTyped
      <4>6. /\ NoTx.op = "none" /\ NoTx.to = Null
            /\ [NoTx EXCEPT !.op = "relocate", !.seen = OpenAt(s), !.to = t].op = "relocate"
            /\ [NoTx EXCEPT !.op = "relocate", !.seen = OpenAt(s), !.to = t].to = t
            /\ [NoTx EXCEPT !.op = "target"].op = "target"
            /\ [NoTx EXCEPT !.op = "target"].to = Null
        BY DEF NoTx
      <4> QED
        BY <4>1, <4>3, <4>4, <4>5, <4>6
    <3>2. \A x \in Tables \ {s, t} : tx[x].op = "relocate" => tx[x].to \notin {s, t}
      BY <3>1 DEF LifeInv, RelocationsPair
    <3> QED
      BY <3>1, <3>2 DEF LifeInv, RelocationsPair
  <2> QED
    BY <1>r, <2>1, <2>3, <2>4 DEF LifeInv, OrdersPlaced, RequestsPlaced, CreatingAbsent
<1>3. CASE RelocateCommit(s)
  <2>1. UNCHANGED <<orderStatus, floor, creating>>
    BY <1>3 DEF RelocateCommit
  <2>2. \A x \in Tables : tx'[x].seen \subseteq tx[x].seen
    BY <1>3, <1>r, ReleaseStays DEF RelocateCommit
  <2>3. SeenPresent'
    BY <1>r, <2>1, <2>2 DEF LifeInv, SeenPresent
  <2>4. OrdersPlaced'
    \* An order moved goes to the target of the relocation.
    <3>1. tx[s].to \in Tables
      BY <1>3 DEF RelocateCommit, LifeInv, RelocationsPair
    <3> QED
      BY <1>3, <1>r, <2>1, <3>1 DEF LifeInv, OrdersPlaced, RelocateCommit
  <2>5. RelocationsPair'
    <3>1. tx[s].op = "relocate" /\ Release({s, tx[s].to})
      BY <1>3 DEF RelocateCommit
    <3> QED
      BY <1>r, <3>1, ReleasePairs DEF LifeInv
  <2> QED
    BY <1>r, <2>1, <2>3, <2>4, <2>5 DEF LifeInv, RequestsPlaced, CreatingAbsent
<1> QED
  BY <1>1, <1>2, <1>3

\* A request of the floor works on an order that is inserted.
LEMMA FloorStepLife ==
  ASSUME LifeInv, FloorStep
  PROVE  LifeInv'
<1>r. RowsTyped /\ RowsTyped'
  BY FloorTypes DEF LifeInv
<1>k. ASSUME UNCHANGED <<orderTable, creating, tx>>,
             \A o \in Orders : orderStatus'[o] = "absent" <=> orderStatus[o] = "absent",
             RequestsPlaced'
      PROVE  LifeInv'
  BY <1>r, <1>k DEF LifeInv, OrdersPlaced, CreatingAbsent, SeenPresent, RelocationsPair,
     RowsTyped, Transaction
<1>f. ASSUME NEW o \in Orders, NEW op, NEW t \in Tables, NEW frees, SetFloor(o, op, t, frees),
             orderStatus[o] # "absent", orderStatus' = orderStatus
      PROVE  RequestsPlaced'
  BY <1>f, <1>r DEF LifeInv, RequestsPlaced, SetFloor, RowsTyped
<1>1. ASSUME NEW o \in Orders, NEW q \in 1..MaxQty, EditQuantity(o, q)
      PROVE  LifeInv'
  <2>1. UNCHANGED <<orderTable, orderStatus, creating, tx, floor>>
    BY <1>1 DEF EditQuantity
  <2> QED
    BY <1>k, <2>1 DEF LifeInv, RequestsPlaced
<1>2. ASSUME NEW o \in Orders, RemoveLine(o) \/ VoidRead(o) \/ StatusRead(o)
      PROVE  LifeInv'
  <2>1. UNCHANGED <<orderTable, orderStatus, creating, tx>> /\ orderStatus[o] # "absent"
    BY <1>2 DEF RemoveLine, VoidRead, StatusRead, orderRows
  <2>2. orderTable[o] \in Tables
    BY <2>1 DEF LifeInv, OrdersPlaced
  <2>3. RequestsPlaced'
    BY <1>2, <1>f, <2>1, <2>2 DEF RemoveLine, VoidRead, StatusRead
  <2> QED
    BY <1>k, <2>1, <2>3
<1>3. ASSUME NEW o \in Orders, VoidWrite(o)
      PROVE  LifeInv'
  <2>1. UNCHANGED <<orderTable, orderStatus, creating, tx>>
    BY <1>3 DEF VoidWrite, orderRows
  <2>2. orderStatus[o] # "absent" /\ floor[o].table \in Tables
    BY <1>3 DEF VoidWrite, LifeInv, RequestsPlaced, NoFloor
  <2>3. RequestsPlaced'
    BY <1>3, <1>f, <2>1, <2>2 DEF VoidWrite
  <2> QED
    BY <1>k, <2>1, <2>3
<1>4. ASSUME NEW o \in Orders, FloorCommit(o) \/ FloorAbort(o)
                                 \/ \E s \in {"open", "cancelled"} : StatusWrite(o, s)
      PROVE  LifeInv'
  <2>1. /\ UNCHANGED <<orderTable, creating, tx>>
        /\ floor' = [floor EXCEPT ![o] = NoFloor]
        /\ UNCHANGED orderStatus \/ \E s \in {"open", "cancelled"} :
             orderStatus' = [orderStatus EXCEPT ![o] = s]
    BY <1>4 DEF FloorCommit, FloorAbort, StatusWrite, orderRows
  <2>2. floor[o] # NoFloor
    BY <1>4 DEF FloorCommit, InFlight, FloorAbort, StatusWrite, NoFloor
  <2>3. \A x \in Orders : orderStatus'[x] = "absent" <=> orderStatus[x] = "absent"
    BY <1>r, <2>1, <2>2 DEF LifeInv, RequestsPlaced, RowsTyped
  <2>4. RequestsPlaced'
    BY <1>r, <2>1, <2>3 DEF LifeInv, RequestsPlaced, RowsTyped
  <2> QED
    BY <1>k, <2>1, <2>3, <2>4
<1>5. ASSUME NEW t \in Tables,
             SignalWrite(t) \/ \E s \in {"suspended", "occupied", "free"} : SignalRead(t, s)
      PROVE  LifeInv'
  <2>1. UNCHANGED <<orderTable, orderStatus, creating, tx, floor>>
    BY <1>5 DEF SignalWrite, SignalRead, orderRows
  <2> QED
    BY <1>k, <2>1 DEF LifeInv, RequestsPlaced
<1> QED
  BY <1>1, <1>2, <1>3, <1>4, <1>5 DEF FloorStep

LEMMA LifeStep ==
  ASSUME LifeInv, [Next]_vars
  PROVE  LifeInv'
<1>1. CASE RefundStep \/ UNCHANGED vars
  <2>1. UNCHANGED <<orderRows, tableRows, tx, creating, floor, signal>>
    BY <1>1 DEF RefundStep, Refund, vars
  <2> QED
    BY <2>1 DEF LifeInv, RowsTyped, OrdersPlaced, RequestsPlaced, CreatingAbsent, SeenPresent,
       RelocationsPair, orderRows, tableRows
<1> QED
  BY <1>1, CreateStepLife, CheckoutStepLife, RelocateStepLife, FloorStepLife DEF Next

LEMMA LifeInit == Init => LifeInv
<1>1. NoFloor \in FloorRequest
  BY DEF NoFloor, FloorRequest
<1>2. NoTx.op = "none" /\ NoTx.to = Null /\ NoTx.seen = {}
  BY DEF NoTx
<1> QED
  BY <1>1, <1>2, NoTxTyped, BoundsAssumption
     DEF Init, LifeInv, RowsTyped, OrdersPlaced, RequestsPlaced, CreatingAbsent, SeenPresent,
         RelocationsPair

LEMMA LifeHolds == Spec => []LifeInv
BY LifeInit, LifeStep, PTL DEF Spec

-----------------------------------------------------------------------------
(* Types and totals of the payments.  A close, a payment by item and a     *)
(* refund add one row, a split adds its shares, and what changes later     *)
(* leaves the amounts of shares alone.                                     *)

PaymentsTyped == payments \in Seq(Payment) /\ Len(payments) <= MaxPayments

LEMMA FunctionIsSeq ==
  ASSUME NEW S, NEW n \in Nat, NEW q \in [1..n -> S]
  PROVE  q \in Seq(S) /\ Len(q) = n
OBVIOUS

LEMMA ConcatFacts ==
  ASSUME NEW S, NEW s \in Seq(S), NEW q \in Seq(S)
  PROVE  /\ s \o q \in Seq(S) /\ Len(s \o q) = Len(s) + Len(q)
         /\ Len(s) \in Nat /\ DOMAIN s = 1..Len(s) /\ DOMAIN (s \o q) = 1..(Len(s) + Len(q))
         /\ \A i \in 1..(Len(s) + Len(q)) :
              (s \o q)[i] = IF i <= Len(s) THEN s[i] ELSE q[i - Len(s)]
OBVIOUS

LEMMA PaymentsList ==
  ASSUME PaymentsTyped
  PROVE  /\ Len(payments) \in Nat /\ DOMAIN payments = 1..Len(payments)
         /\ \A i \in DOMAIN payments : payments[i] \in Payment
         /\ payments \in [1..Len(payments) -> Payment]
BY DEF PaymentsTyped

LEMMA ListIsTyped ==
  ASSUME PaymentsTyped, payments' \in [1..Len(payments) -> Payment]
  PROVE  PaymentsTyped' /\ DOMAIN payments' = DOMAIN payments
<1>1. Len(payments) \in Nat /\ DOMAIN payments = 1..Len(payments)
  BY PaymentsList
<1>2. payments' \in Seq(Payment) /\ Len(payments') = Len(payments)
  BY <1>1, FunctionIsSeq
<1> QED
  BY <1>1, <1>2 DEF PaymentsTyped

LEMMA OneMorePayment ==
  ASSUME PaymentsTyped, Len(payments) < MaxPayments, NEW p \in Payment,
         payments' = Append(payments, p)
  PROVE  /\ PaymentsTyped'
         /\ DOMAIN payments' = DOMAIN payments \cup {Len(payments) + 1}
         /\ payments'[Len(payments) + 1] = p
         /\ \A i \in DOMAIN payments : payments'[i] = payments[i]
<1>1. /\ payments' \in Seq(Payment) /\ Len(payments') = Len(payments) + 1
      /\ Len(payments) \in Nat
  BY DEF PaymentsTyped
<1>2. DOMAIN payments = 1..Len(payments) /\ DOMAIN payments' = 1..Len(payments')
  BY <1>1 DEF PaymentsTyped
<1> QED
  BY <1>1, <1>2, BoundsAssumption DEF PaymentsTyped

LEMMA MorePayments ==
  ASSUME PaymentsTyped, NEW n \in Nat, Len(payments) + n <= MaxPayments,
         NEW q \in [1..n -> Payment], payments' = payments \o q
  PROVE  /\ PaymentsTyped'
         /\ DOMAIN payments' = 1..(Len(payments) + n)
         /\ \A i \in DOMAIN payments' :
              payments'[i] = IF i \in DOMAIN payments THEN payments[i] ELSE q[i - Len(payments)]
<1>1. q \in Seq(Payment) /\ Len(q) = n
  BY FunctionIsSeq
<1>2. /\ payments' \in Seq(Payment) /\ Len(payments') = Len(payments) + n
      /\ Len(payments) \in Nat /\ DOMAIN payments = 1..Len(payments)
      /\ DOMAIN payments' = 1..(Len(payments) + n)
      /\ \A i \in 1..(Len(payments) + n) :
           payments'[i] = IF i <= Len(payments) THEN payments[i] ELSE q[i - Len(payments)]
  BY <1>1, ConcatFacts DEF PaymentsTyped
<1> QED
  BY <1>2 DEF PaymentsTyped

\* Sums over the orders a transaction has read are amounts.
LEMMA BillNat ==
  ASSUME RowsTyped, NEW t \in Tables
  PROVE  Bill(t) \in Nat /\ LinesOf(t) \in Nat /\ PaidOf(t) \in Nat
<1>1. tx[t].seen \subseteq Orders /\ IsFiniteSet(tx[t].seen)
  BY OrdersAssumption, FS_Subset DEF RowsTyped, Transaction
<1>2. \A o \in tx[t].seen : tx[t].units[o] \in Nat /\ qty[o] \in Nat /\ paidUnits[o] \in Nat
  BY <1>1, BoundsAssumption DEF RowsTyped, Transaction
<1> QED
  BY <1>1, <1>2, SumNat DEF Bill, LinesOf, PaidOf, Total

LEMMA NewPaymentTyped ==
  ASSUME NEW type \in {"close", "items", "refund"}, NEW t \in Tables, NEW total \in Nat,
         NEW covers \in SUBSET Orders
  PROVE  NewPayment(type, t, total, covers) \in Payment
BY BoundsAssumption DEF NewPayment, Payment

\* No share falls below zero: the last one pays what the others leave.
LEMMA ShareArithmetic ==
  ASSUME NEW total \in Nat, NEW n \in Nat \ {0}, NEW s \in Nat, s <= total \div n
  PROVE  (n - 1) * s + (total - (n - 1) * s) = total /\ total - (n - 1) * s \in Nat
<1>1. n * (total \div n) <= total /\ total \div n \in Nat
  OBVIOUS
<1>2. (n - 1) * s <= n * (total \div n)
  BY <1>1
<1>3. (n - 1) * s \in Nat
  OBVIOUS
<1> QED
  BY <1>1, <1>2, <1>3

LEMMA SharesTyped ==
  ASSUME NEW total \in Nat, NEW n \in Nat \ {0}, NEW shares \in Shares(total, n)
  PROVE  \E s \in Nat : /\ s <= total \div n
                        /\ shares = [k \in 1..n |-> IF k < n THEN s ELSE total - (n - 1) * s]
                        /\ shares \in [1..n -> Nat]
<1>1. PICK s \in {total \div n} \cup {x \in 0..total : total % n = 0 /\ x + 1 = total \div n} :
        shares = [k \in 1..n |-> IF k < n THEN s ELSE total - (n - 1) * s]
  BY DEF Shares
<1>2. total \div n \in Nat
  OBVIOUS
<1>3. s \in Nat /\ s <= total \div n
  BY <1>1, <1>2
<1>4. total - (n - 1) * s \in Nat
  BY <1>3, ShareArithmetic
<1> QED
  BY <1>1, <1>3, <1>4

\* The shares of one split; they refer to its first row.
Group(r) == {k \in DOMAIN payments : payments[k].share > 0 /\ payments[k].ref = r}

Totals == [k \in DOMAIN payments |-> payments[k].total]

RefsInPlace == \A i \in DOMAIN payments : payments[i].share > 0 => payments[i].ref <= Len(payments)

PayInv == PaymentsTyped /\ RefsInPlace /\ SharesAddUp

LEMMA GroupFacts ==
  ASSUME PaymentsTyped, NEW r
  PROVE  IsFiniteSet(Group(r)) /\ \A k \in Group(r) : Totals[k] \in Nat
<1>1. IsFiniteSet(DOMAIN payments)
  BY PaymentsList, FS_Interval
<1>2. IsFiniteSet(Group(r))
  BY <1>1, FS_Subset DEF Group
<1>3. \A k \in DOMAIN payments : Totals[k] \in Nat
  BY PaymentsList DEF Totals, Payment
<1> QED
  BY <1>2, <1>3 DEF Group

\* Steps that write no share leave the sums of shares.
LEMMA SharesKept ==
  ASSUME PayInv, PaymentsTyped', DOMAIN payments \subseteq DOMAIN payments',
         \A i \in DOMAIN payments' \ DOMAIN payments : payments'[i].share = 0,
         \A i \in DOMAIN payments : payments'[i].share = payments[i].share,
         \A i \in DOMAIN payments : payments[i].share > 0 =>
           /\ payments'[i].total = payments[i].total
           /\ payments'[i].ref = payments[i].ref
           /\ payments'[i].bill = payments[i].bill
  PROVE  PayInv'
<1>1. \A i \in DOMAIN payments' : payments'[i].share > 0 => i \in DOMAIN payments
  OBVIOUS
<1>2. Len(payments) \in Nat /\ Len(payments') \in Nat /\ Len(payments) <= Len(payments')
  <2>1. /\ Len(payments) \in Nat /\ DOMAIN payments = 1..Len(payments)
        /\ Len(payments') \in Nat /\ DOMAIN payments' = 1..Len(payments')
    BY DEF PayInv, PaymentsTyped
  <2> QED
    BY <2>1
<1>3. RefsInPlace'
  <2>1. ASSUME NEW i \in DOMAIN payments', payments'[i].share > 0
        PROVE  payments'[i].ref <= Len(payments')
    <3>1. i \in DOMAIN payments /\ payments[i].share > 0 /\ payments'[i].ref = payments[i].ref
      BY <1>1, <2>1
    <3>2. payments[i].ref \in Nat /\ payments[i].ref <= Len(payments)
      BY <3>1, PaymentsList DEF PayInv, RefsInPlace, Payment
    <3> QED
      BY <1>2, <3>1, <3>2
  <2> QED
    BY <2>1 DEF RefsInPlace
<1>4. ASSUME NEW i \in DOMAIN payments', payments'[i].share > 0, NEW r, r = payments'[i].ref
      PROVE  Total(Totals, Group(r))' = payments'[i].bill
  <2>1. i \in DOMAIN payments /\ payments[i].share > 0
    BY <1>1, <1>4
  <2>2. payments[i].ref = r /\ payments'[i].bill = payments[i].bill
    BY <1>4, <2>1
  <2>3. Group(r)' = Group(r)
    BY <1>1 DEF Group
  <2>4. \A k \in Group(r) : Totals'[k] = Totals[k]
    BY DEF Group, Totals
  <2>5. Total(Totals', Group(r)) = Total(Totals, Group(r))
    BY <2>4, GroupFacts, SumSame DEF Total, PayInv
  <2>6. Total(Totals, Group(r)) = payments[i].bill
    BY <2>1, <2>2 DEF PayInv, SharesAddUp, Group, Totals
  <2> QED
    BY <2>2, <2>3, <2>5, <2>6 DEF Total
<1>5. SharesAddUp'
  <2>1. ASSUME NEW i \in DOMAIN payments', payments'[i].share > 0
        PROVE  Total([k \in DOMAIN payments' |-> payments'[k].total],
                     {k \in DOMAIN payments' : payments'[k].share > 0 /\ payments'[k].ref = payments'[i].ref})
                 = payments'[i].bill
    <3>1. PICK r : r = payments'[i].ref
      OBVIOUS
    <3>2. Total(Totals, Group(r))' = payments'[i].bill
      BY <1>4, <2>1, <3>1
    <3> QED
      BY <3>1, <3>2 DEF Group, Totals
  <2> QED
    BY <2>1 DEF SharesAddUp
<1> QED
  BY <1>3, <1>5 DEF PayInv

\* The shares of a new split.
LEMMA SplitPays ==
  ASSUME LifeInv, PayInv, NEW t \in Tables, NEW n \in 2..MaxPeople, SplitCommit(t, n)
  PROVE  PayInv'
<1> PICK m, bill : m = Len(payments) /\ bill = Bill(t)
  OBVIOUS
<1>1. /\ bill \in Nat /\ m \in Nat /\ m + n <= MaxPayments /\ DOMAIN payments = 1..m
      /\ tx[t].seen \subseteq Orders /\ n \in Nat \ {0} /\ n \in 0..MaxPeople
  BY BillNat, PaymentsList, BoundsAssumption DEF LifeInv, RowsTyped, Transaction, PayInv, SplitCommit
<1>2. PICK shares \in Shares(bill, n) :
        payments' = payments \o
          [k \in 1..n |-> [type |-> "share", table |-> t, total |-> shares[k],
                           state |-> "pending", share |-> k, ref |-> m + 1,
                           covers |-> tx[t].seen, bill |-> bill]]
  BY DEF SplitCommit
<1>3. PICK s \in Nat : /\ s <= bill \div n
                       /\ shares = [k \in 1..n |-> IF k < n THEN s ELSE bill - (n - 1) * s]
                       /\ shares \in [1..n -> Nat]
  BY <1>1, SharesTyped
<1> DEFINE q == [k \in 1..n |-> [type |-> "share", table |-> t, total |-> shares[k],
                                 state |-> "pending", share |-> k, ref |-> m + 1,
                                 covers |-> tx[t].seen, bill |-> bill]]
<1>4. q \in [1..n -> Payment]
  <2>1. ASSUME NEW k \in 1..n
        PROVE  q[k] \in Payment
    <3>1. shares[k] \in Nat /\ k \in 0..MaxPeople
      BY <1>1, <1>3, BoundsAssumption
    <3> QED
      BY <1>1, <3>1 DEF Payment
  <2> QED
    BY <2>1
<1> HIDE DEF q
<1>5. /\ PaymentsTyped'
      /\ DOMAIN payments' = 1..(m + n)
      /\ \A i \in DOMAIN payments' :
           payments'[i] = IF i \in DOMAIN payments THEN payments[i] ELSE q[i - m]
  <2>1. payments' = payments \o q
    BY <1>2 DEF q
  <2> QED
    BY <1>1, <1>4, <2>1, MorePayments DEF PayInv
<1>6. \A i \in 1..m : payments'[i] = payments[i]
  BY <1>1, <1>5
<1>7. \A i \in (m + 1)..(m + n) : /\ payments'[i].share > 0 /\ payments'[i].ref = m + 1
                                  /\ payments'[i].bill = bill
                                  /\ payments'[i].total = shares[i - m]
  <2>1. ASSUME NEW i \in (m + 1)..(m + n)
        PROVE  i - m \in 1..n /\ payments'[i] = q[i - m]
    BY <1>1, <1>5
  <2>2. \A k \in 1..n : /\ q[k].share = k /\ q[k].ref = m + 1
                        /\ q[k].bill = bill /\ q[k].total = shares[k]
    BY DEF q
  <2>3. \A k \in 1..n : k > 0
    BY <1>1
  <2> QED
    BY <2>1, <2>2, <2>3
<1>8. Len(payments') = m + n
  BY <1>1, <1>5 DEF PaymentsTyped
<1>9. \A i \in 1..m : payments[i].ref \in Nat /\ (payments[i].share > 0 => payments[i].ref <= m)
  BY <1>1, PaymentsList DEF PayInv, RefsInPlace, Payment
<1>10. RefsInPlace'
  <2>1. ASSUME NEW i \in 1..(m + n), payments'[i].share > 0
        PROVE  payments'[i].ref <= m + n
    <3>1. CASE i \in 1..m
      BY <1>1, <1>6, <1>9, <2>1, <3>1
    <3>2. CASE i \in (m + 1)..(m + n)
      BY <1>1, <1>7, <3>2
    <3> QED
      BY <1>1, <3>1, <3>2
  <2> QED
    BY <1>5, <1>8, <2>1 DEF RefsInPlace
<1>11. Group(m + 1)' = (m + 1)..(m + n)
  <2>1. \A i \in 1..m : ~(payments'[i].share > 0 /\ payments'[i].ref = m + 1)
    BY <1>1, <1>6, <1>9
  <2>2. DOMAIN payments' = 1..m \cup ((m + 1)..(m + n))
    BY <1>1, <1>5
  <2> QED
    BY <1>7, <2>1, <2>2 DEF Group
<1>12. Total(Totals', (m + 1)..(m + n)) = bill
  <2> DEFINE new == (m + 1)..(m + n)
             others == (m + 1)..(m + n - 1)
  <2>1. IsFiniteSet(new) /\ IsFiniteSet(others) /\ Cardinality(others) = n - 1
    <3>1. m + 1 \in Int /\ m + n \in Int /\ m + n - 1 \in Int /\ ~(m + 1 > m + n - 1)
      BY <1>1
    <3>2. IsFiniteSet(new) /\ IsFiniteSet(others)
      BY <3>1, FS_Interval
    <3>3. Cardinality(others) = (m + n - 1) - (m + 1) + 1
      BY <3>1, FS_Interval
    <3> QED
      BY <1>1, <3>2, <3>3
  <2>2. \A i \in new : Totals'[i] = shares[i - m] /\ Totals'[i] \in Nat
    <3>1. ASSUME NEW i \in new
          PROVE  Totals'[i] = shares[i - m] /\ i - m \in 1..n
      BY <1>1, <1>5, <1>7 DEF Totals
    <3> QED
      BY <1>3, <3>1
  <2>3. \A i \in others : Totals'[i] = s
    <3>1. ASSUME NEW i \in others
          PROVE  i \in new /\ i - m \in 1..n /\ i - m < n
      BY <1>1
    <3> QED
      BY <1>3, <2>2, <3>1
  <2>4. m + n \in new /\ new \ {m + n} = others /\ Totals'[m + n] = bill - (n - 1) * s
    <3>1. m + n \in new /\ new \ {m + n} = others /\ m + n - m = n /\ n \in 1..n
      BY <1>1
    <3> QED
      BY <1>1, <1>3, <2>2, <3>1
  <2> HIDE DEF new, others
  <2>5. Total(Totals', new) = Totals'[m + n] + Total(Totals', others)
    <3>1. (\A i \in new : Totals'[i] \in Nat) /\ m + n \in new
      BY <2>2, <2>4
    <3>2. SumFunctionOnSet(Totals', new)
            = Totals'[m + n] + SumFunctionOnSet(Totals', new \ {m + n})
      BY <2>1, <3>1, SumRemove
    <3> QED
      BY <2>4, <3>2 DEF Total
  <2>6. Total(Totals', others) = (n - 1) * s
    BY <2>1, <2>3, SumConstant DEF Total
  <2>7. (n - 1) * s + (bill - (n - 1) * s) = bill /\ (n - 1) * s \in Nat
    BY <1>1, <1>3, ShareArithmetic
  <2> QED
    BY <1>1, <2>4, <2>5, <2>6, <2>7 DEF new
<1>13. ASSUME NEW i \in DOMAIN payments', payments'[i].share > 0, NEW r, r = payments'[i].ref
       PROVE  Total(Totals, Group(r))' = payments'[i].bill
  <2>1. CASE i \in 1..m
    <3>1. payments'[i] = payments[i] /\ payments[i].ref = r /\ r \in Nat /\ r <= m
          /\ payments[i].share > 0
      BY <1>6, <1>9, <1>13, <2>1
    <3>2. Group(r)' = Group(r)
      <4>1. \A k \in (m + 1)..(m + n) : payments'[k].ref # r
        BY <1>1, <1>7, <3>1
      <4>2. DOMAIN payments' = DOMAIN payments \cup ((m + 1)..(m + n))
        BY <1>1, <1>5
      <4> QED
        BY <1>1, <1>6, <4>1, <4>2 DEF Group
    <3>3. \A k \in Group(r) : Totals'[k] = Totals[k]
      BY <1>1, <1>5, <1>6 DEF Group, Totals
    <3>4. Total(Totals', Group(r)) = Total(Totals, Group(r))
      BY <3>3, GroupFacts, SumSame DEF Total, PayInv
    <3>5. Total(Totals, Group(r)) = payments[i].bill
      BY <1>1, <2>1, <3>1 DEF PayInv, SharesAddUp, Group, Totals
    <3> QED
      BY <3>1, <3>2, <3>4, <3>5 DEF Total
  <2>2. CASE i \in (m + 1)..(m + n)
    <3>1. r = m + 1 /\ payments'[i].bill = bill
      BY <1>7, <1>13, <2>2
    <3> QED
      BY <1>11, <1>12, <3>1 DEF Total
  <2> QED
    BY <1>1, <1>5, <2>1, <2>2
<1>14. SharesAddUp'
  <2>1. ASSUME NEW i \in DOMAIN payments', payments'[i].share > 0
        PROVE  Total([k \in DOMAIN payments' |-> payments'[k].total],
                     {k \in DOMAIN payments' : payments'[k].share > 0 /\ payments'[k].ref = payments'[i].ref})
                 = payments'[i].bill
    <3>1. PICK r : r = payments'[i].ref
      OBVIOUS
    <3>2. Total(Totals, Group(r))' = payments'[i].bill
      BY <1>13, <2>1, <3>1
    <3> QED
      BY <3>1, <3>2 DEF Group, Totals
  <2> QED
    BY <2>1 DEF SharesAddUp
<1> QED
  BY <1>5, <1>10, <1>14 DEF PayInv

\* A payment without a share is added.
LEMMA AddsPayment ==
  ASSUME PayInv, Len(payments) < MaxPayments, NEW p \in Payment, p.share = 0,
         payments' = Append(payments, p)
  PROVE  PayInv'
<1>1. /\ PaymentsTyped'
      /\ DOMAIN payments' = DOMAIN payments \cup {Len(payments) + 1}
      /\ payments'[Len(payments) + 1] = p
      /\ \A i \in DOMAIN payments : payments'[i] = payments[i]
  BY OneMorePayment DEF PayInv
<1> QED
  BY <1>1, SharesKept

\* Payments are changed, those with a share in their table or state only.
LEMMA ChangesPayments ==
  ASSUME PayInv, payments' \in [DOMAIN payments -> Payment],
         \A i \in DOMAIN payments : payments'[i].share = payments[i].share,
         \A i \in DOMAIN payments : payments[i].share > 0 =>
           /\ payments'[i].total = payments[i].total
           /\ payments'[i].ref = payments[i].ref
           /\ payments'[i].bill = payments[i].bill
  PROVE  PayInv'
<1>1. DOMAIN payments = 1..Len(payments)
  BY PaymentsList DEF PayInv
<1>2. PaymentsTyped' /\ DOMAIN payments' = DOMAIN payments
  BY <1>1, ListIsTyped DEF PayInv
<1> QED
  BY <1>2, SharesKept

LEMMA ClosePayments ==
  ASSUME LifeInv, PayInv, NEW t \in Tables, CloseCommit(t)
  PROVE  PayInv'
<1>1. /\ Bill(t) \in Nat /\ tx[t].seen \in SUBSET Orders
  BY BillNat DEF LifeInv, RowsTyped, Transaction
<1>2. CASE ClosePays(t)
  <2>1. NewPayment("close", t, Bill(t), tx[t].seen) \in Payment
    BY <1>1, NewPaymentTyped
  <2>2. NewPayment("close", t, Bill(t), tx[t].seen).share = 0
    BY DEF NewPayment
  <2> QED
    BY <1>2, <2>1, <2>2, AddsPayment DEF ClosePays
<1>3. CASE CloseFindsPaid(t)
  <2>1. PICK i \in PaymentsAt(t) : payments' = [payments EXCEPT ![i].total = Bill(t)]
    BY <1>3 DEF CloseFindsPaid
  <2>2. i \in DOMAIN payments /\ ~(payments[i].share > 0)
    BY <1>3 DEF CloseFindsPaid, HasSplit, PaymentsAt
  <2>3. \A k \in DOMAIN payments : payments[k] \in Payment
    BY PaymentsList DEF PayInv
  <2>4. [payments[i] EXCEPT !.total = Bill(t)] \in Payment
    BY <1>1, <2>2, <2>3 DEF Payment
  <2>5. payments' \in [DOMAIN payments -> Payment]
    BY <2>1, <2>2, <2>3, <2>4
  <2>6. \A k \in DOMAIN payments : IF k = i THEN payments'[k].share = payments[k].share
                                            ELSE payments'[k] = payments[k]
    BY <2>1, <2>2, <2>3 DEF Payment
  <2> QED
    BY <2>2, <2>5, <2>6, ChangesPayments
<1>4. CASE CloseFindsShares(t)
  <2>1. payments' = payments
    BY <1>4 DEF CloseFindsShares
  <2> QED
    BY <2>1 DEF PayInv, PaymentsTyped, RefsInPlace, SharesAddUp
<1> QED
  BY <1>2, <1>3, <1>4 DEF CloseCommit

LEMMA ItemsPay ==
  ASSUME LifeInv, PayInv, NEW t \in Tables, ItemsCommit(t)
  PROVE  PayInv'
<1>1. PICK u \in Selection(t), again \in Selection(t), units \in [Orders -> Nat] :
        ItemsWrite(t, u, again, units)
  BY ItemsWrites
<1>a. PICK covers :
        /\ covers = {o \in Orders : units[o] > 0}
        /\ payments' = Append(payments, NewPayment("items", t, Total(units, covers), covers))
        /\ Len(payments) < MaxPayments
  BY <1>1 DEF ItemsWrite
<1>2. IsFiniteSet(covers) /\ covers \in SUBSET Orders
  BY <1>a, OrdersAssumption, FS_Subset
<1>3. \A o \in covers : units[o] \in Nat
  BY <1>a
<1>4. Total(units, covers) \in Nat
  BY <1>2, <1>3, SumNat DEF Total
<1>5. NewPayment("items", t, Total(units, covers), covers) \in Payment
  BY <1>2, <1>4, NewPaymentTyped
<1>6. NewPayment("items", t, Total(units, covers), covers).share = 0
  BY DEF NewPayment
<1> QED
  BY <1>a, <1>5, <1>6, AddsPayment

LEMMA ShareMarked ==
  ASSUME PayInv, NEW t \in Tables, NEW i \in DOMAIN payments, MarkShare(t, i)
  PROVE  PayInv'
<1>1. payments' = [payments EXCEPT ![i].state = "captured"]
  BY DEF MarkShare
<1>2. \A k \in DOMAIN payments : payments[k] \in Payment
  BY PaymentsList DEF PayInv
<1>3. [payments[i] EXCEPT !.state = "captured"] \in Payment
  BY <1>2 DEF Payment
<1>4. payments' \in [DOMAIN payments -> Payment]
  BY <1>1, <1>2, <1>3
<1>5. \A k \in DOMAIN payments :
        /\ payments'[k].share = payments[k].share /\ payments'[k].total = payments[k].total
        /\ payments'[k].ref = payments[k].ref /\ payments'[k].bill = payments[k].bill
  BY <1>1, <1>2 DEF Payment
<1> QED
  BY <1>4, <1>5, ChangesPayments

LEMMA RefundPays ==
  ASSUME PayInv, RefundStep
  PROVE  PayInv'
<1>1. PICK i \in DOMAIN payments : \E amount \in 1..payments[i].total : Refund(i, amount)
  BY DEF RefundStep
<1>a. PICK amount \in 1..payments[i].total : Refund(i, amount)
  BY <1>1
<1>2. /\ payments[i] \in Payment /\ i \in Nat /\ amount \in Nat
      /\ Len(payments) < MaxPayments
  BY <1>a, PaymentsList DEF PayInv, Refund, Payment
<1> DEFINE p == [NewPayment("refund", payments[i].table, amount, {}) EXCEPT !.ref = i]
<1>3. NewPayment("refund", payments[i].table, amount, {}) \in Payment
  BY <1>2, NewPaymentTyped DEF Payment
<1>4. p \in Payment
  BY <1>2, <1>3 DEF Payment
<1>5. p.share = 0
  BY DEF NewPayment
<1>6. payments' = Append(payments, p)
  BY <1>a DEF Refund
<1> HIDE DEF p
<1> QED
  BY <1>2, <1>4, <1>5, <1>6, AddsPayment

LEMMA RelocatesPayments ==
  ASSUME LifeInv, PayInv, NEW s \in Tables, RelocateCommit(s)
  PROVE  PayInv'
<1>1. tx[s].to \in Tables
  BY DEF LifeInv, RelocationsPair, RelocateCommit
<1>2. payments' = [i \in DOMAIN payments |->
                     IF i \in SessionPayments(s) THEN [payments[i] EXCEPT !.table = tx[s].to]
                                                 ELSE payments[i]]
  BY DEF RelocateCommit
<1>3. \A i \in DOMAIN payments :
        payments[i] \in Payment /\ [payments[i] EXCEPT !.table = tx[s].to] \in Payment
  BY <1>1, PaymentsList DEF PayInv, Payment
<1>4. payments' \in [DOMAIN payments -> Payment]
  BY <1>2, <1>3
<1>5. \A k \in DOMAIN payments :
        /\ payments'[k].share = payments[k].share /\ payments'[k].total = payments[k].total
        /\ payments'[k].ref = payments[k].ref /\ payments'[k].bill = payments[k].bill
  BY <1>2, <1>3 DEF Payment
<1> QED
  BY <1>4, <1>5, ChangesPayments

LEMMA PaymentsStep ==
  ASSUME LifeInv, PayInv, [Next]_vars
  PROVE  PayInv'
<1>1. ASSUME UNCHANGED payments
      PROVE  PayInv'
  BY <1>1 DEF PayInv, PaymentsTyped, RefsInPlace, SharesAddUp
<1>2. CASE CreateStep
  BY <1>1, <1>2 DEF CreateStep, CreateAbort, CreateBegin, CreateCommit
<1>3. CASE CheckoutStep
  <2>1. PICK t \in Tables : \/ \E op \in Ops : BillRead(t, op)
                            \/ Abort(t) \/ CloseCommit(t) \/ ItemsCommit(t)
                            \/ \E n \in 2..MaxPeople : SplitCommit(t, n)
                            \/ \E i \in DOMAIN payments : MarkShare(t, i)
    BY <1>3 DEF CheckoutStep
  <2>2. CASE Abort(t) \/ \E op \in Ops : BillRead(t, op)
    BY <1>1, <2>2 DEF Abort, BillRead
  <2> QED
    BY <2>1, <2>2, ClosePayments, ItemsPay, SplitPays, ShareMarked
<1>4. CASE RefundStep
  BY <1>4, RefundPays
<1>5. CASE RelocateStep
  <2>1. PICK s \in Tables : RelocateCommit(s) \/ \E t \in Tables : RelocateRead(s, t)
    BY <1>5 DEF RelocateStep
  <2>2. CASE \E t \in Tables : RelocateRead(s, t)
    BY <1>1, <2>2 DEF RelocateRead
  <2> QED
    BY <2>1, <2>2, RelocatesPayments
<1>6. CASE FloorStep
  BY <1>1, <1>6 DEF FloorStep, EditQuantity, RemoveLine, VoidRead, VoidWrite, FloorCommit,
     FloorAbort, StatusRead, StatusWrite, SignalWrite, SignalRead
<1>7. CASE UNCHANGED vars
  BY <1>1, <1>7 DEF vars
<1> QED
  BY <1>2, <1>3, <1>4, <1>5, <1>6, <1>7 DEF Next

LEMMA PaymentsInit == Init => PayInv
<1> SUFFICES ASSUME Init PROVE PayInv
  OBVIOUS
<1>1. payments = <<>>
  BY DEF Init
<1>2. PaymentsTyped /\ DOMAIN payments = {}
  BY <1>1, BoundsAssumption DEF PaymentsTyped
<1> QED
  BY <1>2 DEF PayInv, RefsInPlace, SharesAddUp

LEMMA PaymentsHold == Spec => []PayInv
BY PaymentsInit, PaymentsStep, LifeHolds, PTL DEF Spec

\* Rows, transactions under way and payments keep their types: no share and no
\* total falls below zero (makeShares, paySelectedItems, closeTable).
THEOREM TypeCorrect == Spec => []TypeOK
<1>1. LifeInv /\ PayInv => TypeOK
  BY DEF LifeInv, PayInv, PaymentsTyped, TypeOK
<1> QED
  BY <1>1, LifeHolds, PaymentsHold, PTL

\* The shares of a split add up to the bill that was split, whatever is closed,
\* refunded, paid or moved afterwards (makeShares).
THEOREM SharesMakeTheBill == Spec => []SharesAddUp
<1>1. PayInv => SharesAddUp
  BY DEF PayInv
<1> QED
  BY <1>1, PaymentsHold, PTL

-----------------------------------------------------------------------------
(* No unit is paid twice.  A selection is checked against the quantities   *)
(* its transaction has read, which edits may have changed since: what it   *)
(* can rely on is the largest quantity the line ever had.                  *)

UnitsInv ==
    \A o \in Orders :
      /\ qty[o] <= peak[o] /\ (o \notin doubled => paidUnits[o] <= peak[o])
      /\ \A t \in Tables : tx[t].units[o] <= peak[o]
      /\ orderStatus[o] = "absent" => peak[o] = 0

\* Steps that neither pay nor edit.
LEMMA UnitsKept ==
  ASSUME RowsTyped, RowsTyped', UnitsInv, UNCHANGED <<qty, paidUnits, peak, doubled>>,
         \A o \in Orders : orderStatus'[o] = "absent" => orderStatus[o] = "absent",
         \A t \in Tables : tx'[t].units = tx[t].units \/ tx'[t].units = NoTx.units
  PROVE  UnitsInv'
<1>1. ASSUME NEW o \in Orders, NEW t \in Tables
      PROVE  tx'[t].units[o] <= peak[o]
  <2>1. tx[t].units[o] <= peak[o] /\ NoTx.units[o] = 0 /\ peak[o] \in Nat
    BY BoundsAssumption DEF RowsTyped, UnitsInv, NoTx
  <2> QED
    BY <2>1
<1> QED
  BY <1>1 DEF UnitsInv

LEMMA ReleaseUnits ==
  ASSUME RowsTyped, NEW S, Release(S), NEW t \in Tables
  PROVE  tx'[t].units = tx[t].units \/ tx'[t].units = NoTx.units
BY DEF RowsTyped, Release

LEMMA CreateStepUnits ==
  ASSUME LifeInv, LifeInv', UnitsInv, CreateStep
  PROVE  UnitsInv'
<1>r. RowsTyped /\ RowsTyped'
  BY DEF LifeInv
<1>1. PICK o \in Orders : \/ CreateAbort(o)
                          \/ \E t \in Tables : CreateBegin(o, t)
                          \/ \E q \in 1..MaxQty : CreateCommit(o, q)
  BY DEF CreateStep
<1>2. CASE CreateAbort(o) \/ \E t \in Tables : CreateBegin(o, t)
  BY <1>2, <1>r, UnitsKept DEF CreateAbort, CreateBegin, orderRows
<1>3. ASSUME NEW q \in 1..MaxQty, CreateCommit(o, q)
      PROVE  UnitsInv'
  <2>1. peak[o] = 0
    BY <1>3 DEF LifeInv, CreatingAbsent, CreateCommit, UnitsInv
  <2>2. /\ qty' = [qty EXCEPT ![o] = q] /\ peak' = [peak EXCEPT ![o] = q]
        /\ orderStatus' = [orderStatus EXCEPT ![o] = "open"]
        /\ UNCHANGED <<paidUnits, doubled, tx>>
    BY <1>3 DEF CreateCommit
  <2>3. ASSUME NEW x \in Orders
        PROVE  /\ qty'[x] <= peak'[x] /\ peak[x] <= peak'[x]
               /\ orderStatus'[x] = "absent" => peak'[x] = 0
    BY <2>1, <2>2, <1>r DEF RowsTyped, UnitsInv
  <2>4. ASSUME NEW x \in Orders, NEW t \in Tables
        PROVE  tx'[t].units[x] <= peak'[x]
    <3>1. /\ tx[t].units[x] <= peak[x] /\ peak[x] <= peak'[x]
          /\ tx[t].units[x] \in Nat /\ peak[x] \in Nat /\ peak'[x] \in Nat
      BY <2>3, <1>r, BoundsAssumption DEF RowsTyped, UnitsInv, Transaction
    <3> QED
      BY <2>2, <3>1
  <2>5. ASSUME NEW x \in Orders \ doubled'
        PROVE  paidUnits'[x] <= peak'[x]
    <3>1. /\ paidUnits[x] <= peak[x] /\ peak[x] <= peak'[x]
          /\ paidUnits[x] \in Nat /\ peak[x] \in Nat /\ peak'[x] \in Nat
      BY <2>2, <2>3, <1>r, BoundsAssumption DEF RowsTyped, UnitsInv
    <3> QED
      BY <2>2, <3>1
  <2> QED
    BY <2>3, <2>4, <2>5 DEF UnitsInv
<1> QED
  BY <1>1, <1>2, <1>3

LEMMA CheckoutStepUnits ==
  ASSUME LifeInv, LifeInv', UnitsInv, CheckoutStep
  PROVE  UnitsInv'
<1>r. RowsTyped /\ RowsTyped'
  BY DEF LifeInv
<1>1. PICK t \in Tables : \/ \E op \in Ops : BillRead(t, op)
                          \/ Abort(t) \/ CloseCommit(t) \/ ItemsCommit(t)
                          \/ \E n \in 2..MaxPeople : SplitCommit(t, n)
                          \/ \E i \in DOMAIN payments : MarkShare(t, i)
  BY DEF CheckoutStep
<1>2. ASSUME NEW op \in Ops, BillRead(t, op)
      PROVE  UnitsInv'
  <2>1. UNCHANGED <<orderStatus, qty, paidUnits, peak, doubled>>
    BY <1>2 DEF BillRead, orderRows
  <2>2. ASSUME NEW o \in Orders, NEW s \in Tables
        PROVE  tx'[s].units[o] <= peak[o]
    <3>1. CASE s = t
      <4>1. tx'[s].units[o] = IF o \in OpenAt(t) THEN qty[o] ELSE 0
        BY <1>2, <1>r, <3>1 DEF BillRead, RowsTyped
      <4> QED
        BY <4>1, <1>r DEF UnitsInv, RowsTyped
    <3>2. CASE s # t
      BY <1>2, <1>r, <3>2 DEF BillRead, UnitsInv, RowsTyped
    <3> QED
      BY <3>1, <3>2
  <2> QED
    BY <2>1, <2>2 DEF UnitsInv
<1>3. CASE Abort(t)
  BY <1>3, <1>r, UnitsKept, ReleaseUnits DEF Abort, orderRows
<1>4. CASE CloseCommit(t)
  BY <1>4, <1>r, UnitsKept, ReleaseUnits, SettleStays DEF CloseCommit
<1>5. CASE ItemsCommit(t)
  <2>1. PICK u \in Selection(t), again \in Selection(t) :
          /\ paidUnits' = [o \in Orders |-> paidUnits[o] + (u[o] + again[o])]
          /\ doubled' = doubled \cup {o \in Orders : u[o] > 0 /\ again[o] > 0}
          /\ Settle(t) \/ UNCHANGED orderStatus
    <3>1. PICK u \in Selection(t), again \in Selection(t), units \in [Orders -> Nat] :
            ItemsWrite(t, u, again, units)
      BY <1>5, ItemsWrites
    <3> QED
      BY <3>1 DEF ItemsWrite
  <2>2. Release({t}) /\ UNCHANGED <<qty, peak>>
    BY <1>5 DEF ItemsCommit
  <2>3. ASSUME NEW o \in Orders \ doubled'
        PROVE  paidUnits'[o] <= peak'[o]
    <3>1. /\ paidUnits[o] \in Nat /\ u[o] \in Nat /\ tx[t].units[o] \in Nat /\ peak[o] \in Nat
          /\ u[o] + paidUnits[o] <= tx[t].units[o] \/ u[o] = 0
          /\ tx[t].units[o] <= peak[o]
      BY <1>r, BoundsAssumption DEF RowsTyped, Selection, Transaction, UnitsInv
    <3>2. /\ again[o] \in Nat /\ ~(u[o] > 0 /\ again[o] > 0)
          /\ again[o] + paidUnits[o] <= tx[t].units[o] \/ again[o] = 0
      BY <2>1, BoundsAssumption DEF Selection
    <3>3. paidUnits[o] <= peak[o]
      BY <2>1 DEF UnitsInv
    <3>4. paidUnits'[o] = paidUnits[o] + (u[o] + again[o])
      BY <2>1
    <3> QED
      BY <2>2, <3>1, <3>2, <3>3, <3>4
  <2>4. ASSUME NEW o \in Orders, NEW s \in Tables
        PROVE  tx'[s].units[o] <= peak[o]
    <3>1. tx'[s].units = tx[s].units \/ tx'[s].units = NoTx.units
      BY <2>2, <1>r, ReleaseUnits
    <3>2. tx[s].units[o] <= peak[o] /\ NoTx.units[o] = 0 /\ peak[o] \in Nat
      BY <1>r, BoundsAssumption DEF RowsTyped, UnitsInv, NoTx
    <3> QED
      BY <3>1, <3>2
  <2>5. ASSUME NEW o \in Orders
        PROVE  qty'[o] <= peak'[o] /\ (orderStatus'[o] = "absent" => peak'[o] = 0)
    BY <2>1, <2>2, <1>r, SettleStays DEF UnitsInv
  <2> QED
    BY <2>2, <2>3, <2>4, <2>5 DEF UnitsInv
<1>6. ASSUME NEW n \in 2..MaxPeople, SplitCommit(t, n)
      PROVE  UnitsInv'
  BY <1>6, <1>r, UnitsKept, ReleaseUnits DEF SplitCommit, orderRows
<1>7. ASSUME NEW i \in DOMAIN payments, MarkShare(t, i)
      PROVE  UnitsInv'
  BY <1>7, <1>r, UnitsKept, SettleStays DEF MarkShare
<1> QED
  BY <1>1, <1>2, <1>3, <1>4, <1>5, <1>6, <1>7

LEMMA RelocateStepUnits ==
  ASSUME LifeInv, LifeInv', UnitsInv, RelocateStep
  PROVE  UnitsInv'
<1>r. RowsTyped /\ RowsTyped'
  BY DEF LifeInv
<1>1. PICK s \in Tables : RelocateCommit(s) \/ \E t \in Tables : RelocateRead(s, t)
  BY DEF RelocateStep
<1>2. ASSUME NEW t \in Tables, RelocateRead(s, t)
      PROVE  UnitsInv'
  <2>1. \A x \in Tables : tx'[x].units = tx[x].units \/ tx'[x].units = NoTx.units
    BY <1>2, <1>r DEF RelocateRead, RowsTyped, NoTx
  <2> QED
    BY <1>2, <1>r, <2>1, UnitsKept DEF RelocateRead, orderRows
<1>3. CASE RelocateCommit(s)
  BY <1>3, <1>r, UnitsKept, ReleaseUnits DEF RelocateCommit
<1> QED
  BY <1>1, <1>2, <1>3

LEMMA FloorStepUnits ==
  ASSUME LifeInv, LifeInv', UnitsInv, FloorStep
  PROVE  UnitsInv'
<1>r. RowsTyped /\ RowsTyped'
  BY DEF LifeInv
<1>1. ASSUME NEW o \in Orders, NEW q \in 1..MaxQty, EditQuantity(o, q)
      PROVE  UnitsInv'
  <2>1. /\ qty' = [qty EXCEPT ![o] = q]
        /\ peak' = [peak EXCEPT ![o] = IF q > @ THEN q ELSE @]
        /\ UNCHANGED <<paidUnits, doubled, tx, orderStatus>> /\ orderStatus[o] = "open"
    BY <1>1 DEF EditQuantity
  <2>2. ASSUME NEW x \in Orders
        PROVE  /\ qty'[x] <= peak'[x] /\ peak[x] <= peak'[x]
               /\ orderStatus'[x] = "absent" => peak'[x] = 0
    BY <2>1, <1>r DEF RowsTyped, UnitsInv
  <2>3. ASSUME NEW x \in Orders
        PROVE  /\ x \notin doubled' => paidUnits'[x] <= peak'[x]
               /\ \A t \in Tables : tx'[t].units[x] <= peak'[x]
    <3>1. /\ x \notin doubled => paidUnits[x] <= peak[x]
          /\ peak[x] <= peak'[x]
          /\ paidUnits[x] \in Nat /\ peak[x] \in Nat /\ peak'[x] \in Nat
          /\ \A t \in Tables : tx[t].units[x] \in Nat /\ tx[t].units[x] <= peak[x]
      BY <2>2, <1>r, BoundsAssumption DEF RowsTyped, UnitsInv, Transaction
    <3> QED
      BY <2>1, <3>1
  <2> QED
    BY <2>2, <2>3 DEF UnitsInv
<1>2. ASSUME NEW o \in Orders, \/ RemoveLine(o) \/ VoidRead(o) \/ VoidWrite(o)
                               \/ StatusRead(o) \/ FloorAbort(o)
      PROVE  UnitsInv'
  BY <1>2, <1>r, UnitsKept DEF RemoveLine, VoidRead, VoidWrite, StatusRead, FloorAbort, orderRows
<1>3. ASSUME NEW o \in Orders, FloorCommit(o)
      PROVE  UnitsInv'
  <2>1. /\ orderStatus' = [orderStatus EXCEPT ![o] = "cancelled"]
        /\ UNCHANGED <<peak, tx>>
        /\ \/ UNCHANGED <<qty, paidUnits, doubled>>
           \/ /\ qty' = [qty EXCEPT ![o] = 0]
              /\ paidUnits' = [paidUnits EXCEPT ![o] = 0]
              /\ doubled' = doubled \ {o}
    BY <1>3 DEF FloorCommit
  <2> QED
    BY <2>1, <1>r DEF RowsTyped, UnitsInv
<1>4. ASSUME NEW o \in Orders, NEW s \in {"open", "cancelled"}, StatusWrite(o, s)
      PROVE  UnitsInv'
  BY <1>4, <1>r, UnitsKept DEF StatusWrite, RowsTyped
<1>5. ASSUME NEW t \in Tables,
             SignalWrite(t) \/ \E s \in {"suspended", "occupied", "free"} : SignalRead(t, s)
      PROVE  UnitsInv'
  BY <1>5, <1>r, UnitsKept DEF SignalWrite, SignalRead, orderRows
<1> QED
  BY <1>1, <1>2, <1>3, <1>4, <1>5 DEF FloorStep

LEMMA UnitsStep ==
  ASSUME LifeInv, UnitsInv, [Next]_vars
  PROVE  UnitsInv'
<1>1. LifeInv'
  BY LifeStep
<1>2. CASE RefundStep \/ UNCHANGED vars
  <2>1. UNCHANGED <<orderRows, tx>>
    BY <1>2 DEF RefundStep, Refund, vars
  <2> QED
    BY <1>1, <2>1, UnitsKept DEF orderRows, LifeInv
<1> QED
  BY <1>1, <1>2, CreateStepUnits, CheckoutStepUnits, RelocateStepUnits, FloorStepUnits DEF Next

\* However item payments, edits, removals, relocations and closes of the same
\* orders interleave, a line is never paid for more units than it once had,
\* unless one request named it twice.
THEOREM NoUnitPaidTwice == Spec => []UnitsPaidOnce
<1>1. Init => UnitsInv
  BY DEF Init, UnitsInv, NoTx
<1>2. UnitsInv => UnitsPaidOnce
  BY DEF UnitsInv, UnitsPaidOnce
<1> QED
  BY <1>1, <1>2, UnitsStep, LifeHolds, PTL DEF Spec

-----------------------------------------------------------------------------
(* The transactions that lock a table leave it and its orders in step.      *)

\* Orders already open stay at their tables, and no table is freed.
LEMMA TablesUntouched ==
  ASSUME CheckoutKeepsTables, UNCHANGED <<orderTable, tableStatus, freedByFloor>>,
         reopened \subseteq reopened',
         \A o \in Orders : orderStatus'[o] = "open" => orderStatus[o] = "open" \/ o \in reopened'
  PROVE  CheckoutKeepsTables'
BY DEF CheckoutKeepsTables

LEMMA SettleKeepsTables ==
  ASSUME LifeInv, CheckoutKeepsTables, NEW t \in Tables, Settle(t),
         UNCHANGED <<orderTable, reopened>>
  PROVE  CheckoutKeepsTables'
<1>1. ASSUME NEW o \in Orders \ reopened', orderStatus'[o] = "open", tableStatus'[orderTable'[o]] = "free"
      PROVE  orderTable'[o] \in freedByFloor'
  <2>1. orderStatus[o] = "open" /\ orderTable[o] # t
    BY <1>1 DEF Settle, OpenAt
  <2>2. orderTable[o] \in Tables
    BY <2>1 DEF LifeInv, OrdersPlaced
  <2>3. tableStatus[orderTable[o]] = "free"
    BY <1>1, <2>1, <2>2 DEF Settle, LifeInv, RowsTyped
  <2> QED
    BY <2>1, <2>3 DEF CheckoutKeepsTables, Settle
<1> QED
  BY <1>1 DEF CheckoutKeepsTables

LEMMA CreateStepTables ==
  ASSUME LifeInv, CheckoutKeepsTables, CreateStep
  PROVE  CheckoutKeepsTables'
<1>1. PICK o \in Orders : \/ CreateAbort(o)
                          \/ \E t \in Tables : CreateBegin(o, t)
                          \/ \E q \in 1..MaxQty : CreateCommit(o, q)
  BY DEF CreateStep
<1>2. CASE CreateAbort(o) \/ \E t \in Tables : CreateBegin(o, t)
  BY <1>2, TablesUntouched DEF CreateAbort, CreateBegin, orderRows, tableRows
<1>3. ASSUME NEW q \in 1..MaxQty, CreateCommit(o, q)
      PROVE  CheckoutKeepsTables'
  <2>1. ASSUME NEW x \in Orders \ reopened', orderStatus'[x] = "open", tableStatus'[orderTable'[x]] = "free"
        PROVE  orderTable'[x] \in freedByFloor'
    <3>1. creating[o] \in Tables
      BY <1>3 DEF CreateCommit, LifeInv, RowsTyped
    <3>2. tableStatus'[creating[o]] = "occupied"
      BY <1>3, <3>1 DEF CreateCommit, LifeInv, RowsTyped
    <3>3. orderTable'[o] = creating[o]
      BY <1>3 DEF CreateCommit, LifeInv, RowsTyped
    <3>4. x # o /\ orderTable'[x] # creating[o]
      BY <2>1, <3>2, <3>3
    <3>5. orderStatus[x] = "open" /\ orderTable'[x] = orderTable[x]
      BY <1>3, <2>1, <3>4 DEF CreateCommit, LifeInv, RowsTyped
    <3>6. tableStatus[orderTable[x]] = "free"
      BY <1>3, <2>1, <3>4, <3>5 DEF CreateCommit, LifeInv, RowsTyped, OrdersPlaced
    <3>7. reopened' = reopened /\ freedByFloor' = freedByFloor \ {creating[o]}
      BY <1>3 DEF CreateCommit
    <3> QED
      BY <2>1, <3>4, <3>5, <3>6, <3>7 DEF CheckoutKeepsTables
  <2> QED
    BY <2>1 DEF CheckoutKeepsTables
<1> QED
  BY <1>1, <1>2, <1>3

LEMMA CheckoutStepTables ==
  ASSUME LifeInv, CheckoutKeepsTables, CheckoutStep
  PROVE  CheckoutKeepsTables'
<1>1. PICK t \in Tables : \/ \E op \in Ops : BillRead(t, op)
                          \/ Abort(t) \/ CloseCommit(t) \/ ItemsCommit(t)
                          \/ \E n \in 2..MaxPeople : SplitCommit(t, n)
                          \/ \E i \in DOMAIN payments : MarkShare(t, i)
  BY DEF CheckoutStep
<1>2. \/ Settle(t) /\ UNCHANGED <<orderTable, reopened>>
      \/ UNCHANGED <<orderStatus, orderTable, reopened, tableStatus, freedByFloor>>
  BY <1>1 DEF BillRead, Abort, CloseCommit, ItemsCommit, SplitCommit, MarkShare, orderRows, tableRows
<1> QED
  BY <1>2, SettleKeepsTables, TablesUntouched

LEMMA RelocateStepTables ==
  ASSUME LifeInv, CheckoutKeepsTables, RelocateStep
  PROVE  CheckoutKeepsTables'
<1>1. PICK s \in Tables : RelocateCommit(s) \/ \E t \in Tables : RelocateRead(s, t)
  BY DEF RelocateStep
<1>2. CASE \E t \in Tables : RelocateRead(s, t)
  BY <1>2, TablesUntouched DEF RelocateRead, orderRows, tableRows
<1>3. CASE RelocateCommit(s)
  <2> DEFINE t == tx[s].to
  <2>1. t \in Tables /\ t # s
    BY <1>3 DEF RelocateCommit, LifeInv, RelocationsPair
  <2>2. ASSUME NEW o \in Orders \ reopened', orderStatus'[o] = "open", tableStatus'[orderTable'[o]] = "free"
        PROVE  orderTable'[o] \in freedByFloor'
    <3>1. orderStatus[o] = "open" /\ orderTable[o] \in Tables
      BY <1>3, <2>2 DEF RelocateCommit, LifeInv, OrdersPlaced
    <3>2. orderTable'[o] = IF orderTable[o] = s THEN t ELSE orderTable[o]
      BY <1>3, <3>1 DEF RelocateCommit, OpenAt
    <3>3. tableStatus'[t] = TargetStatus(t, OpenAt(t) \cup OpenAt(s))
      BY <1>3, <2>1 DEF RelocateCommit, LifeInv, RowsTyped
    <3>4. orderTable'[o] # t
      <4>1. SUFFICES ASSUME orderTable'[o] = t
                     PROVE  FALSE
        OBVIOUS
      <4>2. o \in OpenAt(t) \cup OpenAt(s)
        BY <3>1, <3>2, <4>1 DEF OpenAt
      <4>3. TargetStatus(t, OpenAt(t) \cup OpenAt(s)) # "free"
        BY <4>2 DEF TargetStatus
      <4> QED
        BY <2>2, <3>3, <4>1, <4>3
    <3>5. orderTable'[o] = orderTable[o] /\ orderTable[o] \notin {s, t}
      BY <3>2, <3>4
    <3>6. /\ tableStatus[orderTable[o]] = "free" /\ freedByFloor' = freedByFloor \ {s, t}
          /\ o \in Orders \ reopened
      BY <1>3, <2>1, <2>2, <3>1, <3>5 DEF RelocateCommit, LifeInv, RowsTyped
    <3> QED
      BY <3>1, <3>5, <3>6 DEF CheckoutKeepsTables
  <2> QED
    BY <2>2 DEF CheckoutKeepsTables
<1> QED
  BY <1>1, <1>2, <1>3

LEMMA FloorStepTables ==
  ASSUME LifeInv, CheckoutKeepsTables, FloorStep
  PROVE  CheckoutKeepsTables'
<1>1. ASSUME NEW o \in Orders, NEW q \in 1..MaxQty, EditQuantity(o, q)
      PROVE  CheckoutKeepsTables'
  BY <1>1, TablesUntouched DEF EditQuantity, tableRows
<1>2. ASSUME NEW o \in Orders, \/ RemoveLine(o) \/ VoidRead(o) \/ VoidWrite(o)
                               \/ StatusRead(o) \/ FloorAbort(o)
      PROVE  CheckoutKeepsTables'
  BY <1>2, TablesUntouched DEF RemoveLine, VoidRead, VoidWrite, StatusRead, FloorAbort, orderRows, tableRows
<1>3. ASSUME NEW o \in Orders, FloorCommit(o)
      PROVE  CheckoutKeepsTables'
  <2>1. \A x \in Orders : orderStatus'[x] = "open" => orderStatus[x] = "open"
    BY <1>3 DEF FloorCommit, LifeInv, RowsTyped
  <2>2. CASE UNCHANGED tableRows
    BY <1>3, <2>1, <2>2, TablesUntouched DEF FloorCommit, tableRows
  <2>3. CASE /\ tableStatus' = [tableStatus EXCEPT ![floor[o].table] = "free"]
             /\ freedByFloor' = freedByFloor \cup {floor[o].table}
    <3>1. \A x \in Tables : x \notin freedByFloor' => tableStatus'[x] = tableStatus[x]
      BY <2>3 DEF LifeInv, RowsTyped
    <3>2. UNCHANGED <<orderTable, reopened>>
      BY <1>3 DEF FloorCommit
    <3> QED
      BY <2>1, <2>3, <3>1, <3>2 DEF CheckoutKeepsTables, LifeInv, OrdersPlaced
  <2> QED
    BY <1>3, <2>2, <2>3 DEF FloorCommit
<1>4. ASSUME NEW o \in Orders, NEW s \in {"open", "cancelled"}, StatusWrite(o, s)
      PROVE  CheckoutKeepsTables'
  <2>1. /\ UNCHANGED <<orderTable, tableStatus, freedByFloor>>
        /\ orderStatus' = [orderStatus EXCEPT ![o] = s]
        /\ reopened' = IF s = "open" /\ orderStatus[o] # "open" THEN reopened \cup {o} ELSE reopened
    BY <1>4 DEF StatusWrite, tableRows
  <2>2. \A x \in Orders : orderStatus'[x] = "open" => orderStatus[x] = "open" \/ x \in reopened'
    BY <2>1 DEF LifeInv, RowsTyped
  <2> QED
    BY <2>1, <2>2, TablesUntouched
<1>5. ASSUME NEW t \in Tables, NEW s \in {"suspended", "occupied", "free"}, SignalRead(t, s)
      PROVE  CheckoutKeepsTables'
  BY <1>5, TablesUntouched DEF SignalRead, orderRows, tableRows
<1>6. ASSUME NEW t \in Tables, SignalWrite(t)
      PROVE  CheckoutKeepsTables'
  <2>1. UNCHANGED <<orderTable, orderStatus, reopened>>
    BY <1>6 DEF SignalWrite, orderRows
  <2>2. ASSUME NEW x \in Tables, tableStatus'[x] = "free", x \notin freedByFloor'
        PROVE  tableStatus[x] = "free" /\ x \notin freedByFloor
    BY <1>6, <2>2 DEF SignalWrite, LifeInv, RowsTyped
  <2> QED
    BY <2>1, <2>2 DEF CheckoutKeepsTables, LifeInv, OrdersPlaced
<1> QED
  BY <1>1, <1>2, <1>3, <1>4, <1>5, <1>6 DEF FloorStep

LEMMA TablesStep ==
  ASSUME LifeInv, CheckoutKeepsTables, [Next]_vars
  PROVE  CheckoutKeepsTables'
<1>1. CASE RefundStep \/ UNCHANGED vars
  BY <1>1, TablesUntouched DEF RefundStep, Refund, vars, orderRows, tableRows
<1> QED
  BY <1>1, CreateStepTables, CheckoutStepTables, RelocateStepTables, FloorStepTables DEF Next

\* Checkout, relocation and order creation never leave an open order at a free
\* table: nothing does but a void, a line removal or a resume that freed the
\* table, or a status change that reopened the order.
THEOREM TablesKept == Spec => []CheckoutKeepsTables
<1>1. Init => CheckoutKeepsTables
  BY DEF Init, CheckoutKeepsTables
<1> QED
  BY <1>1, TablesStep, LifeHolds, PTL DEF Spec

-----------------------------------------------------------------------------
(* Payments by item follow the orders they are for.  A relocation reads    *)
(* the open orders of its table, and moves the payments for them when it   *)
(* commits: what it has read must still be all that is open there, and the *)
(* payments for it must still be there.  Both fail of an order that a      *)
(* status change reopened in between, and of payments that cover it.       *)

Reopens(i) == payments[i].covers \cap reopened # {}

ItemsPayments == {i \in DOMAIN payments : payments[i].type = "items"}

OpenHasLine == \A o \in Orders \ reopened : orderStatus[o] = "open" => qty[o] > 0

SeenAtTable == \A t \in Tables : \A o \in tx[t].seen : orderTable[o] = t

UnitsOfSeen == \A t \in Tables : \A o \in Orders \ tx[t].seen : tx[t].units[o] = 0

SeenComplete == \A s \in Tables : tx[s].op = "relocate" => OpenAt(s) \ reopened \subseteq tx[s].seen

CoversPresent == \A i \in ItemsPayments : \A o \in payments[i].covers : o \in Orders /\ orderStatus[o] # "absent"

SeenPaymentsHere ==
    \A s \in Tables : \A i \in ItemsPayments :
      tx[s].op = "relocate" /\ payments[i].covers \cap tx[s].seen # {} /\ ~Reopens(i)
        => payments[i].table = s

CreatorsAlone == \A o \in Orders : creating[o] # Null => tx[creating[o]] = NoTx

FollowInv == /\ OpenHasLine /\ SeenAtTable /\ UnitsOfSeen /\ SeenComplete
             /\ CoversPresent /\ SeenPaymentsHere /\ CreatorsAlone /\ PaymentsFollowOrders

\* No payment by item is new or changed in what matters here.
KeepsItems ==
    \A i \in ItemsPayments' : /\ i \in ItemsPayments
                              /\ payments'[i].table = payments[i].table
                              /\ payments'[i].covers = payments[i].covers

LEMMA AppendKeepsItems ==
  ASSUME PaymentsTyped, Len(payments) < MaxPayments, NEW p \in Payment, p.type # "items",
         payments' = Append(payments, p)
  PROVE  KeepsItems
BY OneMorePayment DEF KeepsItems, ItemsPayments

\* Amounts and states of payments may change.
LEMMA UpdateKeepsItems ==
  ASSUME PaymentsTyped, NEW i \in DOMAIN payments,
         \/ \E x : payments' = [payments EXCEPT ![i].total = x]
         \/ payments' = [payments EXCEPT ![i].state = "captured"]
  PROVE  KeepsItems
<1>1. PICK x : \/ payments' = [payments EXCEPT ![i].total = x]
               \/ payments' = [payments EXCEPT ![i].state = "captured"]
  OBVIOUS
<1>2. \A k \in DOMAIN payments : payments[k] \in Payment
  BY PaymentsList
<1>3. ASSUME NEW k \in DOMAIN payments
      PROVE  /\ payments'[k].type = payments[k].type
             /\ payments'[k].table = payments[k].table
             /\ payments'[k].covers = payments[k].covers
  <2>1. CASE k = i
    BY <1>1, <1>2, <2>1 DEF Payment
  <2>2. CASE k # i
    BY <1>1, <2>2
  <2> QED
    BY <2>1, <2>2
<1>4. DOMAIN payments' = DOMAIN payments
  BY <1>1
<1> QED
  BY <1>3, <1>4 DEF KeepsItems, ItemsPayments

\* Steps that end transactions, close orders or edit them, and pay nothing by item.
QuietStep ==
    /\ KeepsItems
    /\ UNCHANGED orderTable
    /\ reopened \subseteq reopened'
    /\ \A o \in Orders : /\ orderStatus'[o] = "absent" => orderStatus[o] = "absent"
                         /\ orderStatus'[o] = "open" /\ o \notin reopened'
                              => orderStatus[o] = "open" /\ qty'[o] > 0
                         /\ creating'[o] # Null => creating'[o] = creating[o]
    /\ \A t \in Tables : tx'[t] = tx[t] \/ tx'[t] = NoTx

LEMMA QuietKeeps ==
  ASSUME LifeInv, FollowInv, QuietStep
  PROVE  FollowInv'
<1>n. NoTx.op = "none" /\ NoTx.seen = {} /\ NoTx.units = [o \in Orders |-> 0]
  BY DEF NoTx
<1>1. OpenHasLine'
  BY DEF QuietStep, OpenHasLine
<1>2. SeenAtTable' /\ UnitsOfSeen'
  BY <1>n DEF QuietStep, FollowInv, SeenAtTable, UnitsOfSeen
<1>3. SeenComplete'
  BY <1>n DEF QuietStep, FollowInv, SeenComplete, OpenAt
<1>4. CoversPresent'
  BY DEF QuietStep, KeepsItems, FollowInv, CoversPresent
<1>r. \A i \in ItemsPayments' : ~Reopens(i)' => ~Reopens(i)
  BY DEF QuietStep, KeepsItems, Reopens
<1>5. SeenPaymentsHere'
  BY <1>n, <1>r DEF QuietStep, KeepsItems, FollowInv, SeenPaymentsHere
<1>6. CreatorsAlone'
  BY DEF QuietStep, FollowInv, CreatorsAlone, LifeInv, RowsTyped
<1>7. PaymentsFollowOrders'
  BY <1>r DEF QuietStep, KeepsItems, ItemsPayments, FollowInv, PaymentsFollowOrders, Reopens
<1> QED
  BY <1>1, <1>2, <1>3, <1>4, <1>5, <1>6, <1>7 DEF FollowInv

LEMMA UnchangedKeepsItems ==
  ASSUME UNCHANGED payments
  PROVE  KeepsItems
BY DEF KeepsItems, ItemsPayments

LEMMA CreateStepFollow ==
  ASSUME LifeInv, FollowInv, CreateStep
  PROVE  FollowInv'
<1>r. RowsTyped
  BY DEF LifeInv
<1>1. PICK o \in Orders : \/ CreateAbort(o)
                          \/ \E t \in Tables : CreateBegin(o, t)
                          \/ \E q \in 1..MaxQty : CreateCommit(o, q)
  BY DEF CreateStep
<1>p. UNCHANGED <<payments, tx>>
  BY <1>1 DEF CreateAbort, CreateBegin, CreateCommit
<1>l. KeepsItems
  BY <1>p, UnchangedKeepsItems
<1>2. CASE CreateAbort(o)
  <2>1. QuietStep
    BY <1>2, <1>p, <1>l, <1>r DEF CreateAbort, QuietStep, orderRows, FollowInv, OpenHasLine, RowsTyped
  <2> QED
    BY <1>l, <2>1, QuietKeeps
<1>3. ASSUME NEW t \in Tables, CreateBegin(o, t)
      PROVE  FollowInv'
  <2>1. UNCHANGED orderRows /\ tx[t] = NoTx
    BY <1>3 DEF CreateBegin, Locked
  <2>2. CreatorsAlone'
    BY <1>3, <1>p, <1>r, <2>1 DEF CreateBegin, FollowInv, CreatorsAlone, RowsTyped
  <2> QED
    BY <1>p, <2>1, <2>2 DEF FollowInv, OpenHasLine, SeenAtTable, UnitsOfSeen,
       SeenComplete, OpenAt, CoversPresent, SeenPaymentsHere, ItemsPayments, PaymentsFollowOrders,
       Reopens, orderRows
<1>4. ASSUME NEW q \in 1..MaxQty, CreateCommit(o, q)
      PROVE  FollowInv'
  <2> DEFINE t == creating[o]
  <2>1. t \in Tables /\ orderStatus[o] = "absent" /\ tx[t] = NoTx
    BY <1>4, <1>r DEF CreateCommit, LifeInv, CreatingAbsent, RowsTyped, FollowInv, CreatorsAlone
  <2>2. /\ orderTable' = [orderTable EXCEPT ![o] = t]
        /\ orderStatus' = [orderStatus EXCEPT ![o] = "open"]
        /\ qty' = [qty EXCEPT ![o] = q] /\ q > 0
        /\ creating' = [creating EXCEPT ![o] = Null]
        /\ UNCHANGED reopened
    BY <1>4 DEF CreateCommit
  <2>3. OpenHasLine'
    BY <2>2, <1>r DEF FollowInv, OpenHasLine, RowsTyped
  <2>4. \A s \in Tables : o \notin tx[s].seen
    BY <2>1 DEF LifeInv, SeenPresent
  <2>5. SeenAtTable' /\ UnitsOfSeen'
    BY <1>p, <1>r, <2>2, <2>4 DEF FollowInv, SeenAtTable, UnitsOfSeen, RowsTyped, Transaction
  <2>6. SeenComplete'
    <3>1. \A s \in Tables : s # t => OpenAt(s)' \subseteq OpenAt(s)
      BY <2>2, <1>r DEF OpenAt, RowsTyped
    <3>2. tx[t].op # "relocate"
      BY <2>1 DEF NoTx
    <3> QED
      BY <1>p, <2>2, <3>1, <3>2 DEF FollowInv, SeenComplete
  <2>7. \A i \in ItemsPayments : o \notin payments[i].covers
    BY <2>1 DEF FollowInv, CoversPresent
  <2>8. CoversPresent' /\ SeenPaymentsHere'
    BY <1>p, <1>r, <2>2 DEF FollowInv, CoversPresent, SeenPaymentsHere, ItemsPayments, Reopens, RowsTyped
  <2>9. CreatorsAlone'
    BY <1>p, <1>r, <2>2 DEF FollowInv, CreatorsAlone, RowsTyped
  <2>10. PaymentsFollowOrders'
    BY <1>p, <1>r, <2>2, <2>7 DEF FollowInv, PaymentsFollowOrders, ItemsPayments, RowsTyped
  <2> QED
    BY <2>3, <2>5, <2>6, <2>8, <2>9, <2>10 DEF FollowInv
<1> QED
  BY <1>1, <1>2, <1>3, <1>4

LEMMA BillReadFollow ==
  ASSUME LifeInv, FollowInv, NEW t \in Tables, NEW op \in Ops, BillRead(t, op)
  PROVE  FollowInv'
<1>r. RowsTyped
  BY DEF LifeInv
<1>1. /\ UNCHANGED <<orderRows, payments, creating>> /\ ~Locked(t) /\ op # "relocate"
      /\ tx' = [tx EXCEPT ![t] =
                 [op |-> op, seen |-> OpenAt(t), to |-> Null,
                  units |-> [o \in Orders |-> IF o \in OpenAt(t) THEN qty[o] ELSE 0]]]
  BY DEF BillRead
<1>2. /\ tx'[t].op = op /\ tx'[t].seen = OpenAt(t)
      /\ tx'[t].units = [o \in Orders |-> IF o \in OpenAt(t) THEN qty[o] ELSE 0]
      /\ \A s \in Tables \ {t} : tx'[s] = tx[s]
  BY <1>1, <1>r DEF RowsTyped
<1>3. SeenAtTable' /\ UnitsOfSeen'
  BY <1>1, <1>2 DEF FollowInv, SeenAtTable, UnitsOfSeen, OpenAt, orderRows
<1>4. SeenComplete' /\ SeenPaymentsHere'
  BY <1>1, <1>2 DEF FollowInv, SeenComplete, SeenPaymentsHere, OpenAt, ItemsPayments, Reopens, orderRows
<1>5. CreatorsAlone'
  BY <1>1, <1>2, <1>r DEF FollowInv, CreatorsAlone, Locked, RowsTyped
<1> QED
  BY <1>1, <1>3, <1>4, <1>5 DEF FollowInv, OpenHasLine, CoversPresent, ItemsPayments,
     PaymentsFollowOrders, orderRows

LEMMA SharesAreNoItems ==
  ASSUME PaymentsTyped, RowsTyped, NEW t \in Tables, NEW n \in 2..MaxPeople, SplitCommit(t, n)
  PROVE  KeepsItems
<1>1. Bill(t) \in Nat /\ n \in Nat \ {0}
  BY BillNat
<1>2. PICK shares \in Shares(Bill(t), n) :
        payments' = payments \o
          [k \in 1..n |-> [type |-> "share", table |-> t, total |-> shares[k],
                           state |-> "pending", share |-> k, ref |-> Len(payments) + 1,
                           covers |-> tx[t].seen, bill |-> Bill(t)]]
  BY DEF SplitCommit
<1> DEFINE q == [k \in 1..n |-> [type |-> "share", table |-> t, total |-> shares[k],
                                 state |-> "pending", share |-> k, ref |-> Len(payments) + 1,
                                 covers |-> tx[t].seen, bill |-> Bill(t)]]
<1>3. /\ Len(payments) + 1 \in Nat /\ tx[t].seen \subseteq Orders
      /\ Len(payments) + n <= MaxPayments
  BY PaymentsList DEF RowsTyped, Transaction, SplitCommit
<1>4. shares \in [1..n -> Nat]
  BY <1>1, <1>2, SharesTyped
<1>5. ASSUME NEW k \in 1..n
      PROVE  q[k] \in Payment /\ q[k].type = "share"
  <2>1. shares[k] \in Nat /\ k \in 0..MaxPeople
    BY <1>4, BoundsAssumption
  <2> QED
    BY <1>1, <1>3, <2>1 DEF Payment
<1>6. q \in [1..n -> Payment] /\ payments' = payments \o q
  BY <1>2, <1>5
<1> HIDE DEF q
<1>7. /\ DOMAIN payments' = 1..(Len(payments) + n)
      /\ \A i \in DOMAIN payments' :
           payments'[i] = IF i \in DOMAIN payments THEN payments[i] ELSE q[i - Len(payments)]
  BY <1>1, <1>3, <1>6, MorePayments
<1>8. ASSUME NEW i \in ItemsPayments'
      PROVE  i \in DOMAIN payments
  <2>1. i \notin DOMAIN payments => i - Len(payments) \in 1..n
    BY <1>1, <1>7, PaymentsList DEF ItemsPayments
  <2> QED
    BY <1>5, <1>7, <2>1 DEF ItemsPayments
<1> QED
  BY <1>7, <1>8 DEF KeepsItems, ItemsPayments

LEMMA QuietCheckoutFollow ==
  ASSUME LifeInv, PayInv, FollowInv, NEW t \in Tables,
         \/ Abort(t) \/ CloseCommit(t)
         \/ \E n \in 2..MaxPeople : SplitCommit(t, n)
         \/ \E i \in DOMAIN payments : MarkShare(t, i)
  PROVE  FollowInv'
<1>r. RowsTyped /\ PaymentsTyped
  BY DEF LifeInv, PayInv
<1>1. KeepsItems
  <2>1. CASE UNCHANGED payments
    BY <2>1, UnchangedKeepsItems
  <2>2. CASE CloseCommit(t)
    <3>1. ASSUME ClosePays(t)
          PROVE  KeepsItems
      <4> DEFINE p == NewPayment("close", t, Bill(t), tx[t].seen)
      <4>1. p.type # "items"
        BY DEF NewPayment
      <4>2. Bill(t) \in Nat /\ tx[t].seen \in SUBSET Orders
        BY <1>r, BillNat DEF RowsTyped, Transaction
      <4>3. p \in Payment
        BY <4>2, NewPaymentTyped
      <4> QED
        BY <1>r, <3>1, <4>1, <4>3, AppendKeepsItems DEF ClosePays
    <3>2. ASSUME CloseFindsPaid(t)
          PROVE  KeepsItems
      BY <1>r, <3>2, UpdateKeepsItems DEF CloseFindsPaid, PaymentsAt
    <3> QED
      BY <2>1, <2>2, <3>1, <3>2 DEF CloseCommit, CloseFindsShares
  <2>3. ASSUME NEW i \in DOMAIN payments, MarkShare(t, i)
        PROVE  KeepsItems
    BY <1>r, <2>3, UpdateKeepsItems DEF MarkShare
  <2> QED
    BY <1>r, <2>1, <2>2, <2>3, SharesAreNoItems DEF Abort
<1>2. /\ \/ Settle(t) /\ UNCHANGED <<orderTable, qty, reopened>>
         \/ UNCHANGED <<orderTable, orderStatus, qty, reopened>>
      /\ UNCHANGED creating
      /\ \/ UNCHANGED tx
         \/ \E S : Release(S)
  BY DEF Abort, CloseCommit, SplitCommit, MarkShare, orderRows
<1>3. \A s \in Tables : tx'[s] = tx[s] \/ tx'[s] = NoTx
  BY <1>2 DEF Release
<1>4. \A o \in Orders : /\ orderStatus'[o] = "absent" => orderStatus[o] = "absent"
                        /\ orderStatus'[o] = "open" => orderStatus[o] = "open"
  BY <1>2, <1>r DEF Settle, OpenAt
<1>5. QuietStep
  BY <1>1, <1>2, <1>3, <1>4 DEF QuietStep, FollowInv, OpenHasLine
<1> QED
  BY <1>5, QuietKeeps

\* A payment by item covers orders that are open at its table when it is made.
LEMMA ItemsFollow ==
  ASSUME LifeInv, PayInv, FollowInv, NEW t \in Tables, ItemsCommit(t)
  PROVE  FollowInv'
<1>r. RowsTyped /\ PaymentsTyped
  BY DEF LifeInv, PayInv
<1>0. PICK u \in Selection(t), again \in Selection(t), units \in [Orders -> Nat] :
        ItemsWrite(t, u, again, units)
  BY ItemsWrites
<1>1. /\ units = [o \in Orders |-> u[o] + again[o]]
      /\ payments' = Append(payments,
           NewPayment("items", t, Total(units, {o \in Orders : units[o] > 0}),
                      {o \in Orders : units[o] > 0}))
      /\ Len(payments) < MaxPayments
      /\ Settle(t) \/ UNCHANGED orderStatus
  BY <1>0 DEF ItemsWrite
<1>2. Release({t}) /\ UNCHANGED <<orderTable, qty, reopened, creating>>
  BY DEF ItemsCommit
<1> DEFINE covers == {o \in Orders : units[o] > 0}
           p == NewPayment("items", t, Total(units, covers), covers)
           n == Len(payments) + 1
<1>3. covers \subseteq tx[t].seen
  <2>1. ASSUME NEW o \in covers
        PROVE  o \in tx[t].seen
    <3>1. /\ paidUnits[o] \in Nat /\ tx[t].units[o] \in Nat
          /\ u[o] \in Nat /\ (u[o] = 0 \/ u[o] + paidUnits[o] <= tx[t].units[o])
          /\ again[o] \in Nat /\ (again[o] = 0 \/ again[o] + paidUnits[o] <= tx[t].units[o])
      BY <1>r, BoundsAssumption DEF Selection, RowsTyped, Transaction
    <3>3. u[o] + again[o] > 0
      BY <1>1
    <3>2. tx[t].units[o] # 0
      BY <3>1, <3>3
    <3> QED
      BY <3>2 DEF FollowInv, UnitsOfSeen
  <2> QED
    BY <2>1
<1>4. p \in Payment /\ p.type = "items" /\ p.table = t /\ p.covers = covers
  <2>1. p.type = "items" /\ p.table = t /\ p.covers = covers
    BY DEF NewPayment
  <2>2. IsFiniteSet(covers) /\ covers \in SUBSET Orders /\ \A o \in covers : units[o] \in Nat
    BY OrdersAssumption, FS_Subset
  <2>3. Total(units, covers) \in Nat
    BY <2>2, SumNat DEF Total
  <2> QED
    BY <2>1, <2>2, <2>3, NewPaymentTyped
<1>5. payments' = Append(payments, p)
  BY <1>1
<1> HIDE DEF p
<1>6. /\ DOMAIN payments' = DOMAIN payments \cup {n}
      /\ payments'[n] = p /\ n \notin DOMAIN payments
      /\ \A i \in DOMAIN payments : payments'[i] = payments[i]
  BY <1>r, <1>1, <1>4, <1>5, OneMorePayment, PaymentsList
<1> HIDE DEF n
<1>7. \A o \in Orders : /\ orderStatus'[o] = "absent" => orderStatus[o] = "absent"
                        /\ orderStatus'[o] = "open" => orderStatus[o] = "open"
  BY <1>1, <1>r DEF Settle, OpenAt
<1>8. \A s \in Tables : tx'[s] = tx[s] \/ tx'[s] = NoTx
  BY <1>2 DEF Release
<1>9. NoTx.op = "none" /\ NoTx.seen = {} /\ NoTx.units = [o \in Orders |-> 0]
  BY DEF NoTx
<1>10. \A o \in covers : o \in Orders /\ orderTable[o] = t /\ orderStatus[o] # "absent"
  <2>1. ASSUME NEW o \in tx[t].seen
        PROVE  orderTable[o] = t /\ orderStatus[o] # "absent"
    BY DEF FollowInv, SeenAtTable, LifeInv, SeenPresent
  <2> QED
    BY <1>3, <2>1
<1>11. \A i \in ItemsPayments' : i = n \/ (i \in ItemsPayments /\ payments'[i] = payments[i])
  BY <1>6 DEF ItemsPayments
<1>12. OpenHasLine' /\ SeenAtTable' /\ UnitsOfSeen'
  BY <1>2, <1>7, <1>8, <1>9 DEF FollowInv, OpenHasLine, SeenAtTable, UnitsOfSeen
<1>13. SeenComplete'
  BY <1>2, <1>7, <1>8, <1>9 DEF FollowInv, SeenComplete, OpenAt
<1>14. CoversPresent'
  BY <1>4, <1>6, <1>7, <1>10, <1>11 DEF FollowInv, CoversPresent
<1>15. SeenPaymentsHere'
  <2>1. ASSUME NEW s \in Tables, NEW i \in ItemsPayments', tx'[s].op = "relocate",
               payments'[i].covers \cap tx'[s].seen # {}, ~Reopens(i)'
        PROVE  payments'[i].table = s
    <3>1. tx'[s] = tx[s]
      BY <1>8, <1>9, <2>1
    <3>2. CASE i = n
      BY <1>4, <1>6, <1>10, <2>1, <3>1, <3>2 DEF FollowInv, SeenAtTable
    <3>3. CASE i # n
      BY <1>2, <1>11, <2>1, <3>1, <3>3 DEF FollowInv, SeenPaymentsHere, Reopens
    <3> QED
      BY <3>2, <3>3
  <2> QED
    BY <2>1 DEF SeenPaymentsHere
<1>16. CreatorsAlone'
  BY <1>2, <1>8, <1>r DEF FollowInv, CreatorsAlone, RowsTyped
<1>17. PaymentsFollowOrders'
  <2>1. ASSUME NEW i \in ItemsPayments', NEW o \in Orders,
               o \in payments'[i].covers, orderStatus'[o] = "open", ~Reopens(i)'
        PROVE  payments'[i].table = orderTable'[o]
    BY <1>2, <1>4, <1>6, <1>7, <1>10, <1>11, <2>1 DEF FollowInv, PaymentsFollowOrders, ItemsPayments,
       Reopens
  <2> QED
    BY <2>1 DEF PaymentsFollowOrders, ItemsPayments, Reopens
<1> QED
  BY <1>12, <1>13, <1>14, <1>15, <1>16, <1>17 DEF FollowInv

\* A relocation reads the open orders of its table, whose payments are there.
LEMMA RelocateReadFollow ==
  ASSUME LifeInv, FollowInv, NEW s \in Tables, NEW t \in Tables, RelocateRead(s, t)
  PROVE  FollowInv'
<1>r. RowsTyped
  BY DEF LifeInv
<1>1. UNCHANGED <<orderRows, payments, creating>> /\ ~Locked(s) /\ ~Locked(t) /\ s # t
  BY DEF RelocateRead
<1>2. /\ tx'[s].op = "relocate" /\ tx'[s].seen = OpenAt(s) /\ tx'[s].units = [o \in Orders |-> 0]
      /\ tx'[t].op = "target" /\ tx'[t].seen = {} /\ tx'[t].units = [o \in Orders |-> 0]
      /\ \A x \in Tables \ {s, t} : tx'[x] = tx[x]
  BY <1>1, <1>r DEF RelocateRead, RowsTyped, NoTx
<1>3. SeenAtTable' /\ UnitsOfSeen'
  BY <1>1, <1>2 DEF FollowInv, SeenAtTable, UnitsOfSeen, OpenAt, orderRows
<1>4. SeenComplete'
  BY <1>1, <1>2 DEF FollowInv, SeenComplete, OpenAt, orderRows
<1>5. SeenPaymentsHere'
  <2>1. \A i \in ItemsPayments :
          payments[i].covers \cap OpenAt(s) # {} /\ ~Reopens(i) => payments[i].table = s
    BY DEF FollowInv, PaymentsFollowOrders, ItemsPayments, OpenAt, Reopens
  <2>2. ASSUME NEW x \in Tables, NEW i \in ItemsPayments, tx'[x].op = "relocate",
               payments[i].covers \cap tx'[x].seen # {}, ~Reopens(i)
        PROVE  payments[i].table = x
    BY <1>2, <2>1, <2>2 DEF FollowInv, SeenPaymentsHere
  <2> QED
    BY <1>1, <2>2 DEF SeenPaymentsHere, ItemsPayments, Reopens, orderRows
<1>6. CreatorsAlone'
  BY <1>1, <1>2, <1>r DEF FollowInv, CreatorsAlone, Locked, RowsTyped
<1> QED
  BY <1>1, <1>3, <1>4, <1>5, <1>6 DEF FollowInv, OpenHasLine, CoversPresent,
     ItemsPayments, PaymentsFollowOrders, orderRows

LEMMA RelocateCommitFollow ==
  ASSUME LifeInv, PayInv, FollowInv, NEW s \in Tables, RelocateCommit(s)
  PROVE  FollowInv'
<1>r. RowsTyped
  BY DEF LifeInv
<1> DEFINE t == tx[s].to
<1>1. tx[s].op = "relocate" /\ t \in Tables /\ t # s /\ tx[t].op = "target"
  BY DEF RelocateCommit, LifeInv, RelocationsPair
<1>2. /\ payments' = [i \in DOMAIN payments |->
                        IF i \in SessionPayments(s) THEN [payments[i] EXCEPT !.table = t] ELSE payments[i]]
      /\ orderTable' = [o \in Orders |-> IF o \in OpenAt(s) THEN t ELSE orderTable[o]]
      /\ Release({s, t})
      /\ UNCHANGED <<orderStatus, qty, reopened, creating>>
  BY DEF RelocateCommit
<1>3. \A x \in Tables : (tx'[x] = tx[x] /\ x \notin {s, t}) \/ tx'[x] = NoTx
  BY <1>2 DEF Release
<1>4. NoTx.op = "none" /\ NoTx.seen = {} /\ NoTx.units = [o \in Orders |-> 0]
  BY DEF NoTx
\* The payments of the session move, the others stay.
<1>9. ASSUME NEW i \in ItemsPayments'
      PROVE  /\ i \in ItemsPayments /\ payments'[i].covers = payments[i].covers
             /\ payments'[i].table = IF i \in SessionPayments(s) THEN t ELSE payments[i].table
  <2>1. i \in DOMAIN payments /\ payments[i] \in Payment
    BY <1>2, PaymentsList DEF ItemsPayments, PayInv
  <2>2. /\ [payments[i] EXCEPT !.table = t].type = payments[i].type
        /\ [payments[i] EXCEPT !.table = t].covers = payments[i].covers
        /\ [payments[i] EXCEPT !.table = t].table = t
    BY <2>1 DEF Payment
  <2> QED
    BY <1>2, <2>1, <2>2 DEF ItemsPayments
\* They are those for an order that was read and still has a line.
<1>10. \A i \in ItemsPayments : i \in SessionPayments(s) <=>
          \E o \in payments[i].covers \cap tx[s].seen : qty[o] > 0
  BY DEF SessionPayments, ItemsPayments
<1>11. \A i \in ItemsPayments : i \in SessionPayments(s) /\ ~Reopens(i) => payments[i].table = s
  BY <1>1, <1>10 DEF FollowInv, SeenPaymentsHere
<1>12. OpenHasLine' /\ CreatorsAlone'
  BY <1>2, <1>3, <1>r DEF FollowInv, OpenHasLine, CreatorsAlone, RowsTyped
<1>13. SeenAtTable' /\ UnitsOfSeen'
  <2>1. ASSUME NEW x \in Tables, NEW o \in tx'[x].seen
        PROVE  orderTable'[o] = x
    <3>1. tx'[x] = tx[x] /\ x # s
      BY <1>3, <1>4, <2>1
    <3>2. o \in Orders /\ orderTable[o] = x
      BY <2>1, <3>1, <1>r DEF FollowInv, SeenAtTable, RowsTyped, Transaction
    <3> QED
      BY <1>2, <3>1, <3>2 DEF OpenAt
  <2> QED
    BY <1>3, <1>4, <2>1 DEF SeenAtTable, FollowInv, UnitsOfSeen
<1>14. SeenComplete'
  <2>1. ASSUME NEW x \in Tables, tx'[x].op = "relocate"
        PROVE  OpenAt(x)' \ reopened' \subseteq tx'[x].seen
    <3>1. tx'[x] = tx[x] /\ x \notin {s, t}
      BY <1>3, <1>4, <2>1
    <3>2. OpenAt(x)' \subseteq OpenAt(x)
      BY <1>2, <3>1 DEF OpenAt
    <3> QED
      BY <1>2, <2>1, <3>1, <3>2 DEF FollowInv, SeenComplete
  <2> QED
    BY <2>1 DEF SeenComplete
<1>15. CoversPresent'
  BY <1>2, <1>9 DEF FollowInv, CoversPresent
<1>16. SeenPaymentsHere'
  <2>1. ASSUME NEW x \in Tables, NEW i \in ItemsPayments', tx'[x].op = "relocate",
               payments'[i].covers \cap tx'[x].seen # {}, ~Reopens(i)'
        PROVE  payments'[i].table = x
    <3>1. tx'[x] = tx[x] /\ x # s
      BY <1>3, <1>4, <2>1
    <3>2. i \in ItemsPayments /\ ~Reopens(i) /\ payments[i].table = x
      BY <1>2, <1>9, <2>1, <3>1 DEF FollowInv, SeenPaymentsHere, Reopens
    <3> QED
      BY <1>9, <1>11, <3>1, <3>2
  <2> QED
    BY <2>1 DEF SeenPaymentsHere
<1>17. PaymentsFollowOrders'
  <2>1. ASSUME NEW i \in ItemsPayments', NEW o \in Orders,
               o \in payments'[i].covers, orderStatus'[o] = "open", ~Reopens(i)'
        PROVE  payments'[i].table = orderTable'[o]
    <3>1. /\ i \in ItemsPayments /\ o \in payments[i].covers /\ orderStatus[o] = "open"
          /\ ~Reopens(i) /\ o \notin reopened
          /\ qty[o] > 0 /\ payments[i].table = orderTable[o]
      BY <1>2, <1>9, <2>1 DEF FollowInv, OpenHasLine, PaymentsFollowOrders, ItemsPayments, Reopens
    <3>2. CASE o \in OpenAt(s)
      <4>1. o \in tx[s].seen
        BY <1>1, <3>1, <3>2 DEF FollowInv, SeenComplete
      <4>2. i \in SessionPayments(s)
        BY <1>10, <3>1, <4>1
      <4> QED
        BY <1>2, <1>9, <3>2, <4>2
    <3>3. CASE o \notin OpenAt(s)
      <4>1. orderTable[o] # s /\ orderTable'[o] = orderTable[o]
        BY <1>2, <3>1, <3>3 DEF OpenAt
      <4> QED
        BY <1>9, <1>11, <3>1, <4>1
    <3> QED
      BY <3>2, <3>3
  <2> QED
    BY <2>1 DEF PaymentsFollowOrders, ItemsPayments, Reopens
<1> QED
  BY <1>12, <1>13, <1>14, <1>15, <1>16, <1>17 DEF FollowInv

LEMMA FloorStepFollow ==
  ASSUME LifeInv, FollowInv, FloorStep
  PROVE  FollowInv'
<1>r. RowsTyped
  BY DEF LifeInv
<1>k. ASSUME UNCHANGED <<payments, orderTable, creating, tx>>, reopened \subseteq reopened',
             \A o \in Orders : /\ orderStatus'[o] = "absent" => orderStatus[o] = "absent"
                               /\ orderStatus'[o] = "open" /\ o \notin reopened'
                                    => orderStatus[o] = "open" /\ qty'[o] > 0
      PROVE  FollowInv'
  <2>1. KeepsItems
    BY <1>k, UnchangedKeepsItems
  <2> QED
    BY <1>k, <2>1, QuietKeeps DEF QuietStep
<1>1. ASSUME NEW o \in Orders, NEW q \in 1..MaxQty, EditQuantity(o, q)
      PROVE  FollowInv'
  BY <1>1, <1>k, <1>r DEF EditQuantity, FollowInv, OpenHasLine, RowsTyped
<1>2. ASSUME NEW o \in Orders, \/ RemoveLine(o) \/ VoidRead(o) \/ VoidWrite(o)
                               \/ StatusRead(o) \/ FloorAbort(o)
      PROVE  FollowInv'
  BY <1>2, <1>k DEF RemoveLine, VoidRead, VoidWrite, StatusRead, FloorAbort, orderRows, FollowInv,
     OpenHasLine
<1>3. ASSUME NEW o \in Orders, FloorCommit(o)
      PROVE  FollowInv'
  BY <1>3, <1>k, <1>r DEF FloorCommit, FollowInv, OpenHasLine, RowsTyped
<1>4. ASSUME NEW o \in Orders, NEW s \in {"open", "cancelled"}, StatusWrite(o, s)
      PROVE  FollowInv'
  <2>1. /\ UNCHANGED <<payments, orderTable, qty, creating, tx>>
        /\ orderStatus' = [orderStatus EXCEPT ![o] = s]
        /\ reopened' = IF s = "open" /\ orderStatus[o] # "open" THEN reopened \cup {o} ELSE reopened
        /\ floor[o] # NoFloor
    BY <1>4 DEF StatusWrite, NoFloor
  <2>2. \A x \in Orders : /\ orderStatus'[x] = "absent" => orderStatus[x] = "absent"
                          /\ orderStatus'[x] = "open" /\ x \notin reopened'
                               => orderStatus[x] = "open" /\ qty'[x] > 0
    BY <2>1, <1>r DEF FollowInv, OpenHasLine, RowsTyped
  <2> QED
    BY <1>k, <2>1, <2>2
<1>5. ASSUME NEW t \in Tables,
             SignalWrite(t) \/ \E s \in {"suspended", "occupied", "free"} : SignalRead(t, s)
      PROVE  FollowInv'
  BY <1>5, <1>k DEF SignalWrite, SignalRead, orderRows, FollowInv, OpenHasLine
<1> QED
  BY <1>1, <1>2, <1>3, <1>4, <1>5 DEF FloorStep

LEMMA FollowStep ==
  ASSUME LifeInv, PayInv, FollowInv, [Next]_vars
  PROVE  FollowInv'
<1>1. CASE CheckoutStep
  BY <1>1, BillReadFollow, ItemsFollow, QuietCheckoutFollow DEF CheckoutStep
<1>2. CASE RelocateStep
  BY <1>2, RelocateReadFollow, RelocateCommitFollow DEF RelocateStep
<1>3. CASE RefundStep
  <2>1. PICK i \in DOMAIN payments : \E amount \in 1..payments[i].total : Refund(i, amount)
    BY <1>3 DEF RefundStep
  <2>2. PICK amount \in 1..payments[i].total : Refund(i, amount)
    BY <2>1
  <2> DEFINE p == [NewPayment("refund", payments[i].table, amount, {}) EXCEPT !.ref = i]
  <2>3. /\ payments[i].table \in Tables /\ i \in Nat /\ amount \in Nat
        /\ Len(payments) < MaxPayments
    BY <2>2, PaymentsList DEF PayInv, Refund, Payment
  <2>4. NewPayment("refund", payments[i].table, amount, {}) \in Payment
    BY <2>3, NewPaymentTyped
  <2>5. p \in Payment /\ p.type # "items"
    BY <2>3, <2>4 DEF NewPayment, Payment
  <2>6. KeepsItems
    BY <2>2, <2>3, <2>5, AppendKeepsItems DEF Refund, PayInv
  <2>7. QuietStep
    BY <2>2, <2>6 DEF Refund, QuietStep, FollowInv, OpenHasLine, orderRows
  <2> QED
    BY <2>7, QuietKeeps
<1>4. CASE UNCHANGED vars
  <2>1. KeepsItems
    BY <1>4, UnchangedKeepsItems DEF vars
  <2>2. QuietStep
    BY <1>4, <2>1 DEF vars, QuietStep, FollowInv, OpenHasLine, orderRows
  <2> QED
    BY <2>2, QuietKeeps
<1> QED
  BY <1>1, <1>2, <1>3, <1>4, CreateStepFollow, FloorStepFollow DEF Next

\* A payment by item stays at the table of the open orders it is for, through
\* transfers and merges that race with checkouts, edits and voids: the bill at
\* that table shows what has been paid.
THEOREM PaymentsStayWithOrders == Spec => []PaymentsFollowOrders
<1>1. Init => FollowInv
  BY DEF Init, FollowInv, OpenHasLine, SeenAtTable, UnitsOfSeen, SeenComplete, CoversPresent,
     SeenPaymentsHere, CreatorsAlone, PaymentsFollowOrders, ItemsPayments, NoTx
<1>2. FollowInv => PaymentsFollowOrders
  BY DEF FollowInv
<1> QED
  BY <1>1, <1>2, FollowStep, LifeHolds, PaymentsHold, PTL DEF Spec

-----------------------------------------------------------------------------
(* A paid order.  Settling waits for the locks of its orders' rows, so that *)
(* a line removal, which holds one, finds its order still open; a void or a *)
(* status change has read its order before and may find it paid.           *)

RemovingOpen == \A o \in Orders : floor[o].op = "removing" => orderStatus[o] = "open"

LEMMA SettleRemoving ==
  ASSUME RemovingOpen, NEW t \in Tables, Settle(t), UNCHANGED floor
  PROVE  RemovingOpen'
BY DEF RemovingOpen, Settle, InFlight, OpenAt

LEMMA StatusKeptRemoving ==
  ASSUME RemovingOpen, UNCHANGED <<orderStatus, floor>>
  PROVE  RemovingOpen'
BY DEF RemovingOpen

LEMMA FloorStepRemoving ==
  ASSUME LifeInv, RemovingOpen, FloorStep
  PROVE  RemovingOpen'
<1>r. RowsTyped
  BY DEF LifeInv
<1>1. ASSUME NEW o \in Orders, NEW op, NEW t, NEW frees, SetFloor(o, op, t, frees),
             op = "removing" => orderStatus[o] = "open", UNCHANGED orderStatus
      PROVE  RemovingOpen'
  BY <1>1, <1>r DEF RemovingOpen, SetFloor, RowsTyped
<1>2. ASSUME NEW o \in Orders, floor' = [floor EXCEPT ![o] = NoFloor],
             \A x \in Orders \ {o} : orderStatus'[x] = orderStatus[x]
      PROVE  RemovingOpen'
  BY <1>2, <1>r DEF RemovingOpen, NoFloor, RowsTyped
<1>3. ASSUME NEW o \in Orders, \/ RemoveLine(o) \/ VoidRead(o) \/ VoidWrite(o) \/ StatusRead(o)
      PROVE  RemovingOpen'
  <2>1. UNCHANGED orderStatus
    BY <1>3 DEF RemoveLine, VoidRead, VoidWrite, StatusRead, orderRows
  <2>2. \E op, t, frees : SetFloor(o, op, t, frees) /\ (op = "removing" => orderStatus[o] = "open")
    <3>1. CASE RemoveLine(o)
      BY <3>1 DEF RemoveLine
    <3>2. CASE VoidRead(o)
      BY <3>2 DEF VoidRead
    <3>3. CASE VoidWrite(o)
      <4>1. SetFloor(o, "voiding", floor[o].table, NoOtherOpen(o, floor[o].table))
        BY <3>3 DEF VoidWrite
      <4> QED
        BY <4>1
    <3>4. CASE StatusRead(o)
      BY <3>4 DEF StatusRead
    <3> QED
      BY <1>3, <3>1, <3>2, <3>3, <3>4
  <2> QED
    BY <1>1, <2>1, <2>2
<1>4. ASSUME NEW o \in Orders, \/ FloorCommit(o) \/ FloorAbort(o)
                               \/ \E s \in {"open", "cancelled"} : StatusWrite(o, s)
      PROVE  RemovingOpen'
  <2>1. floor' = [floor EXCEPT ![o] = NoFloor]
    BY <1>4 DEF FloorCommit, FloorAbort, StatusWrite
  <2>2. \A x \in Orders \ {o} : orderStatus'[x] = orderStatus[x]
    BY <1>4, <1>r DEF FloorCommit, FloorAbort, StatusWrite, orderRows, RowsTyped
  <2> QED
    BY <1>2, <2>1, <2>2
<1>5. ASSUME NEW o \in Orders, NEW q \in 1..MaxQty, EditQuantity(o, q)
      PROVE  RemovingOpen'
  BY <1>5, StatusKeptRemoving DEF EditQuantity
<1>6. ASSUME NEW t \in Tables,
             SignalWrite(t) \/ \E s \in {"suspended", "occupied", "free"} : SignalRead(t, s)
      PROVE  RemovingOpen'
  BY <1>6, StatusKeptRemoving DEF SignalWrite, SignalRead, orderRows
<1> QED
  BY <1>3, <1>4, <1>5, <1>6 DEF FloorStep

\* What a checkout does to the status of orders.
LEMMA CheckoutSettles ==
  ASSUME CheckoutStep
  PROVE  UNCHANGED floor /\ (UNCHANGED orderStatus \/ \E t \in Tables : Settle(t))
BY DEF CheckoutStep, BillRead, Abort, CloseCommit, ItemsCommit, SplitCommit, MarkShare, orderRows

LEMMA RemovingStep ==
  ASSUME LifeInv, RemovingOpen, [Next]_vars
  PROVE  RemovingOpen'
<1>1. CASE CreateStep
  <2>1. PICK o \in Orders : \/ CreateAbort(o)
                            \/ \E t \in Tables : CreateBegin(o, t)
                            \/ \E q \in 1..MaxQty : CreateCommit(o, q)
    BY <1>1 DEF CreateStep
  <2>2. CASE CreateAbort(o) \/ \E t \in Tables : CreateBegin(o, t)
    BY <2>2, StatusKeptRemoving DEF CreateAbort, CreateBegin, orderRows
  <2>3. CASE \E q \in 1..MaxQty : CreateCommit(o, q)
    <3>1. orderStatus' = [orderStatus EXCEPT ![o] = "open"] /\ UNCHANGED floor
      BY <2>3 DEF CreateCommit
    <3> QED
      BY <3>1 DEF RemovingOpen, LifeInv, RowsTyped
  <2> QED
    BY <2>1, <2>2, <2>3
<1>2. CASE CheckoutStep
  BY <1>2, CheckoutSettles, SettleRemoving, StatusKeptRemoving
<1>3. CASE RelocateStep \/ RefundStep \/ UNCHANGED vars
  BY <1>3, StatusKeptRemoving DEF RelocateStep, RelocateRead, RelocateCommit, RefundStep, Refund,
     orderRows, vars
<1> QED
  BY <1>1, <1>2, <1>3, FloorStepRemoving DEF Next

LEMMA PaidLeaves ==
  ASSUME LifeInv, RemovingOpen, Next, NEW o \in Orders,
         orderStatus[o] = "paid", orderStatus'[o] # "paid"
  PROVE  floor[o].op \in {"voiding", "status"}
<1>r. RowsTyped
  BY DEF LifeInv
<1>1. CASE CreateStep
  <2>1. PICK x \in Orders : \/ CreateAbort(x)
                            \/ \E t \in Tables : CreateBegin(x, t)
                            \/ \E q \in 1..MaxQty : CreateCommit(x, q)
    BY <1>1 DEF CreateStep
  <2>2. PICK q \in 1..MaxQty : CreateCommit(x, q)
    BY <2>1 DEF CreateAbort, CreateBegin, orderRows
  <2>3. x # o
    BY <2>2 DEF CreateCommit, LifeInv, CreatingAbsent
  <2> QED
    BY <2>2, <2>3, <1>r DEF CreateCommit, RowsTyped
<1>2. CASE CheckoutStep
  BY <1>2, CheckoutSettles DEF Settle, OpenAt
<1>3. CASE RelocateStep \/ RefundStep
  BY <1>3 DEF RelocateStep, RelocateRead, RelocateCommit, RefundStep, Refund, orderRows
<1>4. CASE FloorStep
  <2>1. PICK x \in Orders : FloorCommit(x) \/ \E s \in {"open", "cancelled"} : StatusWrite(x, s)
    BY <1>4 DEF FloorStep, EditQuantity, RemoveLine, VoidRead, VoidWrite, FloorAbort, StatusRead,
       SignalWrite, SignalRead, orderRows
  <2>2. x = o
    BY <2>1, <1>r DEF FloorCommit, StatusWrite, RowsTyped
  <2>3. CASE FloorCommit(x)
    BY <2>2, <2>3 DEF FloorCommit, InFlight, RemovingOpen
  <2>4. CASE \E s \in {"open", "cancelled"} : StatusWrite(x, s)
    BY <2>2, <2>4 DEF StatusWrite
  <2> QED
    BY <2>1, <2>3, <2>4
<1> QED
  BY <1>1, <1>2, <1>3, <1>4 DEF Next

\* Only a void or a status change that read it before takes an order out of
\* paid: a line removal, a relocation or another checkout never does.
THEOREM PaidStaysUnlessStale == Spec => PaidUnlessStale
<1>1. Init => RemovingOpen
  BY DEF Init, RemovingOpen, NoFloor
<1>2. LifeInv /\ RemovingOpen /\ [Next]_vars => RemovingOpen'
  BY RemovingStep
<1>3. LifeInv /\ RemovingOpen /\ [Next]_vars
        => [\A o \in Orders : orderStatus[o] = "paid" /\ orderStatus'[o] # "paid"
              => floor[o].op \in {"voiding", "status"}]_vars
  BY PaidLeaves
<1> QED
  BY <1>1, <1>2, <1>3, LifeHolds, PTL DEF Spec, PaidUnlessStale

-----------------------------------------------------------------------------
(* Closings.  What was paid of an open order by item has a payment that    *)
(* covers the order, and payments are neither deleted nor do they lose an  *)
(* order they cover; deleting a line also deletes what was paid of it.     *)

PaidCovered == \A o \in Orders : paidUnits[o] > 0 => \E i \in DOMAIN payments : o \in payments[i].covers

CloseHasRead == \A t \in Tables : tx[t].op = "close" => tx[t].seen # {}

CloseInv == PaidCovered /\ CloseHasRead

CoversKept == \A i \in DOMAIN payments : i \in DOMAIN payments' /\ payments'[i].covers = payments[i].covers

LEMMA CoveredKept ==
  ASSUME PaidCovered, CoversKept, \A o \in Orders : paidUnits'[o] > 0 => paidUnits[o] > 0
  PROVE  PaidCovered'
BY DEF PaidCovered, CoversKept

LEMMA AppendKeepsCovers ==
  ASSUME PaymentsTyped, NEW p, payments' = Append(payments, p)
  PROVE  /\ CoversKept
         /\ Len(payments) + 1 \in DOMAIN payments' /\ payments'[Len(payments) + 1] = p
BY DEF PaymentsTyped, CoversKept

LEMMA ConcatKeepsCovers ==
  ASSUME PaymentsTyped, NEW n \in Nat, NEW g, payments' = payments \o [k \in 1..n |-> g[k]]
  PROVE  CoversKept
<1> DEFINE T == Payment \cup {g[k] : k \in 1..n}
           q == [k \in 1..n |-> g[k]]
<1>1. q \in [1..n -> T] /\ payments \in Seq(T)
  BY DEF PaymentsTyped
<1>2. q \in Seq(T)
  BY <1>1, FunctionIsSeq
<1>3. payments' = payments \o q
  OBVIOUS
<1> HIDE DEF q, T
<1> QED
  BY <1>1, <1>2, <1>3, ConcatFacts DEF CoversKept

LEMMA FieldKeepsCovers ==
  ASSUME PaymentsTyped, NEW i \in DOMAIN payments, NEW x,
         \/ payments' = [payments EXCEPT ![i].total = x]
         \/ payments' = [payments EXCEPT ![i].state = x]
  PROVE  CoversKept
<1>1. \A k \in DOMAIN payments : payments[k] \in Payment
  BY PaymentsList
<1> QED
  BY <1>1 DEF CoversKept, Payment

\* No step deletes a payment or changes which orders it covers.
LEMMA CoversAlways ==
  ASSUME LifeInv, PaymentsTyped, [Next]_vars
  PROVE  CoversKept
<1>u. ASSUME UNCHANGED payments
      PROVE  CoversKept
  BY <1>u DEF CoversKept
<1>1. CASE CheckoutStep
  <2>1. PICK t \in Tables : \/ \E op \in Ops : BillRead(t, op)
                            \/ Abort(t) \/ CloseCommit(t) \/ ItemsCommit(t)
                            \/ \E n \in 2..MaxPeople : SplitCommit(t, n)
                            \/ \E i \in DOMAIN payments : MarkShare(t, i)
    BY <1>1 DEF CheckoutStep
  <2>2. CASE Abort(t) \/ \E op \in Ops : BillRead(t, op)
    BY <1>u, <2>2 DEF Abort, BillRead
  <2>3. CASE CloseCommit(t)
    <3>1. CASE ClosePays(t)
      BY <3>1, AppendKeepsCovers DEF ClosePays
    <3>2. CASE CloseFindsPaid(t)
      BY <3>2, FieldKeepsCovers DEF CloseFindsPaid, PaymentsAt
    <3>3. CASE CloseFindsShares(t)
      BY <3>3, <1>u DEF CloseFindsShares
    <3> QED
      BY <2>3, <3>1, <3>2, <3>3 DEF CloseCommit
  <2>4. CASE ItemsCommit(t)
    <3>1. \E p : payments' = Append(payments, p)
      BY <2>4 DEF ItemsCommit
    <3> QED
      BY <3>1, AppendKeepsCovers
  <2>5. ASSUME NEW n \in 2..MaxPeople, SplitCommit(t, n)
        PROVE  CoversKept
    <3>1. n \in Nat
      BY BoundsAssumption
    <3>2. PICK shares :
            payments' = payments \o
              [k \in 1..n |-> [type |-> "share", table |-> t, total |-> shares[k],
                               state |-> "pending", share |-> k, ref |-> Len(payments) + 1,
                               covers |-> tx[t].seen, bill |-> Bill(t)]]
      BY <2>5 DEF SplitCommit
    <3> DEFINE g == [k \in 1..n |-> [type |-> "share", table |-> t, total |-> shares[k],
                                     state |-> "pending", share |-> k, ref |-> Len(payments) + 1,
                                     covers |-> tx[t].seen, bill |-> Bill(t)]]
    <3>3. payments' = payments \o [k \in 1..n |-> g[k]]
      BY <3>2
    <3> HIDE DEF g
    <3> QED
      BY <3>1, <3>3, ConcatKeepsCovers
  <2>6. ASSUME NEW i \in DOMAIN payments, MarkShare(t, i)
        PROVE  CoversKept
    BY <2>6, FieldKeepsCovers DEF MarkShare
  <2> QED
    BY <2>1, <2>2, <2>3, <2>4, <2>5, <2>6
<1>2. CASE RefundStep
  <2>1. \E p : payments' = Append(payments, p)
    BY <1>2 DEF RefundStep, Refund
  <2> QED
    BY <2>1, AppendKeepsCovers
<1>3. CASE RelocateStep
  <2>1. PICK s \in Tables : RelocateCommit(s) \/ \E t \in Tables : RelocateRead(s, t)
    BY <1>3 DEF RelocateStep
  <2>2. CASE \E t \in Tables : RelocateRead(s, t)
    BY <1>u, <2>2 DEF RelocateRead
  <2>3. CASE RelocateCommit(s)
    <3>1. \A i \in DOMAIN payments : payments[i] \in Payment
      BY PaymentsList
    <3> QED
      BY <2>3, <3>1 DEF RelocateCommit, CoversKept, Payment
  <2> QED
    BY <2>1, <2>2, <2>3
<1>4. CASE CreateStep
  BY <1>u, <1>4 DEF CreateStep, CreateAbort, CreateBegin, CreateCommit
<1>5. CASE FloorStep
  BY <1>u, <1>5 DEF FloorStep, EditQuantity, RemoveLine, VoidRead, VoidWrite, FloorCommit,
     FloorAbort, StatusRead, StatusWrite, SignalWrite, SignalRead
<1>6. CASE UNCHANGED vars
  BY <1>u, <1>6 DEF vars
<1> QED
  BY <1>1, <1>2, <1>3, <1>4, <1>5, <1>6 DEF Next

\* Only a payment by item pays units.
LEMMA PaidCoveredStep ==
  ASSUME LifeInv, PaymentsTyped, PaidCovered, [Next]_vars
  PROVE  PaidCovered'
<1>c. CoversKept
  BY CoversAlways
<1>r. RowsTyped
  BY DEF LifeInv
<1>1. ASSUME NEW t \in Tables, ItemsCommit(t)
      PROVE  PaidCovered'
  <2>0. PICK f \in Selection(t), again \in Selection(t), u \in [Orders -> Nat] :
          ItemsWrite(t, f, again, u)
    BY <1>1, ItemsWrites
  <2>1. /\ payments' = Append(payments,
             NewPayment("items", t, Total(u, {o \in Orders : u[o] > 0}),
                        {o \in Orders : u[o] > 0}))
        /\ paidUnits' = [o \in Orders |-> paidUnits[o] + u[o]]
    BY <2>0 DEF ItemsWrite
  <2>2. PICK covers :
          /\ covers = {o \in Orders : u[o] > 0}
          /\ payments' = Append(payments, NewPayment("items", t, Total(u, covers), covers))
    BY <2>1
  <2>3. /\ Len(payments) + 1 \in DOMAIN payments'
        /\ payments'[Len(payments) + 1].covers = covers
    BY <2>2, AppendKeepsCovers DEF NewPayment
  <2>4. ASSUME NEW o \in Orders, paidUnits'[o] > 0
        PROVE  \E i \in DOMAIN payments' : o \in payments'[i].covers
    <3>1. paidUnits[o] \in Nat /\ u[o] \in Nat /\ paidUnits'[o] = paidUnits[o] + u[o]
      BY <2>1, <1>r, BoundsAssumption DEF RowsTyped
    <3>2. CASE u[o] > 0
      BY <2>2, <2>3, <3>2
    <3>3. CASE ~(u[o] > 0)
      <4>1. paidUnits[o] > 0
        BY <2>4, <3>1, <3>3
      <4> QED
        BY <4>1, <1>c DEF PaidCovered, CoversKept
    <3> QED
      BY <3>2, <3>3
  <2> QED
    BY <2>4 DEF PaidCovered
<1>2. ASSUME UNCHANGED paidUnits
      PROVE  PaidCovered'
  BY <1>2, <1>c, CoveredKept
<1>3. ASSUME NEW o \in Orders, FloorCommit(o)
      PROVE  PaidCovered'
  <2>1. \A x \in Orders : paidUnits'[x] > 0 => paidUnits[x] > 0
    BY <1>3, <1>r DEF FloorCommit, RowsTyped
  <2> QED
    BY <1>c, <2>1, CoveredKept
<1>4. CASE CheckoutStep
  BY <1>1, <1>2, <1>4 DEF CheckoutStep, BillRead, Abort, CloseCommit, SplitCommit, MarkShare, orderRows
<1>5. CASE FloorStep
  BY <1>2, <1>3, <1>5 DEF FloorStep, EditQuantity, RemoveLine, VoidRead, VoidWrite, FloorAbort,
     StatusRead, StatusWrite, SignalWrite, SignalRead, orderRows
<1>6. CASE CreateStep \/ RelocateStep \/ RefundStep \/ UNCHANGED vars
  BY <1>2, <1>6 DEF CreateStep, CreateAbort, CreateBegin, CreateCommit, RelocateStep, RelocateRead,
     RelocateCommit, RefundStep, Refund, vars, orderRows
<1> QED
  BY <1>4, <1>5, <1>6 DEF Next

LEMMA CloseHasReadStep ==
  ASSUME LifeInv, CloseHasRead, [Next]_vars
  PROVE  CloseHasRead'
<1>r. RowsTyped
  BY DEF LifeInv
<1>1. ASSUME \A t \in Tables : tx'[t] = tx[t] \/ tx'[t] = NoTx
      PROVE  CloseHasRead'
  BY <1>1 DEF CloseHasRead, NoTx
<1>2. ASSUME NEW t \in Tables, NEW op \in Ops, BillRead(t, op)
      PROVE  CloseHasRead'
  BY <1>2, <1>r DEF BillRead, CloseHasRead, RowsTyped
<1>3. ASSUME NEW s \in Tables, NEW t \in Tables, RelocateRead(s, t)
      PROVE  CloseHasRead'
  BY <1>3, <1>r DEF RelocateRead, CloseHasRead, RowsTyped, NoTx
<1>4. CASE CheckoutStep
  BY <1>1, <1>2, <1>4 DEF CheckoutStep, Abort, CloseCommit, ItemsCommit, SplitCommit, MarkShare, Release
<1>5. CASE RelocateStep
  BY <1>1, <1>3, <1>5 DEF RelocateStep, RelocateCommit, Release
<1>6. CASE FloorStep
  BY <1>1, <1>6 DEF FloorStep, EditQuantity, RemoveLine, VoidRead, VoidWrite, FloorCommit,
     FloorAbort, StatusRead, StatusWrite, SignalWrite, SignalRead
<1>7. CASE CreateStep \/ RefundStep \/ UNCHANGED vars
  BY <1>1, <1>7 DEF CreateStep, CreateAbort, CreateBegin, CreateCommit, RefundStep, Refund, vars
<1> QED
  BY <1>4, <1>5, <1>6, <1>7 DEF Next

LEMMA CloseLeavesRow ==
  ASSUME LifeInv, PaymentsTyped, CloseInv, NEW t \in Tables, CloseCommit(t), ~HasSplit(t)
  PROVE  \E i \in DOMAIN payments' : payments'[i].covers \cap tx[t].seen # {}
<1>r. RowsTyped
  BY DEF LifeInv
<1>1. CASE ClosePays(t)
  <2>1. /\ Len(payments) + 1 \in DOMAIN payments'
        /\ payments'[Len(payments) + 1] = NewPayment("close", t, Bill(t), tx[t].seen)
    BY <1>1, AppendKeepsCovers DEF ClosePays
  <2>2. payments'[Len(payments) + 1].covers = tx[t].seen
    BY <2>1 DEF NewPayment
  <2>3. tx[t].seen # {}
    BY <1>1 DEF ClosePays, CloseInv, CloseHasRead
  <2> QED
    BY <2>1, <2>2, <2>3
<1>2. CASE CloseFindsPaid(t)
  <2>1. tx[t].seen \subseteq Orders /\ IsFiniteSet(tx[t].seen)
    BY <1>r, OrdersAssumption, FS_Subset DEF RowsTyped, Transaction
  <2>2. PaidOf(t) > 0
    BY <1>2, <1>r, BillNat DEF CloseFindsPaid
  <2>3. \E o \in tx[t].seen : paidUnits[o] # 0
    <3>1. SUFFICES ASSUME \A o \in tx[t].seen : paidUnits[o] = 0
                   PROVE  FALSE
      OBVIOUS
    <3>2. PaidOf(t) = Cardinality(tx[t].seen) * 0
      BY <2>1, <3>1, SumConstant DEF PaidOf, Total
    <3> QED
      BY <2>1, <2>2, <3>2, FS_CardinalityType
  <2>4. PICK o \in tx[t].seen : paidUnits[o] > 0
    BY <2>1, <2>3, <1>r, BoundsAssumption DEF RowsTyped
  <2>5. PICK i \in DOMAIN payments : o \in payments[i].covers
    BY <2>1, <2>4 DEF CloseInv, PaidCovered
  <2>6. CoversKept
    BY <1>2, FieldKeepsCovers DEF CloseFindsPaid, PaymentsAt
  <2> QED
    BY <2>4, <2>5, <2>6 DEF CoversKept
<1>3. CASE CloseFindsShares(t)
  BY <1>3 DEF CloseFindsShares
<1> QED
  BY <1>1, <1>2, <1>3 DEF CloseCommit

\* A closing leaves a row of payments for an order that it read, whatever voids,
\* edits and relocations came between: only a table with a split, of these or
\* of earlier guests, can do without (closeTable).
THEOREM ClosingsLeaveRows == Spec => ClosingsExplained
<1>1. Init => CloseInv
  BY DEF Init, CloseInv, PaidCovered, CloseHasRead, NoTx
<1>2. LifeInv /\ PayInv /\ CloseInv /\ [Next]_vars => CloseInv'
  BY PaidCoveredStep, CloseHasReadStep DEF CloseInv, PayInv
<1>3. LifeInv /\ PayInv /\ CloseInv /\ [Next]_vars
        => [\A t \in Tables : CloseCommit(t) =>
              HasSplit(t) \/ \E i \in DOMAIN payments' : payments'[i].covers \cap tx[t].seen # {}]_vars
  BY CloseLeavesRow DEF PayInv
<1> QED
  BY <1>1, <1>2, <1>3, LifeHolds, PaymentsHold, PTL DEF Spec, ClosingsExplained
=============================================================================

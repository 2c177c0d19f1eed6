# TLA+ verification of GustoPOS

GustoPOS is a point-of-sale system for restaurants: a NestJS API over
PostgreSQL (`src/apps/api`), a React application (`src/apps/web`), and a Go
agent on the restaurant's machines that prints tickets and drives fiscal
printers (`src/apps/print-agent-go`). This directory holds TLA+ models of the
parts of it that run concurrently, the TLC configurations that check them and
the theorems that TLAPS proves about them.

API handlers run against PostgreSQL at READ COMMITTED, billing requests in one
transaction (`withTenantTx`, `src/apps/api/src/db/client.ts`), reports of agents
statement by statement: a statement sees what was
committed when it started, an `UPDATE ... WHERE` re-evaluates its condition on
the row it locked, and nothing else protects a value that was read earlier. One
statement is therefore the unit of atomicity of every model here; a handler
that reads and then writes is one step only if a row lock covers both.

## Inventory

| Component | State | Operations | What is hard |
|---|---|---|---|
| **Print queue**: `print-jobs.repository.ts`, `print-bridge.repository.ts`, `agent.go`, `BridgeWorker.tsx`, `print-station.html` | rows of `print_jobs` (status, owner columns, times), `print_bridges` (areas), batches in agents' memory | create, claim (reclaim + select + update), complete, fail, poll, manual dispatch, confirm, retry, delete/assign bridge | competing claims, reclaim against slow agents, lost reports, owner checked before it is used, three ways of handing out a row |
| **Table billing**: `tables.repository.ts`, `payments.repository.ts`, order edits in `app.repository.ts` | `tables`, `orders`, `order_items`, `payments`, `payment_items` | close, split, pay items, pay a share, transfer, merge, suspend, resume, refund; create, edit, void an order | table lock taken by checkout only; order edits take another lock; reads before the lock |
| **Fiscal jobs**: `fiscal-bridge.repository.ts`, `fiscal.go` | `fiscal_jobs` rows, payment's fiscal status | enqueue, claim, complete, fail, reclaim | emission cannot be undone; reclaim after a lost report |
| **Bridge commands and the agent's process**: `print-bridge.repository.ts`, `agent.go`, `main.go`, `updater.go` | `print_bridges.command`, `lastCommandID` and loops of the agent, the staged update | issue, deliver by heartbeat, execute, acknowledge; restart, update | acknowledgement racing a newer command, restart of the agent, a second loop beside the first |
| **Stock**: `inventory.repository.ts`, `suppliers.repository.ts`, `app.repository.ts` | quantities of `inventory` and `prep_items`, `stock_movements`, `order_stock_impacts`, purchase orders and receipts | deduct on creation, correct on edit, give back on void; count, adjust, produce; order and receive | given back twice or never, a count over a sale, receipts that do not see each other |
| **Order requests**: `client.ts`, `app-store.ts`, `POSView.tsx`, `idempotency.middleware.ts`, `createOrder` | carts, the key of each, the offline queue; lock and cached answers in Redis | send, resend, replay; acquire, run the handler, cache, release | aborted request against a handler still running, lost answers, expiry, restart |
| **Order status**: `order-status-policy.ts`, `updateOrder` | `orders.status` | transitions of kitchen, cashier | check and update are separate statements |
| **Group orders, takeaway**: `app.repository.ts` | shared carts, slots | join, add, submit | submit racing changes |
| Pairing, authentication, push, realtime, back office, tenants, web views | – | – | not modelled: see the last section |

Interaction: creating or closing an order inserts print jobs and fiscal jobs
(fire and forget); agents poll the API over HTTP and never get a push; the web
application calls the same handlers, and its BridgeWorker is an agent too. All
components meet only in database rows.

What makes each correct:

- *Print queue*: one copy per hand-out, nothing closed that is not on paper,
  every claimable row is eventually completed or failed, owner columns agree.
- *Billing*: no item is paid by two requests, an open order keeps its table occupied, the
  money recorded for a table follows what its orders cost, refunds never exceed
  the payment, concurrent checkouts of one table serialize.
- *Fiscal*: no second receipt for one close without a mishap that explains it; a
  payment marked emitted has a receipt; outcomes are final; every job gets one.
- *Commands*: a loop of the agent executes a command once, none is erased
  unseen, and every one is executed in the end.
- *Stock*: what an order of the recipe has taken is what its impacts say, a void
  gives it back once, movements and audits explain quantities, a complete delivery
  is recorded.
- *Order requests*: two requests with one key create one order, a cart becomes
  one order, and no cart disappears without its order.

## Plan

1. `TicketDelivery` (abstract), `PrintQueue` (detailed, implements it),
   `PrintQueueProofs`, `PrintQueueDelivers`: print jobs and everything that writes
   them.
2. `TableBilling` and `TableBillingProofs`: checkout and relocation under the
   table lock, and the requests of the floor that do not take it.
3. `CertifiedReceipts` (abstract), `FiscalQueue` (detailed, implements it) and
   `FiscalQueueProofs`: jobs that drive a device whose work cannot be undone, and
   reports that can be lost.
4. `PlacedOrders` (abstract), `OrderRequests` (detailed, implements it) and
   `OrderRequestsProofs`: from the cart on the screen through the idempotency lock
   to the order, and back.
5. `Stock` and `StockProofs`: what orders take from stock and give back, beside
   the back office and the deliveries.
6. `BridgeControl` and `BridgeControlProofs`: commands to an agent, and the
   supervisor and updater its loops live under.

`MC*.tla` give each the constants of its runs. What would come next: group orders
and self-order, pairing, and a module in which ticket and fiscal claims share the
agent's single loop.

Every module takes its sets and bounds as CONSTANTS with named assumptions, has
one action per operation, and uses no RECURSIVE operator. `SumLemmas` has what the
proofs need to know of sums.

## Print queue

`PrintQueue.tla` models the rows of `print_jobs` and everything that writes
them.

| Model | Code |
|---|---|
| `status`, `bridgeId`, `claimedBy`, `claimedAt`, `dispatchedAt` | columns of `print_jobs`; `claimedAt` is kept relative to *now − 5 min* (`none`, `fresh`, `stale`) and `Age` is the passing of time |
| `registered`, `queueAreas` | rows of `print_bridges` and the areas they may claim |
| `BeginClaim`, then `TakeClaim`, `EmptyClaim` or `ClaimReplyLost` | `claimPrintJobsForBridge`: the reclaim UPDATE, then the `FOR UPDATE SKIP LOCKED` selection with its UPDATE; any subset of the candidates up to the limit may be left to others |
| `AgentPrint`, `AgentFail`, `AgentDefer`, `AgentCrash` | `processJob` of the Go agent and `printAndComplete` of the browser |
| `CheckCall`, `ApplyCall`, `LoseCall`, `BrowserCompleteThrows` | a complete or fail request: the owner SELECT, the UPDATE by id, and the ways to lose it |
| `StationPoll`, `StationPrint`, `StationFail`, … | the print-station page and `pollPrintJobs` |
| `FailJob`, `CompleteJob`, `ConfirmJob`, `RetryJob`, `DispatchSend`/`DispatchWrite`/`DispatchLost` | commands of the Settings page |
| `DeleteBridge`, `RegisterBridge`, `AssignAreas` | bridge administration |

History variables (`round`, `copies`, `vouched`, `faults`) record what the
properties are about: `round[j]` counts how often the row became pending, and
the pair ⟨row, round⟩ is one hand-out. A manual dispatch or an operator's
"done" is recorded in `vouched`, not in `copies`: the paper is the operator's
business there. The Go agent gives a call up after 15 seconds while the server
may still be handling it: the model's agent goes on with its next ticket while
its call is in `calls`. An agent that has not reported after five minutes
counts as a fault, and so does every crash, loss or deferral (`MaxFaults`).

`TicketDelivery.tla` says what the kitchen is promised without queue, bridges
or calls. `KeepsDelivery` is that promise under the mapping *asked = round of
an inserted row, closed = completed rows*.

### Runs

| Run | Instance | Shows |
|---|---|---|
| `print_agents` | 2 rows, 1 bridge shared by a Go agent and a browser, 2 rounds, 1 fault, fair agents | `TypeOK`, `OneCopyPerRound`, `CompletedOnPaper`, `QueueDrains` |
| `print_operators` | 1 row, 1 agent, station page, all commands on the row, the bridge deleted, registered and given other areas, 2 rounds, 1 fault | `EveryDispatchDated`, `OwnerColumnsAgree`, the refinement `KeepsDelivery` |

Two rows suffice for one agent to hold a batch while another claims; two agents
for every race between claimants, and a third adds only a renaming; two rounds
give a stale reporter and a new owner. `MaxRound` bounds `Requeue`: a row in its
last round is neither reclaimed nor retried. For `QueueDrains` it must never
bite, and does not: one fault makes at most one extra round, and `print_agents`
allows three.

Deadlock checking is off: the queue stops when every row is closed and nobody
inserts one.

Fairness (`FairSpec`): the agent's loop keeps claiming and works through its
batch (`Run` in `agent.go`, a ticker and a single select loop), PostgreSQL
answers calls, and the clock runs. No fairness is given to operators, the
station page, faults or row insertion.

Seen and not claimed: `completeBridgeJob` and `failBridgeJob` check the owner in
a SELECT and then update by id alone, so a report delayed between the two is
applied to another agent's claim. `CompletedOnPaper` shows that no ticket is
lost by that: the earlier agent did print it. And `testPrintFromBridge` binds a test ticket to a bridge for
any area, although the comment above the lookup says the bridge has claimed it;
such a ticket stays pending.

## Table billing

`TableBilling.tla` models the rows of `orders`, `order_items`, `payments`,
`payment_items` and `tables` that make up a bill, and every transaction that
changes them.

| Model | Code |
|---|---|
| `orderTable`, `orderStatus`, `qty` | `orders` and its line; *open* is any status but paid and cancelled |
| `paidUnits` | sum of `payment_items.quantity` of a line |
| `payments` | `payments` rows: type of the request that made them, state, share index; `covers` and `bill` are history |
| `tableStatus` | `tables.status` |
| `tx[t]` | the transaction that holds the row lock of table `t`, with what it has read: `SELECT ... FOR UPDATE` at the start of every checkout |
| `creating[o]` | `createOrder` between its update of the tables row and its commit: it holds that lock too, and its order is not visible |
| `floor[o]` | a request about an order that does not lock the table |
| `signal[t]` | the status that a suspend or resume is about to write |
| `BillRead`, then `CloseCommit`, `SplitCommit`, `ItemsCommit` or `Abort` | `closeTable`, persisted `splitBill`, `paySelectedItems` |
| `ClosePays`, `CloseFindsPaid`, `CloseFindsShares` | the three ways `closeTable` goes on |
| `MarkShare` | `markShareAsPaid`, one step: the table lock covers all it reads |
| `Refund` | `refundPayment`, one step: the row lock of the payment covers it |
| `RelocateRead`, `RelocateCommit` | `transferTable` and `mergeTable`, which share `relocateOpenOrdersAndPayments` |
| `EditQuantity` | `updateOrderItemQuantity` above zero, under the order's row lock |
| `RemoveLine`, then `FloorCommit` | the same with quantity zero: delete the line, cancel the order, perhaps free the table |
| `VoidRead`, `VoidWrite`, `FloorCommit` | `voidOrder`, which reads the order without a lock |
| `StatusRead`, `StatusWrite` | `updateOrder` |
| `SignalRead`, `SignalWrite` | `suspendTable`, `resumeTable` |
| `Settle` | "orders paid, table free", the end of a close, of the last share and of the last payment by item |

`covers` (the orders a payment was made for), `bill`, `peak` (the most units a line
ever had), `doubled` (orders whose line one request named twice), `freedByFloor`
(tables that a void, a line removal or a resume freed) and `reopened` (orders that a
status change took from paid or cancelled back to open) are history: no guard reads
them.

Why one table row decides what is atomic: `closeTable`, `splitBill`,
`paySelectedItems`, `markShareAsPaid` and the relocations lock it first, and
`createOrder` updates it, so these are serialized per table. They read the bill
before they lock the orders, however, and the requests of the floor lock at most
an order: between `BillRead` and its commit quantities change, lines disappear
and orders are cancelled.

Abstractions. An order has one line at unit price one, so `qty` is also
`orders.total`; the arithmetic of prices is in shares and sums only. A payment
of a close or by item is captured at once (cash given and card terminals are
left out), as are discounts and surcharges. A request to pay items may name a line
twice: each entry is checked alone against what earlier requests paid, as
`paySelectedItems` does, and two entries stand for any number of them. Left out
entirely: `currentOrderId`, zones, renaming and deleting
tables, reservations and virtual tables. The query for the table's last payment
has no ORDER BY, so `CloseFindsPaid` picks any payment. `makeShares` divides in
floating point and may round one cent below an exact quotient, which `Shares`
allows. Deadlocks between a checkout and a request of the floor are resolved by
PostgreSQL: they are `Abort` and `FloorAbort`.

### Runs

| Run | Instance | Shows |
|---|---|---|
| `billing_checkout` | 2 tables, 2 orders, quantities to 2, 3 payments, 2 requests at once; all checkouts, lines named once or twice by a payment, relocation, refunds, edits | `TypeOK`, `UnitsPaidOnce`, `SharesAddUp`, `ClosingsExplained` |
| `billing_floor` | 2 tables, 2 orders of one unit, 2 payments, 2 requests at once; closes, item payments and relocations against edits, voids, status changes, suspend, resume | `UnitsPaidOnce`, `ClosingsExplained`, `PaymentsFollowOrders`, `CheckoutKeepsTables`, `PaidUnlessStale` |
| `billing_split` | 1 table, 2 orders, 2 payments; closes and splits | **violated** `ClosingRecorded` |
| `billing_final` | 1 table, 2 orders; closes, voids, status changes | **violated** `PaidIsFinal` |
| `billing_void` | 1 table, 2 orders; voids and line removals | **violated** `OpenOrdersHoldTable` |

Bounds: `MaxPeople` is 2, the least a split allows and enough for "some shares
are paid, the last is not"; `MaxPayments` 3 lets two payments by item or a split
be followed by a close or a refund; `MaxRequests` is the number of transactions
under way at once, two for every race of a pair. Two orders let a table keep one
while the other moves, closes or is cancelled. Tables and orders are
interchangeable (no property names one), so the symmetry is sound.

A status change may reopen a paid order (the second finding below), after which an
open order is at a table that checkout freed rightly, and the payment for it may
have been left behind, since a relocation only moves the payments of open orders.
The properties about open orders therefore leave out what was `reopened`, and
hold beside all operations, status changes included. Deadlock checking is off:
everything stops when all orders are inserted and closed and no payment may be
added.

### Findings

- `ClosingRecorded`: `closeTable` looks for shares among all payments the table
  ever had. Once a split has been paid, every later bill of that table is closed
  without a payment row, while the repository's README promises one for every
  closing.
- `PaidIsFinal`: `updateOrder` and `voidOrder` check a status they read before
  and update by id alone. A checkout in between is overwritten: the paid order
  is open or cancelled.
- `OpenOrdersHoldTable`: voiding an order or removing its last line looks for
  other open orders without the table's lock. An order being created is not
  visible yet, and its table is freed after it was inserted.

Seen and not claimed, because nothing in the repository says otherwise: a close
charges the bill as it was read, not as it is at commit; when everything was paid
by item, a close writes the total of the bill into one of the payments and leaves
the others, so that two units paid in two payments are on record as three; the
last share also settles orders made after the split; two voids of a table's last orders each see
the other order and leave the table occupied; `paySelectedItems` compares sums
over all lines, so a removed line's units count against the others, and a request
that names a line twice pays the line's units twice (nothing in
`payment.schema.ts` forbids it), which `UnitsPaidOnce` leaves out by name
(`doubled`).

## Fiscal jobs

`FiscalQueue.tla` models the rows of `fiscal_jobs`, the agents of the cashier
area that carry them out on the fiscal printer, and the fiscal status of the
payments the receipts are for.

| Model | Code |
|---|---|
| `status`, `bridgeId`, `claimedBy`, `dispatchedAt` | columns of `fiscal_jobs`; `dispatchedAt` is kept relative to *now - 5 min*, and `Age` is the passing of time |
| `payment`, `asked`, `enqueueing` | `payments.fiscal_status`; the payment a receipt's close named; closes that are committed and whose job `enqueueFiscalReceiptJob` has not inserted yet |
| `enabled`, `registered`, `cashier` | the printer toggle, rows of `print_bridges`, and which of them claim the cashier area |
| `knows` | the same as an agent's last heartbeat told it (`applyHeartbeatConfig`) |
| `CloseTable`, `EnqueueReceipt`, `EnqueueLost`, `RequestJob` | `closeTable` with `fiscalEmit` and its fire-and-forget enqueue; the test and chiusura requests |
| `BeginClaim`, then `TakeClaim`, `EmptyClaim` or `ClaimReplyLost` | `claimFiscalOnce` and `fiscalBridgeClaim`: gates and `reclaimStaleFiscalClaims`, then the `SKIP LOCKED` transaction |
| `Emit`, `EmitErrs`, `Refuse` | `processFiscalJob`: carried out and reported, a command that erred (after or before the device obeyed), a receipt with the toggle off |
| `AgentCrash`, `Timeout`, `LoseCall` | the process or its watchdog, the 15 seconds of the HTTP client, a lost request or a failed statement |
| `CheckCall`, `ApplyJob`, `ApplyPayment` | `completeFiscalJob`, `failFiscalJob`: the owner SELECT, the UPDATE by id, the UPDATE of the payment |
| `SwitchPrinter`, `AssignCashier`, `DeleteBridge`, `RegisterBridge` | the settings pages, the foreign key of `bridge_id`, the heartbeat after a pairing |

A close with `fiscalEmit` asks for a receipt whichever branch it takes. Where the bill
was paid by guests or by item before, it names a payment that was there already, and
nothing looks for a job that this payment had. So a payment may be asked for several
times, and each time is a job and a receipt of its own: `CloseTable(j, p)` leaves that
open, and the properties count receipts per close, not per payment. A second receipt
in the name of one payment is no mishap here; a second receipt for one close is.

`receipts[j]` counts how often the device carried a job out; `mishaps[j]` counts
the faults that hit it: a lost claim answer or report, a crash, a timeout, a
batch that takes over five minutes, a bridge deleted under it. `MaxFaults`
bounds mishaps in total, and nothing else is bounded: a job may go round the
queue as often as the code lets it, so liveness does not hinge on a bound. Counts
of receipts beyond `MaxFaults + 2`, and of tests and closes beyond one, are not told
apart. `TestJobs` names the jobs that may be tests or closes; every job may be a
receipt.

Abstractions. A claim takes any part of the candidates (the limit of five and
`SKIP LOCKED` leave some); a job is one carrying-out on the device, whatever its
commands. An agent has one bridge id for life; the device's configuration other
than the toggle is taken as given. A fiscal agent's ticket claims are not in this
module.

`CertifiedReceipts.tla` says what a till is promised, without queue, agents or
reports: one receipt per close that asks and one more per mishap, nothing concluded
or shown as emitted without paper, and what is concluded stays so. `KeepsReceipts` is
that promise under the mapping *requests = receipt jobs, asked = the payment each
names, printed = what came out of the device, outcome = the job's status once it is
settled, shown = the payment's*.

### Runs

| Run | Instance | Shows |
|---|---|---|
| `fiscal_receipts` | 2 jobs, a receipt and a close or two receipts for 1 payment, 1 agent, 1 bridge that is deleted, registered and given or refused the cashier area, toggle switched, 1 fault, fair agent | `TypeOK`, `ReceiptsExplained`, `EmittedIsReal`, `OwnersReleased`, `SettledForGood`, the refinement `KeepsReceipts`, `ReceiptsSettle` |
| `fiscal_closes` | 1 close, 1 agent, no faults, fair agents | **violated** `ClosesSettle` |

The agent that claims a job again after a crash, a timeout or a reclaim is the
second party of every race about it: its late report meets its own new claim. The
second job gives the batch a second member, or the payment a second receipt. One fault is a lost claim, a crash, a late
or lost report, or a batch of more than five minutes; the theorems below cover any
number of faults, agents and bridges. Deadlock checking is off: the queue stops
when every job has an outcome.

Fairness (`FairSpec`): the agent's ticker and loop (`Run` in `agent.go`), calls
being handled, the clock, and the enqueue of a committed close. None is given to
faults, heartbeats or administrators. The selection of a claim has no ORDER BY, so
a claim may pass over a job; strong fairness of the claims that take it says that
not all of them do, as the limit of five is more than waits at one cashier at a
time. `ReceiptsSettle` is claimed for histories
in which some agent is, from some time on, assigned the cashier area and knows
it (`Staffed`); without one nobody may claim.

### Findings

- `ClosesSettle`: the agent completes a test or a chiusura with an empty
  progressive number, and the request schema wants at least one character. The
  completion is always refused, the job stays dispatched, and five minutes later
  it is reclaimed and the device closes the day again.

Seen and not claimed: with the printer switched off between close and enqueue,
or a failed insert, a payment stays *pending* without a job; a late complete and
a later fail may leave a failed job with an emitted payment (the code calls the
payment a side table); `agent.go` says a slow device never delays tickets, and
handles both in one loop; a close that finds its bill paid asks for a receipt in the
name of an earlier payment, which then has two (see above), and leaves that payment's
fiscal status as it was until the job ends.

## Order requests

`OrderRequests.tla` follows an order from the cart on the screen through the
idempotency middleware to the order's commit, and the answer back.

| Model | Code |
|---|---|
| `shown`, `cart`, `moduleOn` | `cartContextKey` and `cartStore` of the store; whether the tab believes that the kitchen module is on |
| `pendingKey`, `minted` | `pendingOrderKeys` of `client.ts`: the key kept for a payload until the server has answered |
| `queue`, `replaying` | `offlineQueue`, and the entries a replay took out of it |
| `requests` | requests on the wire, in the middleware, in the handler or answered |
| `lock`, `cached` | the `lockKey` (`SET NX EX 120`) and the answer under the `responseKey` |
| `Send`, `SendBlocked`, `StartReplay`, `Replay`, `ReplayBlocked`, `Show`, `SyncModules` | `handleSendToKitchen`, `enqueueBlockedAction`, `replayOfflineQueue`, `setCartContext`, the session's refresh |
| `Accepted`, `AcceptedNotCleared`, `Rejected`, `RefreshAndResend`, `NetworkError`, `GatewayError` | what `client.ts` and the store do with each outcome; a network error keeps the key, every answer drops it |
| `EditCart`, `Reload` | a cart that changes has another fingerprint, and no key yet; a reload of the tab keeps the carts (`partialize`) and loses keys, queue and calls, which are in memory |
| `TryLock`, `AnswerTaken`, `Release` in `Finish`, `Abort` | `IdempotencyMiddleware.use`: the lock and the listeners attached after it, the cached answer or 409, finish and close of the response |
| `Refuse`, `Commit`, `Succeed`, `RefuseAfterCommit`, `ErrorAfterCommit` | the handler of `POST /api/orders` |
| `Restart`, `Expire` | the API's process ends with locks in Redis; 120 seconds pass |

The history variables say what went wrong with a key: `broken` (its lock was
released under a handler, expired, or given back after the commit), `dropped`
(the keys the browser gave up although they had an order or soon would), `blocked`
(the order was queued and the cart stayed on the screen), `wiped` (a cart was
cleared by the answer for another), `left` (a restart left the lock, or the connection
had closed before the middleware listened to it). The properties claim one order per
key and per cart *but for* these: within the model there is no other way to a second
order, a lost one or a retry refused for nothing. `dropped` is a set of keys, recorded
when the browser gives one up, be it at an answer, at an edit of the cart (the order of
the old payload may exist or come, and the cart of the new one is another order) or in
a reload, after which the cart is there and its key is not. At an answer it need not be
the key of that answer: a late answer for an older key of the cart deletes
the entry of the key that has taken its place (`pendingOrderKeys` is kept by
payload, `client.ts:1554`), and it is that younger key which is then given up. The
cause was found by the proof of `OneOrderPerCart`, since five requests for one cart
are needed to see it.

`PlacedOrders.tla` is what a waiter may rely on, without keys, locks or retries: a
cart has an order placed when it has no more of them than mishaps, it is cleared
once it has one, and otherwise only when it is confused with a cart that has.
`OrderRequests` implements it with the orders of a cart summed over its keys, the
mishaps of a cart the sum of `broken` over its keys, its keys in `dropped` and
`blocked` (a reload may strike several carts at once, hence `GoWrong(S)`), and the carts in `cleared` those that the store has cleared. `PlacesOrders`
spells out the specification of `PlacedOrders` with one more disjunct, that the
variables the mapping reads (`counted`) stay as they are: such a step stutters, and
TLC need not evaluate the sums to see it. The two are the same formula; the
direction that matters, that `PlacesOrders` implies the specification, is the
corollary `PlacesOrdersIsPromise`.

| Run | Instance | Shows |
|---|---|---|
| `order_requests` | 2 carts, of which one is sent up to 3 times and queued up to twice, 1 fault | `TypeOK`, `OneOrderPerKey`, `OneOrderPerCart`, `ClearedCartsAreOrders`, `RetriesAreNotPoisoned`, and the refinement `PlacesOrders` |

Three requests are a first one, a retry and a replay; the second cart is there to
be on the screen at the wrong time, and keys of different carts never meet. One
fault of seven kinds, reloads among them, already gives each of the causes above (a
reload loses the answers under way by itself); the theorems cover any number. Redis carries out the commands of the API's single connection in the order
they were issued, so what the middleware does when an answer is finished is one
step with it. Deadlock checking is off: everything stops when all requests are
sent and answered.

Abstractions. A cart is identified with its payload, and an edited cart goes on under
the same name with a new key. An entry of the offline queue keeps the payload it was
made with, and a cart is not edited while it has one or while its own request is under
way: what is added in that time is outside the model, and so is editing a cart back to
a payload that was sent before. The browser keeps at most 20 keys and drops the oldest:
this is left out, and it would be one more way to lose a key.

Seen and not claimed: the comment at the key says "one key per logical order
action", which the causes above break; the repository's text promises the rule
for the keys only, and for these it holds. The middleware's comment says that "a
failed, unauthorized or aborted request must not poison a retry" (lines 100-101): its
listeners are attached after the awaited `SET`, so a request whose connection closed by
then is not noticed, and its lock refuses retries for 120 seconds.
`RetriesAreNotPoisoned` has that case, and the restart, in `left`.

## Stock

`Stock.tla` models quantities of ingredients (`inventory`) and of prepared items
(`prep_items`), and everything that changes them.

| Model | Code |
|---|---|
| `quantity` | `inventory.quantity`, `prep_items.stock_quantity` |
| `recipe`, `tracked` | `menu_item_components` of the dish; `isStockTrackingEnabled` and `is_stock_tracked` |
| `impacts` | `order_stock_impacts` |
| `poStatus`, `link`, `received` | `purchase_orders`, the inventory row of each line, the sum of a line's `goods_receipt_items` |
| `request[s]` | a request under way, with what it has read |
| `CreateOrder` | `createOrder`: locks, the shortage check over all that is taken, movements, impacts of the recipe |
| `EditQuantity` | `updateOrderItemQuantity` under the order's lock: impacts scaled by the portion, replaced, the difference moved; with the last line the order is cancelled |
| `VoidRead`, `VoidCommit` | `voidOrder`: reads order and impacts, gives them back and cancels whatever the order has become |
| `StatusRead`, `StatusWrite` | `updateOrder` with the policy of `order-status-policy.ts`; the kitchen's statuses are one, *open* |
| `CountRead`, `CountWrite`, `CountAudit` | `updateInventoryItem` with a quantity: the row is read for the audit, the count written over it, the audit inserted, each in a statement of its own |
| `Adjust`, `Prepare` | `adjustInventoryItem`, `preparePrepItem`, one step each under row locks |
| `POStatusRead`, `POStatusWrite` | `updatePurchaseOrderStatus`: the transition is checked, then written by id |
| `ReceiptRead`, `ReceiptTally`, `ReceiptCommit` | `createGoodsReceipt`: the status is read, the inventory rows of its own entries are locked (`Held`) and all lines of the order summed, then stock, receipt and status are committed |
| `Fail` | a request ends without its commit (`withTenantTx` rolls back); a count that is written stays without its audit |

`booked` and `net` are the books that the movement rows and audits amount to.
`crossed`, `overwritten` and `poCrossed` name the rows that a request hit which
had read them before, `unaudited` the items whose count failed before its audit, and
`altered` the orders whose line leaves something out or adds to the recipe. The
properties hold for all others, so every way to spoil the books is one of these.

**The code disagrees with its documents about altered orders.** The comment at
`order_stock_impacts` (`schema.ts:1233`) calls a row "Immutable stock effect captured
when an order is created", and `docs/compose/plans/2026-08-03-franks-inventory-hard-cut.md`
says that "The order stores only the actual consumed stock effects" (line 181) and
"Restore exactly those impacts on cancellation" (line 753). `createOrder` stores the
effects of the recipe alone (`canonicalImpactRows`, `app.repository.ts:4293-4314`),
while what it takes follows modifiers, additions and formulas as well. So a void does
not give back what was added, and gives back what was left out and never taken, and an
edit of the quantity scales only the recipe's part. `BooksBalance` is claimed for
orders of the recipe as it is; `altered` names the others, for which it fails as soon as
they are created.

A receipt's locks do not cover the sum it decides by: it locks the inventory rows of its
own entries and sums over all lines. Receipts of different lines, or of lines without an
inventory row, each miss the other's rows until they commit, and a delivery that is
complete may be left *partial_received*; `poCrossed` has these sums.

| Run | Instance | Shows |
|---|---|---|
| `stock` | 1 ingredient, 1 prep made of it, 1 dish with any recipe, 1 order of up to 2 portions, 1 purchase order of 2 lines for one unit each, 2 requests at a time, 2 acts of the back office | `TypeOK`, `BooksBalance`, `ReturnedIsCancelled`, `LedgerExplains`, `DeliveredIsReceived` |

Orders share nothing but quantities, which the back office also changes, so one
order with two requests about it has every race. Two acts are two receipts, a
count and a recipe change, a status change and a payment against it, and so on.
Requests are interchangeable, and so are the two lines, hence the symmetry. Two lines
are what it takes for receipts to miss each other; a receipt brings at most what was
ordered of a line (`MaxArrival`). Deadlock checking is off:
everything stops when the order is closed and the acts are used up.

Abstractions: a portion takes one unit of each item of the recipe (quantities are
`numeric(14,6)` in the code and their rounding is left out), there is one dish and
an order has one line. A shortage or a refused request leaves no trace
and is no step; a deadlock is `Fail`, or no step where the request is one. A count may be audited against a quantity that is out of date,
which `LedgerExplains` leaves to `overwritten`.

Seen and not claimed: cancelling by a status change gives nothing back; a goods receipt asks for no status of its purchase order, so a cancelled one
becomes partially received, although `state-machines.ts` states its transitions.

## Bridge commands

`BridgeControl.tla` models the one command a bridge's row can hold, the loops of
the Go agent that carry it out, and the supervisor and updater around them.

| Model | Code |
|---|---|
| `command` | `print_bridges.command` |
| `loops`, `started` | runs of `Run` in `agent.go`; the last one started is the supervisor's current agent |
| `last`, `beat`, `task` | `lastCommandID`, the heartbeat a loop waits for, the goroutine of a command |
| `staged`, `handed`, `newer`, `attempts` | `updateStaged`, the channel `updateReady`, the running and the installed program, the count in `.update-attempt.json` |
| `recent` | whether the time in that file is less than an hour ago |
| `GiveCommand` | the scan, test-print and update requests: an unconditional UPDATE |
| `SendHeartbeat`, `AnswerHeartbeat`, `LoseHeartbeat`, `TakeAnswer` | the heartbeat, `getBridgeCommand`, `maybeExecuteCommand` |
| `Execute`, `UpdateCommand`, `Panic` | `executeCommand` |
| `Acknowledge`, `Clear`, `LoseAcknowledgement` | `clearBridgeCommand`: its SELECT and its UPDATE by bridge |
| `CheckForUpdate`, `WindowPasses` | `checkForUpdate` and `shouldSkipUpdateAttempt`: the hour passes and the count stays, so from the second attempt on there is one per hour |
| `LoopFails`, `Relaunch`, `LaunchUpdate`, `LaunchFails` | `main.go`: a loop that ends, the watchdog or the dashboard, the hand-over to the updater and its failure |

| Run | Instance | Shows |
|---|---|---|
| `bridge_control` | a test print and an update, 2 loops, 1 fault | `TypeOK`, `RunsOncePerLoop`, `NoCommandDropped`, `CommandsArrive` |

Two commands let one replace the other and an acknowledgement of the first erase
the second; a second loop is that of a restart, an update, a failed loop, or the
one beside a loop that was never stopped. A loop is only started while `MaxLoops`
allows, so the current loop never ends without a successor and `CommandsArrive`
does not hinge on the bound.

Fairness (`FairSpec`): a running loop sends heartbeats (its ticker), and not all
of their answers are lost: strong fairness of the answer and of taking it, since a
loss may come at any time. None is given to executions, acknowledgements, faults
or administrators.

Abstractions: one release; the instants between an update's download and its
`updateStaged` flag; the relaunch guard (five in ten minutes), which `MaxFaults`
is well below; pairing, detaching and deletion of the bridge. What a scan finds is
its report's business.

Seen and not claimed, as the wording leaves room: `agent.go` says a command is run
"exactly once (per command id)", and it is run again by the agent's next loop if
its acknowledgement was lost, the loop failed or the program was restarted before
it was cleared; after a lost acknowledgement the same loop skips the command for
good, and the column is not emptied until then. When the updater cannot be
launched, a comment in `main.go` says that this "leaves the running agent
untouched": the supervisor then starts a second loop beside it in the same
process. A failed report of a scan is acknowledged as a success.

## Proofs

`PrintQueueProofs.tla` proves, for all sets of rows, areas, bridges and agents
and all bounds (under the ASSUMEs of `PrintQueue`):

| Theorem | States | Argument |
|---|---|---|
| `TypeCorrect` | `Spec => []TypeOK` | one step per action |
| `OneCopy` | `Spec => []OneCopyPerRound` | `CopiesInv`: rounds to come have no copies and no holders, a hand-out has one holder, and while it is held it is unprinted and the row is not pending in that round |
| `NothingClosedUnprinted` | `Spec => []CompletedOnPaper` | `PaperInv`: a complete call under way belongs to a ticket that is on paper |
| `OwnersAgree` | `Spec => []OwnerColumnsAgree` | `RowInv`, kept by every way of writing the claim columns (`RowsKept`) |
| `DispatchesDated` | `Spec => []EveryDispatchDated` | `RowInv` |

`OneCopyPerRound` is not inductive: nothing in it says that a row in an agent's
hands cannot be handed out again in the same round. `CompletedOnPaper` needs
the calls under way, since a completed status is written from a call and not
from the printer.

`PrintQueueDelivers.tla` proves `QueueDelivers`, `Spec => KeepsDelivery`: the queue
implements `TicketDelivery`. Initial states map to initial states, and under
`TypeOK`, `CopiesInv`, `PaperInv` and `PresentInv` (whoever holds, reports or
dispatches a ticket has its row in the queue) every step maps to one of the
promise or to none. One lemma per abstract step says which concrete steps it
covers: a reclaim, a deleted bridge and a retry ask again (`RequeueAsks`), a print
puts out a copy that was asked for and not yet made (`PutOutStep`), a report or an
operator closes (`CloseStep`) or reopens (`ReopenStep`), and claims and polls are
not seen (`StutterStep`).

`TableBillingProofs.tla` proves, for all sets of tables and orders and all
bounds (under the ASSUMEs of `TableBilling`):

| Theorem | States | Argument |
|---|---|---|
| `TypeCorrect` | `Spec => []TypeOK` | `LifeInv`: a request finds its order inserted and at a table, an order being created is absent, a relocation holds two tables that no other relocation holds; `PayInv` for the payments, whose totals are sums |
| `SharesMakeTheBill` | `Spec => []SharesAddUp` | `PayInv`: shares refer to payments that are there, so that a new split cannot share a number with an old one, and a sum changes only with its group |
| `NoUnitPaidTwice` | `Spec => []UnitsPaidOnce` | `UnitsInv`: what a transaction has read is bounded by the largest quantity the line ever had, whatever it is now; lines named twice by one request are left out from then on |
| `PaymentsStayWithOrders` | `Spec => []PaymentsFollowOrders` | `FollowInv`: while a relocation is under way, what it has read is all that is open at its table, but for what is reopened meanwhile, and the payments for it are still there |
| `TablesKept` | `Spec => []CheckoutKeepsTables` | inductive with the types |
| `PaidStaysUnlessStale` | `Spec => PaidUnlessStale` | `RemovingOpen`: the order of a line removal under way is open, because settling waits for its row's lock |
| `ClosingsLeaveRows` | `Spec => ClosingsExplained` | `CloseInv`: an order of which something was paid by item is covered by a payment, and a close under way has read some order |

`UnitsPaidOnce` is not inductive: a selection is checked against quantities read
earlier. `PaymentsFollowOrders` is not: the payments to move are found by the
orders that were read, the orders to move by what is open at commit. Nothing is
assumed of the operations. The theorems take `Orders` to be finite, for the sums:
it stands for the orders there ever are in a history.

Sums are folds, whose general laws need an induction over sets that takes the
statement as an operator. `SumLemmas.tla` goes around it: it proves that the sum of
natural numbers *f(x)* over *S* is the cardinality of the pairs *⟨x, 1..f(x)⟩*
(`SumIsCount`), by an induction over subsets that is stated for a set of subsets
instead of a predicate (`SubsetInduction`). From it follow that a sum is a natural
number, that any element may be taken out of it, and how two sums compare.

`FiscalQueueProofs.tla` proves, for all sets of jobs, bridges and agents and any
`MaxFaults` (under the ASSUMEs of `FiscalQueue`):

| Theorem | States | Argument |
|---|---|---|
| `TypeCorrect` | `Spec => []TypeOK` | one step per action |
| `NoUnexplainedReceipt` | `Spec => []ReceiptsExplained` | `Ledger`: per close that asked for a receipt, emissions done, agents that hold it, and one if it is due to be handed out, add up to at most 1 + mishaps |
| `NothingMadeUp` | `Spec => []EmittedIsReal` | `RealInv`: a complete call under way belongs to a job the device carried out |
| `OwnersAreReleased` | `Spec => []OwnersReleased` | `LifeInv`: what each status says of the owner columns, calls and batches |
| `OutcomesStay` | `Spec => SettledForGood` | `LifeInv` with the step condition `Onward` |
| `QueueCertifies` | `Spec => KeepsReceipts`: the queue implements `CertifiedReceipts` | under `LifeInv`, `RealInv`, `Ledger` and `FreshInv` (a job that nothing was asked of has no history) every step maps to one of the promise or to none |

`ReceiptsExplained` is not inductive: it does not know that a job about to be
handed out again, or in an agent's hands, will become a receipt. The ledger
counts both. A job is *due* while it waits, and while it is dispatched and
reclaim will find it; every step that makes a job due, other than its first
entry, is a mishap. For reports this needs `LifeInv`: the owner check fails only
if the sender is not the owner any more or the bridge was deleted, and then the
job was due before. The same ledger makes the
device's print a step of the promise: the agent that holds the job counts, so there
were at most as many receipts as mishaps before. A report concludes its close or
shows its payment, with the receipt that `RealInv` knows of; every fault, whatever it hits,
is one `GoWrong`; the claims, reclaims and settings are stutters.

`OrderRequestsProofs.tla` proves, for all carts and bounds (under the ASSUMEs of
`OrderRequests`):

| Theorem | States | Argument |
|---|---|---|
| `TypeCorrect` | `Spec => []TypeOK` | one step per action |
| `ClearedOnlyForOrders` | `Spec => []ClearedCartsAreOrders` | `AnswersInv`: an answer "created", in a request or in the cache, has an order behind it |
| `NoPoisonedRetries` | `Spec => []RetriesAreNotPoisoned` | every lock has a request that will release it, a cached answer, a restart or a listener that came too late behind it |
| `KeysCreateOneOrder` | `Spec => []OneOrderPerKey` | `Ledger`: a key's orders, its requests in the handler and its free lock are one token, and each break adds at most one |
| `CartsBecomeOneOrder` | `Spec => []OneOrderPerCart` | `CartsInv`: keys with an order, or a request that may still make one, are spent unless they are the pending one; spent keys and the chances left (the cart on the screen, each entry of the queue) stay within 1 + blocked + dropped. A key that an edit or a reload spends is in `dropped` |
| `CartsArePlaced` | `Spec => PlacesOrders` | see below |

`OneOrderPerKey` is not inductive: it does not count the request in the handler
that is about to commit, nor the lock that would let another in. `OneOrderPerCart`
is not either: it sees orders, and not the requests and queue entries that will
become some. It follows from the number of keys with an order and from
`OneOrderPerKey` for each of them, summed over the cart's keys (`SumExceeds`).

For the refinement, `OneOrderPerCart` after a step is the guard of `Place` before
it: a commit adds one order to its cart and no cause, so there were at most as many
orders as mishaps before. A lock that is released under a handler or expires, an answer, an
edit or a reload that makes the browser drop such a key and an action that is queued and kept are `GoWrong` for
their cart. An accepted answer is `Clear` when the cart it is for is on the screen;
when another one is, that is `Confuse`, with a mishap of the cart it is for if its
pending key had an order. Every other step stutters.

`StockProofs.tla` proves, for all items, recipes, orders, purchase orders and
numbers of requests under way (under the ASSUMEs of `Stock`):

| Theorem | States | Argument |
|---|---|---|
| `TypeCorrect` | `Spec => []TypeOK`, with it that no quantity is negative | one step per action; every deduction is checked under the locks it is made under |
| `OrderBooksBalance`, `ReturnedStaysCancelled` | `Spec => []BooksBalance`, `Spec => []ReturnedIsCancelled` | `BooksInv`: the two together and `PolicyAsked`, since a void gives back impacts it read, and a status change writes what it asked about |
| `LedgerIsComplete` | `Spec => []LedgerExplains` | `LedgerInv`: a quantity is what was booked and the differences that audits under way will add, a sum over the requests (`SumLemmas`) |
| `DeliveriesAreReceived` | `Spec => []DeliveredIsReceived` | `DeliveryInv`: no status change under way was allowed to leave *received*, and a receipt is about lines of its order |

`BridgeControlProofs.tla` proves, for all commands and any numbers of loops and
faults (under the ASSUMEs of `BridgeControl`):

| Theorem | States | Argument |
|---|---|---|
| `TypeCorrect` | `Spec => []TypeOK` | one step per action |
| `LoopsRunOnce` | `Spec => []RunsOncePerLoop` | `RunsInv`: once a loop has noted another command, or holds another answer, the one it executed is gone from the column for good |
| `NothingDropped` | `Spec => []NoCommandDropped` | `DropInv`: what is acknowledged has been executed, and an acknowledgement that goes on to empty the column saw its own command there |

`RunsOncePerLoop` is not inductive: `lastCommandID` remembers one command only, and
that the ones before it never come back is a fact about the column and about
answers still on their way.

Only model-checked: `QueueDrains`, `ReceiptsSettle` and `CommandsArrive`, because
liveness is outside the prover's reach. Every invariant and every action property
of a passing run is a theorem.

## Not modelled

- *Legacy TypeScript print-bridge and print-agent*: they never send the instance
  id that reports are matched by, and the Go agent replaced them.
- *Authentication, security headers*: cryptography and filters.
- *Push and realtime*: best-effort fan-out; no component reads their state.
- *Back office, print profiles, tenants, web views*: single-statement CRUD, pure
  functions with unit tests, or presentation.
- *Agent lifecycle beyond loops and updates (services, tray, discovery, QZ
  certificates)*: operating-system calls. The list of printers that a scan and the
  heartbeats both write is not modelled either.
- *Pairing*: codes and secrets are single UPDATEs guarded by hashes; a re-paired
  machine appears as `RegisterBridge`.
- *Group orders, self-order, takeaway*: not modelled yet; their submission ends in
  `createOrder`, and their own state (a shared cart, slots of a day) meets no other
  component.
- *Administration of the catalogue*: formulas and their graph, modifiers and their
  units, deletion of items, rounding of fractional quantities.
- *Most of the web application*: actions that call the API and fetch all data
  again, and views.
- What a ticket says, and how it is rendered or encoded.

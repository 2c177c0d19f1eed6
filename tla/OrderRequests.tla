---------------------------- MODULE OrderRequests ---------------------------
(***************************************************************************)
(* Sending an order from the POS: the Idempotency-Key the browser keeps    *)
(* for a cart (createOrder in client.ts), the API's idempotency middleware *)
(* with its lock and its cached answer in Redis, and the handler of        *)
(* POST /api/orders between them; and the queue of orders that were asked  *)
(* for while their module was switched off, which is replayed when the     *)
(* browser is online again (replayOfflineQueue in app-store.ts).           *)
(*                                                                         *)
(* Keys are numbered per cart.  The API is one process with one Redis      *)
(* connection, on which commands are carried out in the order they were    *)
(* issued; so what the middleware does when an answer is finished is one   *)
(* step with finishing it.  History variables say what went wrong with the *)
(* protection of a key: on the server (broken), in the browser (dropped).  *)
(***************************************************************************)
EXTENDS Naturals, FiniteSets, Functions

CONSTANTS
    Carts,       \* carts of a POS tab, each with a payload of its own
    MaxAttempts, \* MaxAttempts[c]: bound on the requests sent for cart c
    MaxQueue,    \* MaxQueue[c]: bound on the entries of offlineQueue for cart c
    MaxFaults    \* bound on lost answers, restarts, reloads, expiries, late errors

ASSUME MaxAttemptsAssumption == MaxAttempts \in [Carts -> Nat]
ASSUME MaxQueueAssumption == MaxQueue \in [Carts -> Nat]
ASSUME MaxFaultsAssumption == MaxFaults \in Nat

\* A cart has no more keys than requests; key 0 stands for "none".
Keys == UNION {{c} \X (1..MaxAttempts[c]) : c \in Carts}

VARIABLES
    moduleOn,   \* the tab believes that the kitchen module is enabled
    shown,      \* cartContextKey: the cart on the screen
    cart,       \* posCart and cartStore: "open" until cleared
    pendingKey, \* number of the cart's key in pendingOrderKeys
    minted,     \* number of keys made for the cart so far
    attempts,   \* number of requests sent for the cart so far
    queue,      \* entries of offlineQueue for the cart
    replaying,  \* entries that a replay has taken and not tried yet
    requests,   \* requests under way
    lock,       \* keys whose lockKey exists
    cached,     \* answer under the responseKey of a key
    wiped,      \* history: carts cleared by the answer for another cart
    blocked,    \* history: entries made because the module was off
    left,       \* history: keys whose lock nobody will give back
    orders,     \* history: orders committed by requests with this key
    broken,     \* history: times the protection of this key was undone
    dropped,    \* history: keys the browser gave up with an order, or soon one
    faults      \* history: faults so far, to bound them

screen == <<moduleOn, shown, cart, wiped>>
cartKeys == <<pendingKey, minted, attempts>>
offline == <<queue, replaying, blocked>>
browser == <<screen, cartKeys, offline>>
redis == <<lock, cached, left>>
history == <<orders, broken, dropped, faults>>
vars == <<browser, requests, redis, history>>

Answers == {"created", "refused", "failed", "unauthorized", "duplicate"}

\* at: on the wire, told that the lock is taken, in the handler, in the handler
\* after the commit, answered.  heard: the browser still waits for the answer.
\* watched: the middleware will act on the end of the answer.
Requests ==
    [cart: Carts, key: Nat, no: Nat, by: {"user", "replay"},
     at: {"wire", "taken", "handler", "committed", "answered"},
     answer: Answers \cup {"none"}, again: BOOLEAN, heard: BOOLEAN, watched: BOOLEAN]

KeyOf(r) == <<r.cart, r.key>>

TypeOK ==
    /\ moduleOn \in BOOLEAN
    /\ shown \in Carts
    /\ cart \in [Carts -> {"open", "cleared"}]
    /\ pendingKey \in [Carts -> Nat]
    /\ minted \in [Carts -> Nat]
    /\ attempts \in [Carts -> Nat]
    /\ \A c \in Carts : pendingKey[c] <= minted[c] /\ minted[c] <= attempts[c]
                       /\ attempts[c] <= MaxAttempts[c]
    /\ queue \in [Carts -> Nat]
    /\ replaying \in [Carts -> Nat]
    /\ requests \subseteq Requests
    /\ \A r \in requests : KeyOf(r) \in Keys
    /\ lock \subseteq Keys
    /\ cached \in [Keys -> {"none", "created", "refused"}]
    /\ wiped \subseteq Carts
    /\ blocked \in [Carts -> Nat]
    /\ left \subseteq Keys
    /\ orders \in [Keys -> Nat]
    /\ broken \in [Keys -> Nat]
    /\ dropped \subseteq Keys
    /\ faults \in 0..MaxFaults

Init ==
    /\ moduleOn = TRUE
    /\ shown \in Carts
    /\ cart = [c \in Carts |-> "open"]
    /\ pendingKey = [c \in Carts |-> 0]
    /\ minted = [c \in Carts |-> 0]
    /\ attempts = [c \in Carts |-> 0]
    /\ queue = [c \in Carts |-> 0]
    /\ replaying = [c \in Carts |-> 0]
    /\ requests = {}
    /\ lock = {}
    /\ cached = [k \in Keys |-> "none"]
    /\ wiped = {}
    /\ blocked = [c \in Carts |-> 0]
    /\ left = {}
    /\ orders = [k \in Keys |-> 0]
    /\ broken = [k \in Keys |-> 0]
    /\ dropped = {}
    /\ faults = 0

Fault ==
    /\ faults < MaxFaults
    /\ faults' = faults + 1

Break(k) == broken' = [broken EXCEPT ![k] = @ + 1]

\* r goes on as s.
Becomes(r, s) == requests' = (requests \ {r}) \cup {s}

-----------------------------------------------------------------------------
(* The browser sends.                                                      *)

\* The button is disabled while its own request is under way (isProcessing).
Sending == \E r \in requests : r.by = "user" /\ r.heard

\* Mutant: a fresh key per HTTP call, as authorizedFetch makes for other requests.
FreshKey(c) == minted[c] + 1

\* resolveOrderIdempotencyKey.
ResolveKey(c) == IF pendingKey[c] = 0 THEN minted[c] + 1 ELSE pendingKey[c]

Post(c, by) ==
    /\ attempts[c] < MaxAttempts[c]
    /\ attempts' = [attempts EXCEPT ![c] = @ + 1]
    /\ pendingKey' = [pendingKey EXCEPT ![c] = ResolveKey(c)]
    /\ minted' = [minted EXCEPT ![c] = IF ResolveKey(c) > @ THEN ResolveKey(c) ELSE @]
    /\ requests' = requests \cup
         {[cart |-> c, key |-> ResolveKey(c), no |-> attempts[c] + 1, by |-> by, at |-> "wire",
           answer |-> "none", again |-> FALSE, heard |-> TRUE, watched |-> FALSE]}

\* handleSendToKitchen and createOrder.
Send ==
    /\ cart[shown] = "open" /\ ~Sending /\ moduleOn
    /\ Post(shown, "user")
    /\ UNCHANGED <<screen, offline, redis, history>>

\* Entries of the offline queue, wherever they are.
Entries(c) ==
    queue[c] + replaying[c]
      + Cardinality({r \in requests : r.cart = c /\ r.by = "replay" /\ r.heard})

\* The module is off: enqueueBlockedAction and an error.  The cart stays.
SendBlocked ==
    /\ cart[shown] = "open" /\ ~Sending /\ ~moduleOn
    /\ Entries(shown) < MaxQueue[shown]
    /\ queue' = [queue EXCEPT ![shown] = @ + 1]
    /\ blocked' = [blocked EXCEPT ![shown] = @ + 1]
    /\ UNCHANGED <<screen, cartKeys, replaying, requests, redis, history>>

\* replayOfflineQueue takes all entries.  A replay tries them one by one, but
\* replays may overlap.
StartReplay ==
    /\ \E c \in Carts : queue[c] > 0
    /\ replaying' = [c \in Carts |-> replaying[c] + queue[c]]
    /\ queue' = [c \in Carts |-> 0]
    /\ UNCHANGED <<screen, cartKeys, blocked, requests, redis, history>>

Replay(c) ==
    /\ replaying[c] > 0 /\ moduleOn
    /\ replaying' = [replaying EXCEPT ![c] = @ - 1]
    /\ Post(c, "replay")
    /\ UNCHANGED <<screen, queue, blocked, redis, history>>

\* The module is off again: the action enqueues itself, and the error that it
\* throws makes the replay enqueue its entry too.
ReplayBlocked(c) ==
    /\ replaying[c] > 0 /\ ~moduleOn
    /\ Entries(c) < MaxQueue[c]
    /\ replaying' = [replaying EXCEPT ![c] = @ - 1]
    /\ queue' = [queue EXCEPT ![c] = @ + 2]
    /\ blocked' = [blocked EXCEPT ![c] = @ + 1]
    /\ UNCHANGED <<screen, cartKeys, requests, redis, history>>

\* setCartContext, which nothing holds back while a request is under way.
Show(c) ==
    /\ shown # c
    /\ shown' = c
    /\ UNCHANGED <<moduleOn, cart, wiped, cartKeys, offline, requests, redis, history>>

\* syncSessionModules finds the module enabled or disabled.
SyncModules ==
    /\ moduleOn' = ~moduleOn
    /\ UNCHANGED <<shown, cart, wiped, cartKeys, offline, requests, redis, history>>

-----------------------------------------------------------------------------
(* The browser hears of a request.                                         *)

Heard(r) == r.at = "answered" /\ r.heard

\* The request reached the server: the key goes, whatever the status.
ForgetKey(c) ==
    /\ pendingKey' = [pendingKey EXCEPT ![c] = 0]
    /\ UNCHANGED <<minted, attempts>>

\* A request that may still make an order; a 401 is answered by one more request.
MayOrder(r) == r.at # "answered" \/ (r.answer = "unauthorized" /\ ~r.again)

\* The key that goes is the cart's pending one, which need not be the key of the
\* request that was heard of.  It may have an order, or a request in rest that
\* may still make one.
Drop(c, rest) ==
    dropped' = dropped \cup
      {k \in Keys : /\ k = <<c, pendingKey[c]>>
                    /\ orders[k] > 0 \/ \E q \in rest : KeyOf(q) = k /\ MayOrder(q)}

\* An entry of the offline queue keeps the payload it was made with; so while one
\* exists the cart stays as it is (a bound of the model).  An edited cart has
\* another fingerprint, for which there is no key yet.
EditCart(c) ==
    /\ shown = c /\ cart[c] = "open" /\ pendingKey[c] # 0
    /\ Entries(c) = 0 /\ ~Sending
    /\ ForgetKey(c)
    /\ Drop(c, requests)
    /\ UNCHANGED <<screen, offline, requests, redis, orders, broken, faults>>

\* The tab is reloaded.  The carts persist; the keys, the offline queue and the
\* calls under way, which the API may go on with, do not; and until the session is
\* there again, no module is known to be enabled.
Reload ==
    LET Unheard(r) == [r EXCEPT !.heard = FALSE]
    IN  /\ Fault /\ moduleOn' = FALSE
        /\ pendingKey' = [c \in Carts |-> 0]
        /\ queue' = [c \in Carts |-> 0]
        /\ replaying' = [c \in Carts |-> 0]
        /\ requests' = {Unheard(r) : r \in {r \in requests : r.at # "answered"}}
        /\ dropped' = dropped \cup
             {k \in Keys : /\ k[2] = pendingKey[k[1]]
                           /\ orders[k] > 0 \/ \E q \in requests' : KeyOf(q) = k /\ MayOrder(q)}
        /\ UNCHANGED <<shown, cart, wiped, minted, attempts, blocked, redis, orders, broken>>

\* An entry whose action threw is queued again.
Requeue(r) ==
    /\ queue' = [queue EXCEPT ![r.cart] = IF r.by = "replay" THEN @ + 1 ELSE @]
    /\ UNCHANGED <<replaying, blocked>>

\* Mutant: any answer below 500 counts as success.
AcceptedBelow500(r) ==
    /\ Heard(r) /\ r.answer \in {"created", "refused", "duplicate"}
    /\ requests' = requests \ {r}
    /\ ForgetKey(r.cart)
    /\ cart' = [cart EXCEPT ![shown] = "cleared"]
    /\ IF shown = r.cart
         THEN UNCHANGED <<wiped, dropped>>
         ELSE wiped' = wiped \cup {shown} /\ Drop(r.cart, requests')
    /\ UNCHANGED <<moduleOn, shown, offline, redis, orders, broken, faults>>

\* store.createOrder clears the cart that is on the screen by now; if that is
\* another one, the cart that was sent stays.
Accepted(r) ==
    /\ Heard(r) /\ r.answer = "created"
    /\ requests' = requests \ {r}
    /\ ForgetKey(r.cart)
    /\ cart' = [cart EXCEPT ![shown] = "cleared"]
    /\ IF shown = r.cart
         THEN UNCHANGED <<wiped, dropped>>
         ELSE wiped' = wiped \cup {shown} /\ Drop(r.cart, requests')
    /\ UNCHANGED <<moduleOn, shown, offline, redis, orders, broken, faults>>

\* Without a socket the store fetches all data before it clears the cart; if
\* that fails, the order exists and the cart is still there, without its key.
AcceptedNotCleared(r) ==
    /\ Heard(r) /\ r.answer = "created"
    /\ Fault
    /\ requests' = requests \ {r}
    /\ ForgetKey(r.cart)
    /\ Requeue(r)
    /\ Drop(r.cart, requests')
    /\ UNCHANGED <<screen, redis, orders, broken>>

\* An error message, be it a 409 for an order that is there or on its way; the
\* cart stays.
Rejected(r) ==
    /\ Heard(r) /\ r.answer # "created"
    /\ requests' = requests \ {r}
    /\ ForgetKey(r.cart)
    /\ Requeue(r)
    /\ Drop(r.cart, requests')
    /\ UNCHANGED <<screen, redis, orders, broken, faults>>

\* authorizedFetch: a 401 is answered by a refresh and one more request.
RefreshAndResend(r) ==
    /\ Heard(r) /\ r.answer = "unauthorized" /\ ~r.again
    /\ attempts[r.cart] < MaxAttempts[r.cart]
    /\ attempts' = [attempts EXCEPT ![r.cart] = @ + 1]
    /\ Becomes(r, [r EXCEPT !.no = attempts[r.cart] + 1, !.at = "wire", !.answer = "none",
                            !.again = TRUE])
    /\ UNCHANGED <<screen, offline, pendingKey, minted, redis, history>>

\* fetch throws: the request may or may not have arrived, and the key stays.
NetworkError(r) ==
    /\ r.heard
    /\ Fault
    /\ \/ r.at # "answered" /\ Becomes(r, [r EXCEPT !.heard = FALSE])
       \/ r.at \in {"wire", "answered"} /\ requests' = requests \ {r}
    /\ Requeue(r)
    /\ UNCHANGED <<screen, cartKeys, redis, orders, broken, dropped>>

\* The proxy answers 502 or 504 in place of the API, which may go on.
GatewayError(r) ==
    /\ r.heard /\ r.at # "answered"
    /\ Fault
    /\ Becomes(r, [r EXCEPT !.heard = FALSE])
    /\ ForgetKey(r.cart)
    /\ Requeue(r)
    /\ Drop(r.cart, requests')
    /\ UNCHANGED <<screen, redis, orders, broken>>

-----------------------------------------------------------------------------
(* IdempotencyMiddleware.use and the handler.                              *)

\* Mutant: a GET decides, and the lock is written in any case.
TryLockUnchecked(r) ==
    /\ r.at = "wire"
    /\ lock' = lock \cup {KeyOf(r)}
    /\ IF cached[KeyOf(r)] # "none"
         THEN Becomes(r, [r EXCEPT !.at = "taken"])
         ELSE Becomes(r, [r EXCEPT !.at = "handler", !.watched = TRUE])
    /\ UNCHANGED <<browser, cached, left, history>>

\* SET lockKey NX EX 120.  The middleware listens for the end of the answer once
\* the SET has come back.  If the connection was closed by then, it hears of
\* nothing: the handler runs, and nobody gives the lock back or caches an answer.
TryLock(r) ==
    /\ r.at = "wire"
    /\ lock' = lock \cup {KeyOf(r)}
    /\ IF KeyOf(r) \in lock
         THEN /\ Becomes(r, [r EXCEPT !.at = "taken"])
              /\ UNCHANGED left
         ELSE \E listens \in BOOLEAN :
                /\ r.heard => listens
                /\ Becomes(r, [r EXCEPT !.at = "handler", !.watched = listens])
                /\ left' = IF listens THEN left \ {KeyOf(r)} ELSE left \cup {KeyOf(r)}
    /\ UNCHANGED <<browser, cached, history>>

\* The answer goes to the browser, if that still listens.
Answer(r, answer) ==
    requests' = (requests \ {r}) \cup
      IF r.heard
        THEN {[r EXCEPT !.at = "answered", !.answer = answer, !.watched = FALSE]}
        ELSE {}

\* GET responseKey: the answer of the first request, or 409.
AnswerTaken(r) ==
    /\ r.at = "taken"
    /\ Answer(r, IF cached[KeyOf(r)] = "none" THEN "duplicate" ELSE cached[KeyOf(r)])
    /\ UNCHANGED <<browser, redis, history>>

\* Mutant: whatever the status, the answer is cached.
ReleaseAnyStatus(r, answer) ==
    /\ IF r.watched THEN cached' = [cached EXCEPT ![KeyOf(r)] = answer] ELSE UNCHANGED cached
    /\ UNCHANGED lock

\* Mutant: an answer that is not cached leaves the lock.
ReleaseCachedOnly(r, answer) ==
    /\ IF r.watched /\ answer \in {"created", "refused"}
         THEN cached' = [cached EXCEPT ![KeyOf(r)] = answer]
         ELSE UNCHANGED cached
    /\ UNCHANGED lock

\* releaseLock: the lock is not looked at, so it may by now be another's.
Release(r, answer) ==
    IF ~r.watched THEN UNCHANGED <<lock, cached>>
    ELSE IF answer \in {"created", "refused"}
           THEN cached' = [cached EXCEPT ![KeyOf(r)] = answer] /\ UNCHANGED lock
           ELSE lock' = lock \ {KeyOf(r)} /\ UNCHANGED cached

Finish(r, answer) ==
    /\ Answer(r, answer)
    /\ Release(r, answer)
    /\ UNCHANGED <<browser, left>>

\* The guard, a rule of the order or the database says no: nothing was written.
Refuse(r) ==
    /\ r.at = "handler"
    /\ \E answer \in {"refused", "failed", "unauthorized"} : Finish(r, answer)
    /\ UNCHANGED history

Commit(r) ==
    /\ r.at = "handler"
    /\ Becomes(r, [r EXCEPT !.at = "committed"])
    /\ orders' = [orders EXCEPT ![KeyOf(r)] = @ + 1]
    /\ UNCHANGED <<browser, redis, broken, dropped, faults>>

Succeed(r) ==
    /\ r.at = "committed"
    /\ Finish(r, "created")
    /\ UNCHANGED history

\* createPrintJobsForOrder throws after the commit: the handler answers 400 and
\* the answer is cached, though the order exists.
RefuseAfterCommit(r) ==
    /\ r.at = "committed"
    /\ Fault
    /\ Finish(r, "refused")
    /\ UNCHANGED <<orders, broken, dropped>>

\* An event of the gateway cannot be sent: 500, and the lock goes.
ErrorAfterCommit(r) ==
    /\ r.at = "committed"
    /\ Fault
    /\ Finish(r, "failed")
    /\ Break(KeyOf(r))
    /\ UNCHANGED <<orders, dropped>>

\* "close" before the answer is finished: the lock goes, the handler goes on.
Abort(r) ==
    /\ r.at \in {"handler", "committed"} /\ r.watched /\ ~r.heard
    /\ Becomes(r, [r EXCEPT !.watched = FALSE])
    /\ lock' = lock \ {KeyOf(r)}
    /\ Break(KeyOf(r))
    /\ UNCHANGED <<browser, cached, left, orders, dropped, faults>>

\* The process stops.  Locks stay behind; browsers see the proxy's 502, or an
\* error of the network.
Restart ==
    LET running == {r \in requests : r.at \in {"taken", "handler", "committed"}}
        Failed(r) == [r EXCEPT !.at = "answered", !.answer = "failed", !.watched = FALSE]
    IN  /\ running # {}
        /\ Fault
        /\ requests' = (requests \ running) \cup {Failed(r) : r \in {r \in running : r.heard}}
        /\ left' = left \cup {KeyOf(r) : r \in {r \in running : r.watched}}
        /\ UNCHANGED <<browser, lock, cached, orders, broken, dropped>>

\* 120 seconds have passed since the request with this key came.  The answer
\* was cached later, so it may outlive the lock.
Expire(k) ==
    /\ k \in lock
    /\ Fault
    /\ lock' = lock \ {k}
    /\ cached' \in {cached, [cached EXCEPT ![k] = "none"]}
    /\ left' = left \ {k}
    /\ Break(k)
    /\ UNCHANGED <<browser, requests, orders, dropped>>

-----------------------------------------------------------------------------
Sends ==
    \/ Send \/ SendBlocked \/ StartReplay \/ SyncModules
    \/ \E c \in Carts : Replay(c) \/ ReplayBlocked(c) \/ Show(c)

Hears(r) ==
    \/ Accepted(r) \/ AcceptedNotCleared(r) \/ Rejected(r) \/ RefreshAndResend(r)
    \/ NetworkError(r) \/ GatewayError(r)

Handles(r) ==
    \/ TryLock(r) \/ AnswerTaken(r) \/ Refuse(r) \/ Commit(r) \/ Succeed(r)
    \/ RefuseAfterCommit(r) \/ ErrorAfterCommit(r) \/ Abort(r)

Next ==
    \/ Sends \/ Reload
    \/ \E c \in Carts : EditCart(c)
    \/ \E r \in requests : Hears(r) \/ Handles(r)
    \/ Restart
    \/ \E k \in Keys : Expire(k)

Spec == Init /\ [][Next]_vars

-----------------------------------------------------------------------------
(* Properties.                                                             *)

KeysOf(c) == {k \in Keys : k[1] = c}
Total(f, c) == SumFunctionOnSet(f, KeysOf(c))

\* However often requests with one key are sent, lost and sent again, they
\* create one order, except for the times the key lost its protection: a lock
\* released under a running handler, expired, or given back after the commit
\* (the middleware's promise).
OneOrderPerKey == \A k \in Keys : orders[k] <= 1 + broken[k]

\* A cart becomes one order, whatever is lost on the way, except for keys that
\* lost their protection, keys the browser gave up although they had an order or
\* were about to (for an answer that was not the order, for an edit of the cart, or
\* in a reload), and entries of the offline queue that were made while the cart
\* stayed (createOrder's rule "one key per logical order action").
OneOrderPerCart ==
    \A c \in Carts :
      Total(orders, c)
        <= 1 + Total(broken, c) + Cardinality(dropped \cap KeysOf(c)) + blocked[c]

\* Browser, middleware and handler implement the promise of PlacedOrders, whatever
\* is lost, sent again, replayed, aborted or answered late.
Promise ==
    INSTANCE PlacedOrders
      WITH orders <- [c \in Carts |-> Total(orders, c)],
           mishaps <- [c \in Carts |-> Total(broken, c)
                                        + Cardinality(dropped \cap KeysOf(c)) + blocked[c]],
           cleared <- {c \in Carts : cart[c] = "cleared"}

\* This is Promise!Spec: a step that leaves the counted variables alone stutters.
\* Saying so spares TLC the sums.
counted == <<orders, broken, dropped, blocked, cart>>

PlacesOrders == Promise!Init /\ [][UNCHANGED counted \/ Promise!Next]_(Promise!vars)

\* A cart is cleared only when its order exists, also if the answer came out of
\* the cache for an earlier request, unless it was on the screen when the answer
\* for another cart arrived (the middleware's replay, store.createOrder).
ClearedCartsAreOrders ==
    \A c \in Carts :
      cart[c] = "cleared" => c \in wiped \/ \E k \in KeysOf(c) : orders[k] > 0

\* A retry is refused as a duplicate only while the first request is at work:
\* a lock has a request behind it or an answer to replay, unless a restart left
\* it or the middleware began to listen after the connection had gone ("a failed,
\* unauthorized or aborted request must not poison a retry").
RetriesAreNotPoisoned ==
    \A k \in lock :
      \/ \E r \in requests : KeyOf(r) = k /\ r.watched
      \/ cached[k] # "none"
      \/ k \in left
=============================================================================

------------------------ MODULE OrderRequestsProofs -------------------------
(***************************************************************************)
(* Theorems about OrderRequests for any carts and any bounds.              *)
(***************************************************************************)
EXTENDS OrderRequests, SumLemmas, FiniteSetTheorems, TLAPS

-----------------------------------------------------------------------------
(* Type correctness.                                                       *)

\* The part of TypeOK that is about requests.
RequestsTyped ==
  /\ requests \subseteq Requests
  /\ \A r \in requests : KeyOf(r) \in Keys

LEMMA KeyFacts ==
  ASSUME NEW k \in Keys
  PROVE  k[1] \in Carts /\ k[2] \in 1..MaxAttempts[k[1]]
BY DEF Keys

LEMMA KeyIntro ==
  ASSUME NEW c \in Carts, NEW n \in 1..MaxAttempts[c]
  PROVE  <<c, n>> \in Keys
BY DEF Keys

LEMMA BecomesTyped ==
  ASSUME RequestsTyped, NEW r \in requests, NEW s \in Requests, KeyOf(s) = KeyOf(r),
         Becomes(r, s)
  PROVE  RequestsTyped'
BY DEF RequestsTyped, Becomes, KeyOf

LEMMA FewerTyped ==
  ASSUME RequestsTyped, requests' \subseteq requests
  PROVE  RequestsTyped'
BY DEF RequestsTyped, KeyOf

LEMMA AnswerTyped ==
  ASSUME RequestsTyped, NEW r \in requests, NEW answer \in Answers, Answer(r, answer)
  PROVE  RequestsTyped'
<1>1. CASE r.heard
  <2>1. [r EXCEPT !.at = "answered", !.answer = answer, !.watched = FALSE] \in Requests
    BY DEF RequestsTyped, Requests
  <2> QED
    BY <1>1, <2>1, BecomesTyped DEF Answer, Becomes, RequestsTyped, Requests, KeyOf
<1>2. CASE ~r.heard
  BY <1>2, FewerTyped DEF Answer
<1> QED
  BY <1>1, <1>2

LEMMA PostTypes ==
  ASSUME TypeOK, NEW c \in Carts, NEW by \in {"user", "replay"}, Post(c, by)
  PROVE  /\ pendingKey' \in [Carts -> Nat]
         /\ minted' \in [Carts -> Nat]
         /\ attempts' \in [Carts -> Nat]
         /\ \A d \in Carts : pendingKey'[d] <= minted'[d] /\ minted'[d] <= attempts'[d]
                             /\ attempts'[d] <= MaxAttempts[d]
         /\ RequestsTyped'
<1>a. /\ pendingKey[c] \in Nat /\ minted[c] \in Nat /\ attempts[c] \in Nat
      /\ pendingKey[c] <= minted[c] /\ minted[c] <= attempts[c]
      /\ MaxAttempts[c] \in Nat /\ attempts[c] < MaxAttempts[c]
  BY MaxAttemptsAssumption DEF TypeOK, Post
<1>b. /\ ResolveKey(c) \in 1..MaxAttempts[c] /\ ResolveKey(c) <= attempts[c] + 1
      /\ ResolveKey(c) = minted[c] + 1 \/ ResolveKey(c) <= minted[c]
  BY <1>a DEF ResolveKey
<1>1. /\ pendingKey' = [pendingKey EXCEPT ![c] = ResolveKey(c)]
      /\ minted' = [minted EXCEPT ![c] = IF ResolveKey(c) > minted[c] THEN ResolveKey(c) ELSE minted[c]]
      /\ attempts' = [attempts EXCEPT ![c] = attempts[c] + 1]
  BY DEF Post
<1>2. /\ pendingKey' \in [Carts -> Nat] /\ minted' \in [Carts -> Nat] /\ attempts' \in [Carts -> Nat]
      /\ pendingKey'[c] <= minted'[c] /\ minted'[c] <= attempts'[c]
      /\ attempts'[c] <= MaxAttempts[c]
  BY <1>a, <1>b, <1>1 DEF TypeOK
<1>3. \A d \in Carts \ {c} : /\ pendingKey'[d] = pendingKey[d] /\ minted'[d] = minted[d]
                             /\ attempts'[d] = attempts[d]
  BY <1>1 DEF TypeOK
<1>4. RequestsTyped'
  <2> DEFINE q == [cart |-> c, key |-> ResolveKey(c), no |-> attempts[c] + 1, by |-> by,
                   at |-> "wire", answer |-> "none", again |-> FALSE, heard |-> TRUE,
                   watched |-> FALSE]
  <2>1. q \in Requests
    BY <1>a, <1>b DEF Requests
  <2>2. KeyOf(q) \in Keys
    BY <1>b, KeyIntro DEF KeyOf
  <2>3. requests' = requests \cup {q}
    BY DEF Post
  <2> QED
    BY <2>1, <2>2, <2>3 DEF RequestsTyped, TypeOK, KeyOf
<1> QED
  BY <1>2, <1>3, <1>4 DEF TypeOK

LEMMA SendsTypes ==
  ASSUME TypeOK, Sends
  PROVE  TypeOK'
<1>1. CASE Send
  BY <1>1, PostTypes DEF Send, TypeOK, RequestsTyped, screen, offline, redis, history
<1>2. CASE SendBlocked
  BY <1>2 DEF SendBlocked, TypeOK, KeyOf, screen, cartKeys, redis, history
<1>3. CASE StartReplay
  BY <1>3 DEF StartReplay, TypeOK, KeyOf, screen, cartKeys, redis, history
<1>4. CASE SyncModules
  BY <1>4 DEF SyncModules, TypeOK, KeyOf, cartKeys, offline, redis, history
<1>5. CASE \E c \in Carts : Replay(c)
  <2>1. PICK c \in Carts : Replay(c)
    BY <1>5
  <2>2. replaying' \in [Carts -> Nat]
    BY <2>1 DEF Replay, TypeOK
  <2> QED
    BY <2>1, <2>2, PostTypes DEF Replay, TypeOK, RequestsTyped, screen, redis, history
<1>6. CASE \E c \in Carts : ReplayBlocked(c)
  <2>1. PICK c \in Carts : ReplayBlocked(c)
    BY <1>6
  <2>2. /\ replaying' \in [Carts -> Nat] /\ queue' \in [Carts -> Nat]
        /\ blocked' \in [Carts -> Nat]
    BY <2>1 DEF ReplayBlocked, TypeOK
  <2> QED
    BY <2>1, <2>2 DEF ReplayBlocked, TypeOK, KeyOf, screen, cartKeys, redis, history
<1>7. CASE \E c \in Carts : Show(c)
  BY <1>7 DEF Show, TypeOK, KeyOf, cartKeys, offline, redis, history
<1> QED
  BY <1>1, <1>2, <1>3, <1>4, <1>5, <1>6, <1>7 DEF Sends

LEMMA FaultTypes ==
  ASSUME TypeOK, Fault
  PROVE  faults' \in 0..MaxFaults
BY MaxFaultsAssumption DEF Fault, TypeOK

LEMMA DropTypes ==
  ASSUME TypeOK, NEW c, NEW rest, Drop(c, rest)
  PROVE  dropped' \subseteq Keys
BY DEF Drop, TypeOK

LEMMA BreakTypes ==
  ASSUME TypeOK, NEW k \in Keys, Break(k)
  PROVE  broken' \in [Keys -> Nat]
BY DEF Break, TypeOK

\* What the answers to a request do to the browser's bookkeeping.
LEMMA BookTypes ==
  ASSUME TypeOK, NEW r \in requests, ForgetKey(r.cart)
  PROVE  /\ pendingKey' \in [Carts -> Nat] /\ minted' = minted /\ attempts' = attempts
         /\ \A c \in Carts : pendingKey'[c] <= minted[c]
BY DEF ForgetKey, TypeOK, Requests

LEMMA RequeueTypes ==
  ASSUME TypeOK, NEW r \in requests, Requeue(r)
  PROVE  queue' \in [Carts -> Nat] /\ replaying' = replaying /\ blocked' = blocked
<1>1. queue[r.cart] \in Nat /\ r.cart \in Carts
  BY DEF TypeOK, Requests
<1> QED
  BY <1>1 DEF Requeue, TypeOK

LEMMA HearsTypes ==
  ASSUME TypeOK, NEW r \in requests, Hears(r)
  PROVE  TypeOK'
<1>k. r \in Requests /\ KeyOf(r) \in Keys /\ r.cart \in Carts /\ RequestsTyped
  BY DEF TypeOK, RequestsTyped, Requests
<1>1. CASE Accepted(r)
  <2>1. RequestsTyped'
    BY <1>1, <1>k, FewerTyped DEF Accepted
  <2>2. dropped' \subseteq Keys /\ wiped' \subseteq Carts /\ cart' \in [Carts -> {"open", "cleared"}]
    BY <1>1, <1>k, DropTypes DEF Accepted, TypeOK
  <2> QED
    BY <1>1, <1>k, <2>1, <2>2, BookTypes DEF Accepted, TypeOK, RequestsTyped, offline, redis
<1>2. CASE AcceptedNotCleared(r)
  <2>1. RequestsTyped'
    BY <1>2, <1>k, FewerTyped DEF AcceptedNotCleared
  <2> QED
    BY <1>2, <1>k, <2>1, BookTypes, RequeueTypes, DropTypes, FaultTypes
    DEF AcceptedNotCleared, TypeOK, RequestsTyped, screen, redis
<1>3. CASE Rejected(r)
  <2>1. RequestsTyped'
    BY <1>3, <1>k, FewerTyped DEF Rejected
  <2>2. dropped' \subseteq Keys
    BY <1>3, <1>k, DropTypes DEF Rejected, TypeOK
  <2> QED
    BY <1>3, <1>k, <2>1, <2>2, BookTypes, RequeueTypes
    DEF Rejected, TypeOK, RequestsTyped, screen, redis
<1>4. CASE RefreshAndResend(r)
  <2>1. attempts[r.cart] \in Nat /\ MaxAttempts[r.cart] \in Nat
    BY <1>k, MaxAttemptsAssumption DEF TypeOK
  <2>2. [r EXCEPT !.no = attempts[r.cart] + 1, !.at = "wire", !.answer = "none",
                  !.again = TRUE] \in Requests
    <3>1. attempts[r.cart] + 1 \in Nat
      BY <2>1
    <3> QED
      BY <1>k, <3>1, Zenon DEF Requests
  <2>3. RequestsTyped'
    BY <1>4, <1>k, <2>2, BecomesTyped DEF RefreshAndResend, KeyOf, Requests
  <2>4. /\ attempts' \in [Carts -> Nat]
        /\ \A c \in Carts : attempts[c] <= attempts'[c] /\ attempts'[c] <= MaxAttempts[c]
    BY <1>4, <1>k, <2>1 DEF RefreshAndResend, TypeOK
  <2>5. \A c \in Carts : minted[c] <= attempts'[c]
    BY <2>4 DEF TypeOK
  <2> QED
    BY <1>4, <2>3, <2>4, <2>5 DEF RefreshAndResend, TypeOK, RequestsTyped, screen, offline, redis, history
<1>5. CASE NetworkError(r)
  <2>1. RequestsTyped'
    <3>1. [r EXCEPT !.heard = FALSE] \in Requests
      BY <1>k DEF Requests
    <3>2. CASE Becomes(r, [r EXCEPT !.heard = FALSE])
      BY <1>k, <3>1, <3>2, BecomesTyped DEF KeyOf, Requests
    <3>3. CASE requests' = requests \ {r}
      BY <1>k, <3>3, FewerTyped
    <3> QED
      BY <1>5, <3>2, <3>3 DEF NetworkError
  <2> QED
    BY <1>5, <2>1, RequeueTypes, FaultTypes
    DEF NetworkError, TypeOK, RequestsTyped, screen, cartKeys, redis
<1>6. CASE GatewayError(r)
  <2>1. RequestsTyped'
    <3>1. [r EXCEPT !.heard = FALSE] \in Requests
      BY <1>k DEF Requests
    <3> QED
      BY <1>6, <1>k, <3>1, BecomesTyped DEF GatewayError, KeyOf, Requests
  <2> QED
    BY <1>6, <1>k, <2>1, BookTypes, RequeueTypes, DropTypes, FaultTypes
    DEF GatewayError, TypeOK, RequestsTyped, screen, redis
<1> QED
  BY <1>1, <1>2, <1>3, <1>4, <1>5, <1>6 DEF Hears

LEMMA ReleaseTypes ==
  ASSUME TypeOK, NEW r \in requests, NEW answer, Release(r, answer)
  PROVE  lock' \subseteq Keys /\ cached' \in [Keys -> {"none", "created", "refused"}]
BY DEF Release, TypeOK

LEMMA FinishTypes ==
  ASSUME TypeOK, NEW r \in requests, NEW answer \in Answers, Finish(r, answer),
         orders' \in [Keys -> Nat], broken' \in [Keys -> Nat], dropped' \subseteq Keys,
         faults' \in 0..MaxFaults
  PROVE  TypeOK'
<1>1. RequestsTyped'
  BY AnswerTyped DEF Finish, TypeOK, RequestsTyped
<1>2. lock' \subseteq Keys /\ cached' \in [Keys -> {"none", "created", "refused"}]
  BY ReleaseTypes DEF Finish
<1> QED
  BY <1>1, <1>2 DEF Finish, TypeOK, RequestsTyped, browser, screen, cartKeys, offline

LEMMA HandlesTypes ==
  ASSUME TypeOK, NEW r \in requests, Handles(r)
  PROVE  TypeOK'
<1>k. r \in Requests /\ KeyOf(r) \in Keys /\ RequestsTyped
  BY DEF TypeOK, RequestsTyped
<1>1. CASE TryLock(r)
  <2>1. RequestsTyped'
    <3>1. CASE Becomes(r, [r EXCEPT !.at = "taken"])
      <4>1. [r EXCEPT !.at = "taken"] \in Requests
        BY <1>k DEF Requests
      <4> QED
        BY <1>k, <3>1, <4>1, BecomesTyped DEF KeyOf, Requests
    <3>2. ASSUME NEW listens \in BOOLEAN, Becomes(r, [r EXCEPT !.at = "handler", !.watched = listens])
          PROVE  RequestsTyped'
      <4>1. [r EXCEPT !.at = "handler", !.watched = listens] \in Requests
        BY <1>k DEF Requests
      <4> QED
        BY <1>k, <3>2, <4>1, BecomesTyped DEF KeyOf, Requests
    <3> QED
      BY <1>1, <3>1, <3>2 DEF TryLock
  <2>2. lock' \subseteq Keys /\ left' \subseteq Keys
    BY <1>1, <1>k DEF TryLock, TypeOK
  <2> QED
    BY <1>1, <2>1, <2>2 DEF TryLock, TypeOK, RequestsTyped, browser, screen, cartKeys, offline, history
<1>2. CASE AnswerTaken(r)
  <2>1. (IF cached[KeyOf(r)] = "none" THEN "duplicate" ELSE cached[KeyOf(r)]) \in Answers
    BY <1>k DEF TypeOK, Answers
  <2>2. RequestsTyped'
    BY <1>2, <1>k, <2>1, AnswerTyped DEF AnswerTaken
  <2> QED
    BY <1>2, <2>2 DEF AnswerTaken, TypeOK, RequestsTyped, browser, screen, cartKeys, offline, redis, history
<1>3. CASE Refuse(r)
  BY <1>3, FinishTypes DEF Refuse, Answers, history, TypeOK
<1>4. CASE Commit(r)
  <2>1. [r EXCEPT !.at = "committed"] \in Requests
    BY <1>k DEF Requests
  <2>2. RequestsTyped'
    BY <1>4, <1>k, <2>1, BecomesTyped DEF Commit, KeyOf, Requests
  <2>3. orders' \in [Keys -> Nat]
    BY <1>4, <1>k DEF Commit, TypeOK
  <2> QED
    BY <1>4, <2>2, <2>3 DEF Commit, TypeOK, RequestsTyped, browser, screen, cartKeys, offline, redis
<1>5. CASE Succeed(r)
  BY <1>5, FinishTypes DEF Succeed, Answers, history, TypeOK
<1>6. CASE RefuseAfterCommit(r)
  BY <1>6, FinishTypes, FaultTypes DEF RefuseAfterCommit, Answers, TypeOK
<1>7. CASE ErrorAfterCommit(r)
  BY <1>7, <1>k, FinishTypes, FaultTypes, BreakTypes DEF ErrorAfterCommit, Answers, TypeOK
<1>8. CASE Abort(r)
  <2>1. [r EXCEPT !.watched = FALSE] \in Requests
    BY <1>k DEF Requests
  <2>2. RequestsTyped'
    BY <1>8, <1>k, <2>1, BecomesTyped DEF Abort, KeyOf, Requests
  <2> QED
    BY <1>8, <1>k, <2>2, BreakTypes DEF Abort, TypeOK, RequestsTyped, browser, screen, cartKeys, offline
<1> QED
  BY <1>1, <1>2, <1>3, <1>4, <1>5, <1>6, <1>7, <1>8 DEF Handles

\* What a restart makes of a request that a browser waits for.
FailedRequest(r) == [r EXCEPT !.at = "answered", !.answer = "failed", !.watched = FALSE]
Running == {r \in requests : r.at \in {"taken", "handler", "committed"}}

LEMMA RestartFacts ==
  ASSUME Restart
  PROVE  /\ requests' = (requests \ Running) \cup {FailedRequest(r) : r \in {r \in Running : r.heard}}
         /\ left' = left \cup {KeyOf(r) : r \in {r \in Running : r.watched}}
         /\ UNCHANGED <<browser, lock, cached, orders, broken, dropped>> /\ Fault
BY DEF Restart, Running, FailedRequest

LEMMA RestartTypes ==
  ASSUME TypeOK, Restart
  PROVE  TypeOK'
<1>1. \A r \in requests : FailedRequest(r) \in Requests /\ KeyOf(FailedRequest(r)) = KeyOf(r)
  BY DEF TypeOK, Requests, FailedRequest, Answers, KeyOf
<1>2. RequestsTyped'
  BY <1>1, RestartFacts DEF TypeOK, RequestsTyped, Running, KeyOf
<1>3. left' \subseteq Keys
  BY RestartFacts DEF TypeOK, Running
<1> QED
  BY <1>2, <1>3, RestartFacts, FaultTypes
  DEF TypeOK, RequestsTyped, browser, screen, cartKeys, offline

\* What a reload makes of the requests that are not answered yet.
Unheard(r) == [r EXCEPT !.heard = FALSE]
Unanswered == {r \in requests : r.at # "answered"}

LEMMA ReloadFacts ==
  ASSUME Reload
  PROVE  /\ requests' = {Unheard(r) : r \in Unanswered}
         /\ pendingKey' = [c \in Carts |-> 0]
         /\ queue' = [c \in Carts |-> 0] /\ replaying' = [c \in Carts |-> 0]
         /\ dropped' = dropped \cup
              {k \in Keys : /\ k[2] = pendingKey[k[1]]
                            /\ orders[k] > 0 \/ \E q \in requests' : KeyOf(q) = k /\ MayOrder(q)}
         /\ UNCHANGED <<shown, cart, wiped, minted, attempts, blocked, redis, orders, broken>>
         /\ moduleOn' = FALSE /\ Fault
BY DEF Reload, Unheard, Unanswered

LEMMA UnheardFacts ==
  ASSUME NEW r \in Requests
  PROVE  /\ Unheard(r) \in Requests /\ KeyOf(Unheard(r)) = KeyOf(r)
         /\ Unheard(r).cart = r.cart /\ Unheard(r).key = r.key /\ Unheard(r).by = r.by
         /\ Unheard(r).at = r.at /\ Unheard(r).answer = r.answer /\ Unheard(r).again = r.again
         /\ Unheard(r).watched = r.watched /\ ~Unheard(r).heard
BY DEF Requests, Unheard, KeyOf

LEMMA ReloadTypes ==
  ASSUME TypeOK, Reload
  PROVE  TypeOK'
<1>1. RequestsTyped'
  BY UnheardFacts, ReloadFacts DEF TypeOK, RequestsTyped, Unanswered
<1>2. dropped' \subseteq Keys
  BY ReloadFacts DEF TypeOK
<1>3. \A c \in Carts : pendingKey'[c] <= minted[c]
  BY ReloadFacts DEF TypeOK
<1>4. /\ pendingKey' \in [Carts -> Nat] /\ queue' \in [Carts -> Nat] /\ replaying' \in [Carts -> Nat]
      /\ moduleOn' \in BOOLEAN
  BY ReloadFacts
<1>5. faults' \in 0..MaxFaults
  BY ReloadFacts, FaultTypes
<1> QED
  BY <1>1, <1>2, <1>3, <1>4, <1>5, ReloadFacts DEF TypeOK, RequestsTyped, redis

LEMMA EditTypes ==
  ASSUME TypeOK, NEW c \in Carts, EditCart(c)
  PROVE  TypeOK'
<1>1. /\ pendingKey' \in [Carts -> Nat] /\ \A d \in Carts : pendingKey'[d] <= minted[d]
  BY DEF EditCart, ForgetKey, TypeOK
<1>2. dropped' \subseteq Keys
  BY DropTypes DEF EditCart
<1> QED
  BY <1>1, <1>2 DEF EditCart, ForgetKey, TypeOK, KeyOf, screen, offline, redis

LEMMA ExpireTypes ==
  ASSUME TypeOK, NEW k \in Keys, Expire(k)
  PROVE  TypeOK'
<1>1. cached' \in [Keys -> {"none", "created", "refused"}]
  BY DEF Expire, TypeOK
<1> QED
  BY <1>1, FaultTypes, BreakTypes DEF Expire, TypeOK, KeyOf, browser, screen, cartKeys, offline

LEMMA InitTypes ==
  ASSUME Init
  PROVE  TypeOK
BY MaxAttemptsAssumption, MaxFaultsAssumption DEF Init, TypeOK

LEMMA NextTypes ==
  ASSUME TypeOK, [Next]_vars
  PROVE  TypeOK'
<1>1. CASE UNCHANGED vars
  BY <1>1 DEF vars, TypeOK, KeyOf, browser, screen, cartKeys, offline, redis, history
<1>2. CASE Next
  BY <1>2, SendsTypes, ReloadTypes, EditTypes, HearsTypes, HandlesTypes, RestartTypes, ExpireTypes
  DEF Next
<1> QED
  BY <1>1, <1>2

\* Every reachable state is well typed (type correctness of the middleware's and
\* the browser's bookkeeping).
THEOREM TypeCorrect == Spec => []TypeOK
<1>1. Init => TypeOK
  BY InitTypes
<1>2. TypeOK /\ [Next]_vars => TypeOK'
  BY NextTypes
<1> QED
  BY <1>1, <1>2, PTL DEF Spec

-----------------------------------------------------------------------------
(* Requests, their places and the answers they carry.                      *)

\* An answer is what an order, or its absence, was answered with.
Truthful(r) ==
  /\ r.watched => r.at \in {"handler", "committed"}
  /\ r.at = "committed" \/ r.answer = "created" => orders[KeyOf(r)] > 0

AnswersInv ==
  /\ \A r \in requests : Truthful(r)
  /\ \A k \in Keys : cached[k] = "created" => orders[k] > 0
  /\ ClearedCartsAreOrders

\* A step that removes requests, or puts in such as are truthful.
LEMMA TruthKept ==
  ASSUME TypeOK, AnswersInv, orders' \in [Keys -> Nat],
         \A k \in Keys : orders[k] <= orders'[k],
         \A q \in requests' : q \in requests \/ Truthful(q)'
  PROVE  \A r \in requests' : Truthful(r)'
<1>1. SUFFICES ASSUME NEW r \in requests
               PROVE  Truthful(r)'
  BY Zenon
<1>2. KeyOf(r) \in Keys /\ orders[KeyOf(r)] \in Nat /\ orders'[KeyOf(r)] \in Nat
  BY DEF TypeOK
<1>3. orders[KeyOf(r)] <= orders'[KeyOf(r)]
  BY <1>2
<1>4. Truthful(r)
  BY DEF AnswersInv
<1> QED
  BY <1>2, <1>3, <1>4 DEF Truthful, KeyOf

\* Carts that were cleared stay explained.
LEMMA ClearedKept ==
  ASSUME TypeOK, ClearedCartsAreOrders, orders' \in [Keys -> Nat],
         \A k \in Keys : orders[k] <= orders'[k], wiped \subseteq wiped',
         \A c \in Carts : cart'[c] = "cleared" =>
           \/ cart[c] = "cleared"
           \/ c \in wiped'
           \/ \E k \in KeysOf(c) : orders[k] > 0
  PROVE  ClearedCartsAreOrders'
<1>1. SUFFICES ASSUME NEW c \in Carts, cart'[c] = "cleared", c \notin wiped'
               PROVE  \E k \in KeysOf(c) : orders'[k] > 0
  BY DEF ClearedCartsAreOrders, KeysOf
<1>2. PICK k \in KeysOf(c) : orders[k] > 0
  BY <1>1 DEF ClearedCartsAreOrders
<1>3. k \in Keys /\ orders[k] \in Nat /\ orders'[k] \in Nat /\ orders[k] <= orders'[k]
  BY <1>2 DEF KeysOf, TypeOK
<1> QED
  BY <1>2, <1>3

LEMMA SameOrders ==
  ASSUME TypeOK, UNCHANGED orders
  PROVE  orders' \in [Keys -> Nat] /\ \A k \in Keys : orders[k] <= orders'[k]
BY DEF TypeOK

\* A step of the browser: it puts in requests nobody has answered, takes out
\* some, and leaves locks and orders alone.
LEMMA SendsAnswers ==
  ASSUME TypeOK, AnswersInv, Sends
  PROVE  AnswersInv'
<1>0. UNCHANGED <<orders, cached, cart, wiped>>
  BY DEF Sends, Send, SendBlocked, StartReplay, SyncModules, Replay, ReplayBlocked, Show,
         screen, redis, history
<1>1. \A r \in requests' : Truthful(r)'
  <2>1. CASE UNCHANGED requests
    BY <1>0, <2>1 DEF AnswersInv, Truthful, KeyOf
  <2>2. CASE \E c \in Carts, by \in {"user", "replay"} : Post(c, by)
    <3>1. PICK c \in Carts, by \in {"user", "replay"} : Post(c, by)
      BY <2>2
    <3>2. PICK q : /\ requests' = requests \cup {q}
                   /\ q.at = "wire" /\ q.answer = "none" /\ q.watched = FALSE
      <4> DEFINE w == [cart |-> c, key |-> ResolveKey(c), no |-> attempts[c] + 1, by |-> by,
                       at |-> "wire", answer |-> "none", again |-> FALSE, heard |-> TRUE,
                       watched |-> FALSE]
      <4>1. w.at = "wire" /\ w.answer = "none" /\ w.watched = FALSE
        OBVIOUS
      <4>2. requests' = requests \cup {w}
        BY <3>1 DEF Post
      <4> HIDE DEF w
      <4> QED
        BY <4>1, <4>2
    <3>3. Truthful(q)'
      BY <3>2 DEF Truthful
    <3>4. \A r \in requests : Truthful(r)'
      BY <1>0 DEF AnswersInv, Truthful, KeyOf
    <3> QED
      BY <3>2, <3>3, <3>4
  <2> QED
    BY <2>1, <2>2 DEF Sends, Send, SendBlocked, StartReplay, SyncModules, Replay,
         ReplayBlocked, Show, TypeOK
<1>2. ClearedCartsAreOrders'
  BY <1>0 DEF AnswersInv, ClearedCartsAreOrders
<1> QED
  BY <1>0, <1>1, <1>2 DEF AnswersInv

\* What an answered or lost request leaves of itself.
LEMMA HearsRequests ==
  ASSUME TypeOK, AnswersInv, NEW r \in requests, Hears(r)
  PROVE  /\ \A q \in requests' : q \in requests \/ Truthful(q)'
         /\ UNCHANGED <<orders, lock, cached, left>>
<1>u. UNCHANGED <<orders, lock, cached, left>>
  BY DEF Hears, Accepted, AcceptedNotCleared, Rejected, RefreshAndResend, NetworkError,
         GatewayError, redis, history
<1>k. r \in Requests /\ KeyOf(r) \in Keys /\ Truthful(r)
  BY DEF TypeOK, AnswersInv
<1>1. CASE Accepted(r) \/ AcceptedNotCleared(r) \/ Rejected(r)
  <2>1. requests' \subseteq requests
    BY <1>1 DEF Accepted, AcceptedNotCleared, Rejected
  <2> QED
    BY <1>u, <2>1
<1>2. CASE RefreshAndResend(r)
  <2>0. PICK n : n = attempts[r.cart] + 1
    OBVIOUS
  <2>q. PICK q : q = [r EXCEPT !.no = n, !.at = "wire", !.answer = "none", !.again = TRUE]
    OBVIOUS
  <2>1. requests' \subseteq requests \cup {q}
    BY <1>2, <2>0, <2>q DEF RefreshAndResend, Becomes
  <2>4. ~q.watched /\ q.at = "wire" /\ q.answer = "none"
    BY <1>2, <1>k, <2>q DEF RefreshAndResend, Heard, Truthful, Requests
  <2>5. Truthful(q)'
    BY <2>4 DEF Truthful
  <2> QED
    BY <1>u, <2>1, <2>5
<1>3. CASE NetworkError(r) \/ GatewayError(r)
  <2> DEFINE q == [r EXCEPT !.heard = FALSE]
  <2>1. requests' \subseteq requests \cup {q}
    BY <1>3 DEF NetworkError, GatewayError, Becomes
  <2>2. /\ q \in Requests /\ KeyOf(q) = KeyOf(r) /\ q.watched = r.watched /\ q.at = r.at
        /\ q.answer = r.answer
    BY <1>k DEF Requests, KeyOf
  <2>3. Truthful(q)'
    BY <1>u, <1>k, <2>2 DEF Truthful, KeyOf
  <2> QED
    BY <1>u, <2>1, <2>3
<1> QED
  BY <1>1, <1>2, <1>3 DEF Hears

LEMMA HearsAnswers ==
  ASSUME TypeOK, AnswersInv, NEW r \in requests, Hears(r)
  PROVE  AnswersInv'
<1>u. UNCHANGED <<orders, cached>> /\ orders' \in [Keys -> Nat]
      /\ \A k \in Keys : orders[k] <= orders'[k]
  BY HearsRequests, SameOrders
<1>1. \A q \in requests' : Truthful(q)'
  BY <1>u, HearsRequests, TruthKept
<1>k. KeyOf(r) \in KeysOf(r.cart) /\ Truthful(r) /\ r.cart \in Carts
  BY DEF TypeOK, AnswersInv, KeysOf, KeyOf, Requests
<1>2. wiped \subseteq wiped' /\
      \A c \in Carts : cart'[c] = "cleared" =>
           \/ cart[c] = "cleared"
           \/ c \in wiped'
           \/ \E k \in KeysOf(c) : orders[k] > 0
  <2>1. CASE Accepted(r)
    <3>1. cart' = [cart EXCEPT ![shown] = "cleared"] /\ shown \in Carts
      BY <2>1 DEF Accepted, TypeOK
    <3>2. orders[KeyOf(r)] > 0
      BY <2>1, <1>k DEF Accepted, Truthful
    <3>3. CASE shown = r.cart
      BY <1>k, <2>1, <3>1, <3>2, <3>3 DEF Accepted, TypeOK
    <3>4. CASE shown # r.cart
      <4>1. wiped' = wiped \cup {shown}
        BY <2>1, <3>4 DEF Accepted
      <4> QED
        BY <3>1, <4>1 DEF TypeOK
    <3> QED
      BY <3>3, <3>4
  <2>2. CASE ~Accepted(r)
    BY <2>2 DEF Hears, AcceptedNotCleared, Rejected, RefreshAndResend, NetworkError,
                GatewayError, screen
  <2> QED
    BY <2>1, <2>2
<1>3. ClearedCartsAreOrders'
  BY <1>u, <1>2, ClearedKept DEF AnswersInv
<1> QED
  BY <1>u, <1>1, <1>3 DEF AnswersInv

\* An answer goes out: what it says is so.
LEMMA AnswerTruth ==
  ASSUME TypeOK, AnswersInv, NEW r \in requests, NEW answer \in Answers, Answer(r, answer),
         answer = "created" => orders[KeyOf(r)] > 0, UNCHANGED orders
  PROVE  \A q \in requests' : Truthful(q)'
<1>f. PICK f : f = [r EXCEPT !.at = "answered", !.answer = answer, !.watched = FALSE]
  OBVIOUS
<1>1. requests' \subseteq requests \cup {f}
  BY <1>f DEF Answer
<1>2. /\ f \in Requests /\ KeyOf(f) = KeyOf(r) /\ KeyOf(r) \in Keys
      /\ f.watched = FALSE /\ f.at = "answered" /\ f.answer = answer
  BY <1>f DEF TypeOK, Requests, KeyOf
<1>3. Truthful(f)'
  BY <1>2 DEF Truthful, KeyOf
<1> QED
  BY <1>1, <1>2, <1>3, SameOrders, TruthKept

LEMMA FinishAnswers ==
  ASSUME TypeOK, AnswersInv, NEW r \in requests, NEW answer \in Answers, Finish(r, answer),
         answer = "created" => orders[KeyOf(r)] > 0, UNCHANGED orders
  PROVE  AnswersInv'
<1>1. \A q \in requests' : Truthful(q)'
  BY AnswerTruth DEF Finish
<1>2. \A k \in Keys : cached'[k] = "created" => orders'[k] > 0
  BY DEF Finish, Release, AnswersInv, TypeOK
<1>3. ClearedCartsAreOrders'
  BY SameOrders, ClearedKept DEF Finish, browser, screen, AnswersInv
<1> QED
  BY <1>1, <1>2, <1>3 DEF AnswersInv

\* A request moves on inside the API, and its order may be committed.
LEMMA MoveAnswers ==
  ASSUME TypeOK, AnswersInv, NEW r \in requests, NEW q \in Requests, Becomes(r, q),
         KeyOf(q) \in Keys, Truthful(q)', UNCHANGED <<cached, cart, wiped>>,
         orders' \in [Keys -> Nat], \A k \in Keys : orders[k] <= orders'[k]
  PROVE  AnswersInv'
<1>1. \A p \in requests' : Truthful(p)'
  <2>1. requests' \subseteq requests \cup {q}
    BY DEF Becomes
  <2> QED
    BY <2>1, TruthKept, Zenon
<1>2. \A k \in Keys : cached'[k] = "created" => orders'[k] > 0
  <2>1. \A k \in Keys : orders[k] \in Nat /\ orders'[k] \in Nat
    BY DEF TypeOK
  <2> QED
    BY <2>1 DEF AnswersInv
<1>3. ClearedCartsAreOrders'
  BY ClearedKept DEF AnswersInv
<1> QED
  BY <1>1, <1>2, <1>3 DEF AnswersInv

LEMMA HandlesAnswers ==
  ASSUME TypeOK, AnswersInv, NEW r \in requests, Handles(r)
  PROVE  AnswersInv'
<1>k. r \in Requests /\ KeyOf(r) \in Keys /\ Truthful(r)
  BY DEF TypeOK, AnswersInv
<1>1. CASE TryLock(r)
  <2>1. CASE KeyOf(r) \in lock
    <3> DEFINE q == [r EXCEPT !.at = "taken"]
    <3>1. /\ q \in Requests /\ KeyOf(q) = KeyOf(r) /\ q.at = "taken"
          /\ q.watched = r.watched /\ q.answer = r.answer
      BY <1>k DEF Requests, KeyOf
    <3>2. Becomes(r, q) /\ UNCHANGED <<cached, cart, wiped, orders>> /\ r.at = "wire"
      BY <1>1, <2>1 DEF TryLock, browser, screen, history
    <3>3. Truthful(q)'
      BY <1>k, <3>1, <3>2 DEF Truthful, KeyOf
    <3> HIDE DEF q
    <3> QED
      BY <1>k, <3>1, <3>2, <3>3, SameOrders, MoveAnswers
  <2>2. CASE KeyOf(r) \notin lock
    <3>0. PICK listens \in BOOLEAN : Becomes(r, [r EXCEPT !.at = "handler", !.watched = listens])
      BY <1>1, <2>2 DEF TryLock
    <3> DEFINE q == [r EXCEPT !.at = "handler", !.watched = listens]
    <3>1. /\ q \in Requests /\ KeyOf(q) = KeyOf(r) /\ q.at = "handler" /\ q.answer = r.answer
      BY <1>k DEF Requests, KeyOf
    <3>2. Becomes(r, q) /\ UNCHANGED <<cached, cart, wiped, orders>>
      BY <1>1, <3>0 DEF TryLock, browser, screen, history
    <3>3. Truthful(q)'
      BY <1>k, <3>1, <3>2 DEF Truthful, KeyOf
    <3> HIDE DEF q
    <3> QED
      BY <1>k, <3>1, <3>2, <3>3, SameOrders, MoveAnswers
  <2> QED
    BY <2>1, <2>2
<1>2. CASE AnswerTaken(r)
  <2>1. PICK answer : answer = IF cached[KeyOf(r)] = "none" THEN "duplicate" ELSE cached[KeyOf(r)]
    OBVIOUS
  <2>2. answer \in Answers /\ (answer = "created" => orders[KeyOf(r)] > 0)
    BY <1>k, <2>1 DEF TypeOK, Answers, AnswersInv
  <2>3. \A q \in requests' : Truthful(q)'
    BY <1>2, <2>1, <2>2, AnswerTruth DEF AnswerTaken, history
  <2> QED
    BY <1>2, <2>3
    DEF AnswerTaken, AnswersInv, ClearedCartsAreOrders, browser, screen, redis, history
<1>3. CASE Refuse(r)
  BY <1>3, FinishAnswers DEF Refuse, Answers, history
<1>4. CASE Commit(r)
  <2> DEFINE q == [r EXCEPT !.at = "committed"]
  <2>1. /\ q \in Requests /\ KeyOf(q) = KeyOf(r) /\ q.at = "committed"
        /\ q.watched = r.watched /\ q.answer = r.answer
    BY <1>k DEF Requests, KeyOf
  <2>2. orders' = [orders EXCEPT ![KeyOf(r)] = orders[KeyOf(r)] + 1] /\ orders[KeyOf(r)] \in Nat
    BY <1>4, <1>k DEF Commit, TypeOK
  <2>3. /\ orders' \in [Keys -> Nat] /\ orders'[KeyOf(r)] > 0
        /\ \A k \in Keys : orders[k] <= orders'[k]
    BY <1>k, <2>2 DEF TypeOK
  <2>4. Becomes(r, q) /\ UNCHANGED <<cached, cart, wiped>> /\ r.at = "handler"
    BY <1>4 DEF Commit, browser, screen, redis
  <2>5. Truthful(q)'
    BY <1>k, <2>1, <2>3, <2>4 DEF Truthful, KeyOf
  <2> HIDE DEF q
  <2> QED
    BY <1>k, <2>1, <2>3, <2>4, <2>5, MoveAnswers
<1>5. CASE Succeed(r)
  BY <1>5, <1>k, FinishAnswers DEF Succeed, Answers, history, Truthful
<1>6. CASE RefuseAfterCommit(r)
  BY <1>6, FinishAnswers DEF RefuseAfterCommit, Answers
<1>7. CASE ErrorAfterCommit(r)
  BY <1>7, FinishAnswers DEF ErrorAfterCommit, Answers
<1>8. CASE Abort(r)
  <2> DEFINE q == [r EXCEPT !.watched = FALSE]
  <2>1. /\ q \in Requests /\ KeyOf(q) = KeyOf(r) /\ q.at = r.at
        /\ q.watched = FALSE /\ q.answer = r.answer
    BY <1>k DEF Requests, KeyOf
  <2>2. Becomes(r, q) /\ UNCHANGED <<cached, cart, wiped, orders>>
    BY <1>8 DEF Abort, browser, screen
  <2>3. Truthful(q)'
    BY <1>k, <2>1, <2>2 DEF Truthful, KeyOf
  <2> HIDE DEF q
  <2> QED
    BY <1>k, <2>1, <2>2, <2>3, SameOrders, MoveAnswers
<1> QED
  BY <1>1, <1>2, <1>3, <1>4, <1>5, <1>6, <1>7, <1>8 DEF Handles

LEMMA RestartAnswers ==
  ASSUME TypeOK, AnswersInv, Restart
  PROVE  AnswersInv'
<1>u. UNCHANGED <<cart, wiped, cached, orders>>
  BY RestartFacts DEF browser, screen
<1>1. \A r \in requests : /\ FailedRequest(r) \in Requests /\ KeyOf(FailedRequest(r)) = KeyOf(r)
                          /\ FailedRequest(r).watched = FALSE /\ FailedRequest(r).at = "answered"
                          /\ FailedRequest(r).answer = "failed"
  BY DEF TypeOK, Requests, FailedRequest, Answers, KeyOf
<1>2. \A r \in requests : Truthful(r)'
  BY <1>u DEF AnswersInv, Truthful, KeyOf
<1>3. ASSUME NEW q \in requests'
      PROVE  Truthful(q)'
  <2>1. CASE q \in requests
    BY <1>2, <2>1
  <2>2. CASE q \notin requests
    <3>1. PICK r \in requests : q = FailedRequest(r)
      BY <2>2, RestartFacts DEF Running
    <3> QED
      BY <1>1, <3>1 DEF Truthful
  <2> QED
    BY <2>1, <2>2
<1> QED
  BY <1>u, <1>3 DEF AnswersInv, ClearedCartsAreOrders

LEMMA ReloadAnswers ==
  ASSUME TypeOK, AnswersInv, Reload
  PROVE  AnswersInv'
<1>u. UNCHANGED <<cart, wiped, cached, orders>>
  BY ReloadFacts DEF redis
<1>1. ASSUME NEW q \in requests'
      PROVE  Truthful(q)'
  <2>1. PICK r \in requests : q = Unheard(r)
    BY ReloadFacts DEF Unanswered
  <2>2. Truthful(r) /\ r \in Requests
    BY DEF AnswersInv, TypeOK
  <2>3. KeyOf(q) = KeyOf(r) /\ q.at = r.at /\ q.answer = r.answer /\ q.watched = r.watched
    BY <2>1, <2>2, UnheardFacts
  <2> QED
    BY <1>u, <2>2, <2>3 DEF Truthful, KeyOf
<1> QED
  BY <1>u, <1>1 DEF AnswersInv, ClearedCartsAreOrders

LEMMA EditAnswers ==
  ASSUME AnswersInv, NEW c \in Carts, EditCart(c)
  PROVE  AnswersInv'
BY DEF EditCart, AnswersInv, ClearedCartsAreOrders, Truthful, KeyOf, screen, redis

LEMMA ExpireAnswers ==
  ASSUME TypeOK, AnswersInv, NEW k \in Keys, Expire(k)
  PROVE  AnswersInv'
<1>u. UNCHANGED <<cart, wiped, requests, orders>>
  BY DEF Expire, browser, screen
<1>1. \A j \in Keys : cached'[j] = "created" => cached[j] = "created"
  BY DEF Expire, TypeOK
<1> QED
  BY <1>u, <1>1 DEF AnswersInv, ClearedCartsAreOrders, Truthful, KeyOf

LEMMA NextAnswers ==
  ASSUME TypeOK, AnswersInv, [Next]_vars
  PROVE  AnswersInv'
<1>1. CASE UNCHANGED vars
  BY <1>1 DEF vars, AnswersInv, ClearedCartsAreOrders, Truthful, KeyOf, browser, screen, redis, history
<1>2. CASE Next
  BY <1>2, SendsAnswers, ReloadAnswers, EditAnswers, HearsAnswers, HandlesAnswers, RestartAnswers,
     ExpireAnswers
  DEF Next
<1> QED
  BY <1>1, <1>2

LEMMA AnswersAlways == Spec => []AnswersInv
<1>1. Init => AnswersInv
  BY DEF Init, AnswersInv, ClearedCartsAreOrders
<1>2. TypeOK /\ AnswersInv /\ [Next]_vars => AnswersInv'
  BY NextAnswers
<1> QED
  BY <1>1, <1>2, TypeCorrect, PTL DEF Spec

\* The cart on the screen is cleared only for an order that exists, also when the
\* answer came out of the cache (the middleware's replay of an answer).
THEOREM ClearedOnlyForOrders == Spec => []ClearedCartsAreOrders
<1>1. AnswersInv => ClearedCartsAreOrders
  BY DEF AnswersInv
<1> QED
  BY <1>1, AnswersAlways, PTL

-----------------------------------------------------------------------------
(* Locks.                                                                  *)

\* What is left of a lock's holder when a request that is not watched moves on,
\* comes or goes.
LEMMA HoldersKept ==
  ASSUME RetriesAreNotPoisoned, lock' \subseteq lock, UNCHANGED <<cached, left>>,
         \A r \in requests : r.watched =>
            \E q \in requests' : KeyOf(q) = KeyOf(r) /\ q.watched
  PROVE  RetriesAreNotPoisoned'
<1>1. SUFFICES ASSUME NEW k \in lock, NEW r \in requests, KeyOf(r) = k, r.watched
               PROVE  \E q \in requests' : KeyOf(q) = k /\ q.watched
  BY DEF RetriesAreNotPoisoned, KeyOf
<1> QED
  BY <1>1

LEMMA SendsLocks ==
  ASSUME TypeOK, RetriesAreNotPoisoned, Sends
  PROVE  RetriesAreNotPoisoned'
<1>1. UNCHANGED <<lock, cached, left>>
  BY DEF Sends, Send, SendBlocked, StartReplay, SyncModules, Replay, ReplayBlocked, Show, redis
<1>2. requests \subseteq requests'
  <2>1. CASE UNCHANGED requests
    BY <2>1
  <2>2. CASE \E c \in Carts, by \in {"user", "replay"} : Post(c, by)
    BY <2>2 DEF Post
  <2> QED
    BY <2>1, <2>2 DEF Sends, Send, SendBlocked, StartReplay, SyncModules, Replay,
         ReplayBlocked, Show, TypeOK
<1> QED
  BY <1>1, <1>2, HoldersKept

LEMMA HearsLocks ==
  ASSUME TypeOK, AnswersInv, RetriesAreNotPoisoned, NEW r \in requests, Hears(r)
  PROVE  RetriesAreNotPoisoned'
<1>u. UNCHANGED <<lock, cached, left>>
  BY HearsRequests
<1>k. r \in Requests /\ Truthful(r)
  BY DEF TypeOK, AnswersInv
<1>1. CASE ~r.watched
  <2>1. \A q \in requests : q # r => q \in requests'
    BY DEF Hears, Accepted, AcceptedNotCleared, Rejected, RefreshAndResend, NetworkError,
           GatewayError, Becomes
  <2> QED
    BY <1>u, <1>1, <2>1, HoldersKept
<1>2. CASE r.watched
  <2> DEFINE q == [r EXCEPT !.heard = FALSE]
  <2>1. r.at \in {"handler", "committed"}
    BY <1>k, <1>2 DEF Truthful
  <2>2. requests' = (requests \ {r}) \cup {q}
    BY <2>1 DEF Hears, Accepted, AcceptedNotCleared, Rejected, RefreshAndResend, NetworkError,
           GatewayError, Heard, Becomes
  <2>3. KeyOf(q) = KeyOf(r) /\ q.watched
    BY <1>k, <1>2 DEF Requests, KeyOf
  <2> HIDE DEF q
  <2> QED
    BY <1>u, <2>2, <2>3, HoldersKept
<1> QED
  BY <1>1, <1>2

\* The end of an answer: the lock goes, or the answer is there.
LEMMA FinishLocks ==
  ASSUME TypeOK, RetriesAreNotPoisoned, NEW r \in requests, NEW answer \in Answers, Finish(r, answer)
  PROVE  RetriesAreNotPoisoned'
<1>k. KeyOf(r) \in Keys
  BY DEF TypeOK
<1>1. \A q \in requests : q # r => q \in requests'
  BY DEF Finish, Answer
<1>2. CASE ~r.watched
  BY <1>1, <1>2, HoldersKept DEF Finish, Release
<1>3. CASE r.watched
  <2>1. SUFFICES ASSUME NEW k \in lock'
                 PROVE  \/ \E q \in requests' : KeyOf(q) = k /\ q.watched
                        \/ cached'[k] # "none"
                        \/ k \in left'
    BY DEF RetriesAreNotPoisoned, KeyOf
  <2>2. k \in lock /\ k \in Keys /\ left' = left
    BY <2>1 DEF Finish, Release, TypeOK
  <2>3. CASE k = KeyOf(r)
    BY <1>3, <1>k, <2>1, <2>3 DEF Finish, Release, TypeOK
  <2>4. CASE k # KeyOf(r)
    <3>1. cached'[k] = cached[k]
      BY <1>k, <2>2, <2>4 DEF Finish, Release, TypeOK
    <3> QED
      BY <1>1, <2>2, <2>4, <3>1 DEF RetriesAreNotPoisoned
  <2> QED
    BY <2>3, <2>4
<1> QED
  BY <1>2, <1>3

LEMMA HandlesLocks ==
  ASSUME TypeOK, AnswersInv, RetriesAreNotPoisoned, NEW r \in requests, Handles(r)
  PROVE  RetriesAreNotPoisoned'
<1>k. r \in Requests /\ KeyOf(r) \in Keys /\ Truthful(r)
  BY DEF TypeOK, AnswersInv
<1>1. CASE TryLock(r)
  <2>0. r.at = "wire" /\ ~r.watched
    BY <1>1, <1>k DEF TryLock, Truthful
  <2>1. \A q \in requests : q # r => q \in requests'
    BY <1>1 DEF TryLock, Becomes
  <2>2. CASE KeyOf(r) \in lock
    BY <1>1, <2>0, <2>1, <2>2, HoldersKept DEF TryLock
  <2>3. CASE KeyOf(r) \notin lock
    <3>0. PICK listens \in BOOLEAN :
            /\ Becomes(r, [r EXCEPT !.at = "handler", !.watched = listens])
            /\ left' = IF listens THEN left \ {KeyOf(r)} ELSE left \cup {KeyOf(r)}
      BY <1>1, <2>3 DEF TryLock
    <3> DEFINE s == [r EXCEPT !.at = "handler", !.watched = listens]
    <3>1. s \in requests' /\ KeyOf(s) = KeyOf(r) /\ s.watched = listens
      BY <1>k, <3>0 DEF Becomes, Requests, KeyOf
    <3> HIDE DEF s
    <3>2. cached' = cached /\ lock' = lock \cup {KeyOf(r)}
      BY <1>1, <2>3 DEF TryLock
    <3>4. (\E q \in requests' : KeyOf(q) = KeyOf(r) /\ q.watched) \/ KeyOf(r) \in left'
      BY <3>0, <3>1
    <3>5. \A k : k \in left /\ k # KeyOf(r) => k \in left'
      BY <3>0
    <3>3. SUFFICES ASSUME NEW k \in lock, k # KeyOf(r)
                   PROVE  \/ \E q \in requests' : KeyOf(q) = k /\ q.watched
                          \/ cached[k] # "none"
                          \/ k \in left'
      BY <3>2, <3>4 DEF RetriesAreNotPoisoned, KeyOf
    <3> QED
      BY <2>0, <2>1, <3>3, <3>5 DEF RetriesAreNotPoisoned
  <2> QED
    BY <2>2, <2>3
<1>2. CASE AnswerTaken(r)
  <2>0. ~r.watched
    BY <1>2, <1>k DEF AnswerTaken, Truthful
  <2>1. \A q \in requests : q # r => q \in requests'
    BY <1>2 DEF AnswerTaken, Answer
  <2> QED
    BY <1>2, <2>0, <2>1, HoldersKept DEF AnswerTaken, redis
<1>3. CASE Refuse(r)
  BY <1>3, FinishLocks DEF Refuse, Answers
<1>4. CASE Commit(r)
  <2> DEFINE s == [r EXCEPT !.at = "committed"]
  <2>1. requests' = (requests \ {r}) \cup {s} /\ KeyOf(s) = KeyOf(r) /\ s.watched = r.watched
    BY <1>4, <1>k DEF Commit, Becomes, Requests, KeyOf
  <2> HIDE DEF s
  <2> QED
    BY <1>4, <2>1, HoldersKept DEF Commit, redis
<1>5. CASE Succeed(r)
  BY <1>5, FinishLocks DEF Succeed, Answers
<1>6. CASE RefuseAfterCommit(r)
  BY <1>6, FinishLocks DEF RefuseAfterCommit, Answers
<1>7. CASE ErrorAfterCommit(r)
  BY <1>7, FinishLocks DEF ErrorAfterCommit, Answers
<1>8. CASE Abort(r)
  <2>1. \A q \in requests : q # r => q \in requests'
    BY <1>8 DEF Abort, Becomes
  <2>2. lock' = lock \ {KeyOf(r)} /\ UNCHANGED <<cached, left>>
    BY <1>8 DEF Abort
  <2>3. SUFFICES ASSUME NEW k \in lock, k # KeyOf(r)
                 PROVE  \/ \E q \in requests' : KeyOf(q) = k /\ q.watched
                        \/ cached[k] # "none"
                        \/ k \in left
    BY <2>2 DEF RetriesAreNotPoisoned, KeyOf
  <2> QED
    BY <2>1, <2>3 DEF RetriesAreNotPoisoned
<1> QED
  BY <1>1, <1>2, <1>3, <1>4, <1>5, <1>6, <1>7, <1>8 DEF Handles

LEMMA RestartLocks ==
  ASSUME TypeOK, RetriesAreNotPoisoned, Restart
  PROVE  RetriesAreNotPoisoned'
<1>1. SUFFICES ASSUME NEW k \in lock, k \notin left, cached[k] = "none"
               PROVE  \/ \E q \in requests' : KeyOf(q) = k /\ q.watched
                      \/ k \in left'
  BY RestartFacts DEF RetriesAreNotPoisoned, KeyOf
<1>2. PICK r \in requests : KeyOf(r) = k /\ r.watched
  BY <1>1 DEF RetriesAreNotPoisoned
<1>3. CASE r \in Running
  BY <1>2, <1>3, RestartFacts
<1>4. CASE r \notin Running
  BY <1>2, <1>4, RestartFacts
<1> QED
  BY <1>3, <1>4

LEMMA ReloadLocks ==
  ASSUME TypeOK, AnswersInv, RetriesAreNotPoisoned, Reload
  PROVE  RetriesAreNotPoisoned'
<1>1. ASSUME NEW r \in requests, r.watched
      PROVE  \E q \in requests' : KeyOf(q) = KeyOf(r) /\ q.watched
  <2>1. r \in Unanswered /\ r \in Requests
    BY <1>1 DEF AnswersInv, Truthful, Unanswered, TypeOK
  <2>2. Unheard(r) \in requests'
    BY <2>1, ReloadFacts
  <2> QED
    BY <1>1, <2>1, <2>2, UnheardFacts
<1> QED
  BY <1>1, ReloadFacts, HoldersKept DEF redis

LEMMA EditLocks ==
  ASSUME RetriesAreNotPoisoned, NEW c \in Carts, EditCart(c)
  PROVE  RetriesAreNotPoisoned'
BY DEF EditCart, RetriesAreNotPoisoned, KeyOf, redis

LEMMA ExpireLocks ==
  ASSUME TypeOK, RetriesAreNotPoisoned, NEW k \in Keys, Expire(k)
  PROVE  RetriesAreNotPoisoned'
<1>1. /\ lock' = lock \ {k} /\ left' = left \ {k} /\ UNCHANGED requests
      /\ \A j \in Keys : j # k => cached'[j] = cached[j]
  BY DEF Expire, browser, TypeOK
<1>2. lock \subseteq Keys
  BY DEF TypeOK
<1> QED
  BY <1>1, <1>2 DEF RetriesAreNotPoisoned, KeyOf

LEMMA NextLocks ==
  ASSUME TypeOK, AnswersInv, RetriesAreNotPoisoned, [Next]_vars
  PROVE  RetriesAreNotPoisoned'
<1>1. CASE UNCHANGED vars
  BY <1>1 DEF vars, RetriesAreNotPoisoned, KeyOf, redis
<1>2. CASE Next
  BY <1>2, SendsLocks, ReloadLocks, EditLocks, HearsLocks, HandlesLocks, RestartLocks, ExpireLocks
  DEF Next
<1> QED
  BY <1>1, <1>2

\* A retry is told "duplicate" only while the first request is at work and watched,
\* has its answer cached, or was killed by a restart or begun for a connection that
\* had gone before the middleware listened (a failed, unauthorized or aborted
\* request must not poison a retry).
THEOREM NoPoisonedRetries == Spec => []RetriesAreNotPoisoned
<1>1. Init => RetriesAreNotPoisoned
  BY DEF Init, RetriesAreNotPoisoned
<1>2. TypeOK /\ AnswersInv /\ RetriesAreNotPoisoned /\ [Next]_vars => RetriesAreNotPoisoned'
  BY NextLocks
<1> QED
  BY <1>1, <1>2, TypeCorrect, AnswersAlways, PTL DEF Spec

-----------------------------------------------------------------------------
(* One order per key: a key that nobody holds, a request in the handler and *)
(* an order are the same token, and only what breaks the key adds one.      *)

InHandler(k) == {r \in requests : KeyOf(r) = k /\ r.at = "handler"}
Free(k) == IF k \in lock THEN 0 ELSE 1

Ledger ==
  /\ IsFiniteSet(requests)
  /\ \A k \in Keys : orders[k] + Cardinality(InHandler(k)) + Free(k) <= 1 + broken[k]

LEMMA HandlersFinite ==
  ASSUME IsFiniteSet(requests), NEW k
  PROVE  IsFiniteSet(InHandler(k)) /\ Cardinality(InHandler(k)) \in Nat
<1>1. IsFiniteSet(InHandler(k))
  BY FS_Subset DEF InHandler
<1> QED
  BY <1>1, FS_CardinalityType

LEMMA FreeNat == \A k : Free(k) \in Nat
BY DEF Free

\* The numbers behind a step that adds no token.
LEMMA LedgerKept ==
  ASSUME TypeOK, TypeOK', Ledger, IsFiniteSet(requests)',
         \A k \in Keys :
           /\ Cardinality(InHandler(k))' \in Nat
           /\ orders'[k] + Cardinality(InHandler(k))' + Free(k)' + broken[k]
                <= orders[k] + Cardinality(InHandler(k)) + Free(k) + broken'[k]
  PROVE  Ledger'
<1>1. ASSUME NEW k \in Keys
      PROVE  orders'[k] + Cardinality(InHandler(k))' + Free(k)' <= 1 + broken'[k]
  <2>1. /\ orders[k] \in Nat /\ orders'[k] \in Nat /\ broken[k] \in Nat /\ broken'[k] \in Nat
    BY DEF TypeOK
  <2>2. Cardinality(InHandler(k)) \in Nat /\ Free(k) \in Nat /\ Free(k)' \in Nat
    BY HandlersFinite, FreeNat DEF Ledger, Free
  <2>3. orders[k] + Cardinality(InHandler(k)) + Free(k) <= 1 + broken[k]
    BY DEF Ledger
  <2>4. /\ Cardinality(InHandler(k))' \in Nat
        /\ orders'[k] + Cardinality(InHandler(k))' + Free(k)' + broken[k]
             <= orders[k] + Cardinality(InHandler(k)) + Free(k) + broken'[k]
    OBVIOUS
  <2> QED
    BY <2>1, <2>2, <2>3, <2>4
<1> QED
  BY <1>1 DEF Ledger

\* One request more, or one fewer.
LEMMA FiniteKept ==
  ASSUME IsFiniteSet(requests), NEW q, requests' \subseteq requests \cup {q}
  PROVE  IsFiniteSet(requests)'
<1>1. IsFiniteSet(requests \cup {q})
  BY FS_AddElement
<1> QED
  BY <1>1, FS_Subset

LEMMA FewerHandlers ==
  ASSUME IsFiniteSet(requests), NEW k, InHandler(k)' \subseteq InHandler(k)
  PROVE  Cardinality(InHandler(k))' \in Nat
         /\ Cardinality(InHandler(k))' <= Cardinality(InHandler(k))
<1>1. IsFiniteSet(InHandler(k))
  BY HandlersFinite
<1>2. IsFiniteSet(InHandler(k)') /\ Cardinality(InHandler(k)') <= Cardinality(InHandler(k))
  BY <1>1, FS_Subset
<1> QED
  BY <1>2, FS_CardinalityType

LEMMA OneMoreHandler ==
  ASSUME IsFiniteSet(requests), NEW k, NEW q, InHandler(k)' \subseteq InHandler(k) \cup {q}
  PROVE  Cardinality(InHandler(k))' \in Nat
         /\ Cardinality(InHandler(k))' <= Cardinality(InHandler(k)) + 1
<1>1. IsFiniteSet(InHandler(k)) /\ Cardinality(InHandler(k)) \in Nat
  BY HandlersFinite
<1>2. IsFiniteSet(InHandler(k) \cup {q})
  BY <1>1, FS_AddElement
<1>3. Cardinality(InHandler(k) \cup {q}) <= Cardinality(InHandler(k)) + 1
      /\ Cardinality(InHandler(k) \cup {q}) \in Nat
  BY <1>1, FS_AddElement
<1>4. IsFiniteSet(InHandler(k)') /\ Cardinality(InHandler(k)') <= Cardinality(InHandler(k) \cup {q})
  BY <1>2, FS_Subset
<1>5. Cardinality(InHandler(k)') \in Nat
  BY <1>4, FS_CardinalityType
<1> QED
  BY <1>1, <1>3, <1>4, <1>5

LEMMA OneFewerHandler ==
  ASSUME IsFiniteSet(requests), NEW k, NEW r \in InHandler(k),
         InHandler(k)' \subseteq InHandler(k) \ {r}
  PROVE  Cardinality(InHandler(k))' \in Nat
         /\ Cardinality(InHandler(k))' + 1 <= Cardinality(InHandler(k))
<1>1. IsFiniteSet(InHandler(k)) /\ Cardinality(InHandler(k)) \in Nat
  BY HandlersFinite
<1>2. /\ IsFiniteSet(InHandler(k) \ {r})
      /\ Cardinality(InHandler(k) \ {r}) = Cardinality(InHandler(k)) - 1
  BY <1>1, FS_RemoveElement
<1>3. IsFiniteSet(InHandler(k)') /\ Cardinality(InHandler(k)') <= Cardinality(InHandler(k) \ {r})
  BY <1>2, FS_Subset
<1>4. Cardinality(InHandler(k)') \in Nat
  BY <1>3, FS_CardinalityType
<1> QED
  BY <1>1, <1>2, <1>3, <1>4

\* A request in the handler that stays there, as another record.
LEMMA SwappedHandler ==
  ASSUME IsFiniteSet(requests), NEW k, NEW r \in InHandler(k), NEW q,
         InHandler(k)' \subseteq (InHandler(k) \ {r}) \cup {q}
  PROVE  Cardinality(InHandler(k))' \in Nat
         /\ Cardinality(InHandler(k))' <= Cardinality(InHandler(k))
<1>1. IsFiniteSet(InHandler(k)) /\ Cardinality(InHandler(k)) \in Nat
  BY HandlersFinite
<1>2. /\ IsFiniteSet(InHandler(k) \ {r})
      /\ Cardinality(InHandler(k) \ {r}) = Cardinality(InHandler(k)) - 1
  BY <1>1, FS_RemoveElement
<1>3. /\ IsFiniteSet((InHandler(k) \ {r}) \cup {q})
      /\ Cardinality((InHandler(k) \ {r}) \cup {q}) \in Nat
      /\ Cardinality((InHandler(k) \ {r}) \cup {q}) <= Cardinality(InHandler(k) \ {r}) + 1
  <2>1. Cardinality(InHandler(k) \ {r}) \in Nat
    BY <1>2, FS_CardinalityType
  <2>2. PICK S : S = InHandler(k) \ {r}
    OBVIOUS
  <2>3. /\ IsFiniteSet(S \cup {q})
        /\ Cardinality(S \cup {q}) = Cardinality(S) \/ Cardinality(S \cup {q}) = Cardinality(S) + 1
    BY <1>2, <2>2, FS_AddElement
  <2> QED
    BY <2>1, <2>2, <2>3
<1>4. /\ IsFiniteSet(InHandler(k)')
      /\ Cardinality(InHandler(k)') <= Cardinality((InHandler(k) \ {r}) \cup {q})
  BY <1>3, FS_Subset
<1>5. Cardinality(InHandler(k)') \in Nat
  BY <1>4, FS_CardinalityType
<1> QED
  BY <1>1, <1>2, <1>3, <1>4, <1>5

\* A step that brings nobody into the handler, commits nothing and frees no key.
LEMMA QuietLedger ==
  ASSUME TypeOK, TypeOK', Ledger, IsFiniteSet(requests)',
         \A k \in Keys : /\ Cardinality(InHandler(k))' \in Nat
                         /\ Cardinality(InHandler(k))' <= Cardinality(InHandler(k)),
         UNCHANGED orders,
         \A k \in Keys : Free(k)' + broken[k] <= Free(k) + broken'[k]
  PROVE  Ledger'
<1>1. ASSUME NEW k \in Keys
      PROVE  orders'[k] + Cardinality(InHandler(k))' + Free(k)' + broken[k]
                <= orders[k] + Cardinality(InHandler(k)) + Free(k) + broken'[k]
  <2>1. /\ orders[k] \in Nat /\ broken[k] \in Nat /\ broken'[k] \in Nat
    BY DEF TypeOK
  <2>2. Cardinality(InHandler(k)) \in Nat /\ Free(k) \in Nat /\ Free(k)' \in Nat
    BY HandlersFinite, FreeNat DEF Ledger, Free
  <2>3. /\ Cardinality(InHandler(k))' \in Nat
        /\ Cardinality(InHandler(k))' <= Cardinality(InHandler(k))
        /\ orders'[k] = orders[k]
        /\ Free(k)' + broken[k] <= Free(k) + broken'[k]
    OBVIOUS
  <2> QED
    BY <2>1, <2>2, <2>3
<1> QED
  BY <1>1, LedgerKept

LEMMA SendsLedger ==
  ASSUME TypeOK, TypeOK', Ledger, Sends
  PROVE  Ledger'
<1>1. UNCHANGED <<lock, orders, broken>>
  BY DEF Sends, Send, SendBlocked, StartReplay, SyncModules, Replay, ReplayBlocked, Show,
         redis, history
<1>2. PICK q : requests' \subseteq requests \cup {q} /\ (requests' # requests => q.at = "wire")
  <2>1. CASE UNCHANGED requests
    BY <2>1
  <2>2. CASE \E c \in Carts, by \in {"user", "replay"} : Post(c, by)
    <3>1. PICK c \in Carts, by \in {"user", "replay"} : Post(c, by)
      BY <2>2
    <3> DEFINE w == [cart |-> c, key |-> ResolveKey(c), no |-> attempts[c] + 1, by |-> by,
                     at |-> "wire", answer |-> "none", again |-> FALSE, heard |-> TRUE,
                     watched |-> FALSE]
    <3>2. w.at = "wire" /\ requests' \subseteq requests \cup {w}
      BY <3>1 DEF Post
    <3> HIDE DEF w
    <3> QED
      BY <3>2
  <2> QED
    BY <2>1, <2>2 DEF Sends, Send, SendBlocked, StartReplay, SyncModules, Replay,
         ReplayBlocked, Show, TypeOK
<1>3. \A k \in Keys : InHandler(k)' \subseteq InHandler(k)
  BY <1>2 DEF InHandler, KeyOf
<1>4. \A k \in Keys : Free(k)' + broken[k] <= Free(k) + broken'[k]
  BY <1>1 DEF Free, TypeOK
<1>5. IsFiniteSet(requests)'
  BY <1>2, FiniteKept DEF Ledger
<1> QED
  BY <1>1, <1>3, <1>4, <1>5, FewerHandlers, QuietLedger DEF Ledger

LEMMA HearsLedger ==
  ASSUME TypeOK, TypeOK', Ledger, NEW r \in requests, Hears(r)
  PROVE  Ledger'
<1>u. UNCHANGED <<lock, orders, broken>>
  BY DEF Hears, Accepted, AcceptedNotCleared, Rejected, RefreshAndResend, NetworkError,
         GatewayError, redis, history
<1>k. r \in Requests
  BY DEF TypeOK
<1>1. \A k \in Keys : Free(k)' + broken[k] <= Free(k) + broken'[k]
  BY <1>u DEF Free, TypeOK
<1>2. CASE r.at = "handler"
  <2>1. PICK q : q = [r EXCEPT !.heard = FALSE]
    OBVIOUS
  <2>2. requests' = (requests \ {r}) \cup {q} /\ KeyOf(q) = KeyOf(r)
    BY <1>2, <1>k, <2>1 DEF Hears, Accepted, AcceptedNotCleared, Rejected, RefreshAndResend,
       NetworkError, GatewayError, Heard, Becomes, Requests, KeyOf
  <2>3. IsFiniteSet(requests)'
    BY <2>2, FiniteKept DEF Ledger
  <2>4. ASSUME NEW k \in Keys
        PROVE  /\ Cardinality(InHandler(k))' \in Nat
               /\ Cardinality(InHandler(k))' <= Cardinality(InHandler(k))
    <3>1. CASE KeyOf(r) = k
      <4>1. r \in InHandler(k) /\ InHandler(k)' \subseteq (InHandler(k) \ {r}) \cup {q}
        BY <1>2, <2>2, <3>1 DEF InHandler, KeyOf
      <4> QED
        BY <4>1, SwappedHandler DEF Ledger
    <3>2. CASE KeyOf(r) # k
      <4>1. InHandler(k)' \subseteq InHandler(k)
        BY <2>2, <3>2 DEF InHandler, KeyOf
      <4> QED
        BY <4>1, FewerHandlers DEF Ledger
    <3> QED
      BY <3>1, <3>2
  <2> QED
    BY <1>u, <1>1, <2>3, <2>4, QuietLedger
<1>3. CASE r.at # "handler"
  <2>0. requests' \subseteq requests \/ RefreshAndResend(r) \/ NetworkError(r) \/ GatewayError(r)
    BY DEF Hears, Accepted, AcceptedNotCleared, Rejected
  <2>1. PICK q : requests' \subseteq requests \cup {q} /\ (q \in requests' => q \in requests \/ q.at # "handler")
    <3>1. CASE requests' \subseteq requests
      BY <3>1
    <3>2. CASE RefreshAndResend(r)
      <4> DEFINE w == [r EXCEPT !.no = attempts[r.cart] + 1, !.at = "wire", !.answer = "none",
                                !.again = TRUE]
      <4>1. requests' \subseteq requests \cup {w} /\ w.at = "wire"
        BY <1>k, <3>2 DEF RefreshAndResend, Becomes, Requests
      <4> HIDE DEF w
      <4> QED
        BY <4>1
    <3>3. CASE NetworkError(r) \/ GatewayError(r)
      <4> DEFINE w == [r EXCEPT !.heard = FALSE]
      <4>1. requests' \subseteq requests \cup {w} /\ w.at # "handler"
        BY <1>k, <1>3, <3>3 DEF NetworkError, GatewayError, Becomes, Requests
      <4> HIDE DEF w
      <4> QED
        BY <4>1
    <3> QED
      BY <2>0, <3>1, <3>2, <3>3
  <2>2. \A k \in Keys : InHandler(k)' \subseteq InHandler(k)
    BY <2>1 DEF InHandler, KeyOf
  <2>3. IsFiniteSet(requests)'
    BY <2>1, FiniteKept DEF Ledger
  <2> QED
    BY <1>u, <1>1, <2>2, <2>3, FewerHandlers, QuietLedger DEF Ledger
<1> QED
  BY <1>2, <1>3

\* The end of an answer outside the handler frees no key, or breaks it.
LEMMA FinishLedger ==
  ASSUME TypeOK, TypeOK', Ledger, NEW r \in requests, NEW answer \in Answers, Finish(r, answer),
         UNCHANGED orders,
         \/ r.at # "handler" /\ answer \in {"created", "refused"} /\ UNCHANGED broken
         \/ r.at # "handler" /\ Break(KeyOf(r))
         \/ r.at = "handler" /\ UNCHANGED broken
  PROVE  Ledger'
<1>k. r \in Requests /\ KeyOf(r) \in Keys
  BY DEF TypeOK
<1>1. PICK q : q = [r EXCEPT !.at = "answered", !.answer = answer, !.watched = FALSE]
  OBVIOUS
<1>2. requests' \subseteq (requests \ {r}) \cup {q} /\ q.at = "answered"
  BY <1>k, <1>1 DEF Finish, Answer, Requests
<1>3. IsFiniteSet(requests)'
  BY <1>2, FiniteKept DEF Ledger
<1>4. ASSUME NEW k \in Keys
      PROVE  /\ InHandler(k)' \subseteq InHandler(k)
             /\ k = KeyOf(r) /\ r.at = "handler" =>
                  r \in InHandler(k) /\ InHandler(k)' \subseteq InHandler(k) \ {r}
  BY <1>2 DEF InHandler, KeyOf
<1>5. ASSUME NEW k \in Keys
      PROVE  /\ Cardinality(InHandler(k))' \in Nat
             /\ orders'[k] + Cardinality(InHandler(k))' + Free(k)' + broken[k]
                <= orders[k] + Cardinality(InHandler(k)) + Free(k) + broken'[k]
  <2>1. /\ orders[k] \in Nat /\ orders'[k] = orders[k] /\ broken[k] \in Nat /\ broken'[k] \in Nat
    BY DEF TypeOK
  <2>2. Cardinality(InHandler(k)) \in Nat /\ Free(k) \in Nat /\ Free(k)' \in Nat
    BY HandlersFinite, FreeNat DEF Ledger, Free
  <2>3. CASE k # KeyOf(r)
    <3>1. Free(k)' = Free(k) /\ broken'[k] = broken[k]
      BY <1>k, <2>3 DEF Free, Finish, Release, Break, TypeOK
    <3>2. Cardinality(InHandler(k))' \in Nat /\ Cardinality(InHandler(k))' <= Cardinality(InHandler(k))
      BY <1>4, FewerHandlers DEF Ledger
    <3> QED
      BY <2>1, <2>2, <3>1, <3>2
  <2>4. CASE k = KeyOf(r) /\ r.at = "handler"
    <3>1. broken'[k] = broken[k] /\ Free(k)' <= Free(k) + 1
      BY <2>4 DEF Free
    <3>2. /\ Cardinality(InHandler(k))' \in Nat
          /\ Cardinality(InHandler(k))' + 1 <= Cardinality(InHandler(k))
      BY <1>4, <2>4, OneFewerHandler DEF Ledger
    <3> QED
      BY <2>1, <2>2, <3>1, <3>2
  <2>5. CASE k = KeyOf(r) /\ r.at # "handler"
    <3>1. Free(k)' + broken[k] <= Free(k) + broken'[k]
      <4>1. CASE answer \in {"created", "refused"} /\ UNCHANGED broken
        <5>1. lock' = lock
          BY <4>1 DEF Finish, Release
        <5> QED
          BY <2>1, <4>1, <5>1 DEF Free
      <4>2. CASE Break(KeyOf(r))
        <5>1. broken'[k] = broken[k] + 1
          BY <1>k, <2>5, <4>2 DEF Break, TypeOK
        <5> QED
          BY <2>1, <5>1 DEF Free
      <4> QED
        BY <2>5, <4>1, <4>2
    <3>2. Cardinality(InHandler(k))' \in Nat /\ Cardinality(InHandler(k))' <= Cardinality(InHandler(k))
      BY <1>4, FewerHandlers DEF Ledger
    <3> QED
      BY <2>1, <2>2, <3>1, <3>2
  <2> QED
    BY <2>3, <2>4, <2>5
<1> QED
  BY <1>3, <1>5, LedgerKept

LEMMA HandlesLedger ==
  ASSUME TypeOK, TypeOK', AnswersInv, Ledger, NEW r \in requests, Handles(r)
  PROVE  Ledger'
<1>k. r \in Requests /\ KeyOf(r) \in Keys /\ Truthful(r)
  BY DEF TypeOK, AnswersInv
<1>n. \A k \in Keys : /\ orders[k] \in Nat /\ orders'[k] \in Nat
                      /\ broken[k] \in Nat /\ broken'[k] \in Nat
                      /\ Cardinality(InHandler(k)) \in Nat /\ Free(k) \in Nat /\ Free(k)' \in Nat
  BY HandlersFinite, FreeNat DEF Ledger, Free, TypeOK
<1>1. CASE TryLock(r)
  <2>0. UNCHANGED <<orders, broken>> /\ lock' = lock \cup {KeyOf(r)}
    BY <1>1 DEF TryLock, history
  <2>1. CASE KeyOf(r) \in lock
    <3>1. PICK q : q = [r EXCEPT !.at = "taken"]
      OBVIOUS
    <3>2. requests' = (requests \ {r}) \cup {q} /\ q.at = "taken"
      BY <1>1, <1>k, <2>1, <3>1 DEF TryLock, Becomes, Requests
    <3>3. \A k \in Keys : InHandler(k)' \subseteq InHandler(k)
      BY <3>2 DEF InHandler, KeyOf
    <3>4. \A k \in Keys : Free(k)' + broken[k] <= Free(k) + broken'[k]
      BY <1>n, <2>0, <2>1 DEF Free
    <3>5. IsFiniteSet(requests)'
      BY <3>2, FiniteKept DEF Ledger
    <3> QED
      BY <2>0, <3>3, <3>4, <3>5, FewerHandlers, QuietLedger DEF Ledger
  <2>2. CASE KeyOf(r) \notin lock
    <3>0. PICK listens \in BOOLEAN : Becomes(r, [r EXCEPT !.at = "handler", !.watched = listens])
      BY <1>1, <2>2 DEF TryLock
    <3>1. PICK q : q = [r EXCEPT !.at = "handler", !.watched = listens]
      OBVIOUS
    <3>2. requests' = (requests \ {r}) \cup {q} /\ KeyOf(q) = KeyOf(r)
      BY <1>k, <3>0, <3>1 DEF Becomes, Requests, KeyOf
    <3>3. IsFiniteSet(requests)'
      BY <3>2, FiniteKept DEF Ledger
    <3>4. ASSUME NEW k \in Keys
          PROVE  /\ Cardinality(InHandler(k))' \in Nat
                 /\ orders'[k] + Cardinality(InHandler(k))' + Free(k)' + broken[k]
                      <= orders[k] + Cardinality(InHandler(k)) + Free(k) + broken'[k]
      <4>1. CASE k = KeyOf(r)
        <5>1. InHandler(k)' \subseteq InHandler(k) \cup {q}
          BY <3>2 DEF InHandler, KeyOf
        <5>2. /\ Cardinality(InHandler(k))' \in Nat
              /\ Cardinality(InHandler(k))' <= Cardinality(InHandler(k)) + 1
          BY <5>1, OneMoreHandler DEF Ledger
        <5>3. Free(k) = 1 /\ Free(k)' = 0
          BY <2>0, <2>2, <4>1 DEF Free
        <5> QED
          BY <1>n, <2>0, <5>2, <5>3
      <4>2. CASE k # KeyOf(r)
        <5>1. InHandler(k)' \subseteq InHandler(k)
          BY <3>2, <4>2 DEF InHandler, KeyOf
        <5>2. Free(k)' = Free(k)
          BY <2>0, <4>2 DEF Free
        <5>3. /\ Cardinality(InHandler(k))' \in Nat
              /\ Cardinality(InHandler(k))' <= Cardinality(InHandler(k))
          BY <5>1, FewerHandlers DEF Ledger
        <5> QED
          BY <1>n, <2>0, <5>2, <5>3
      <4> QED
        BY <4>1, <4>2
    <3> QED
      BY <3>3, <3>4, LedgerKept
  <2> QED
    BY <2>1, <2>2
<1>2. CASE AnswerTaken(r)
  <2>1. requests' \subseteq requests \cup {q \in requests' : q.at = "answered"}
        /\ \E q : requests' \subseteq requests \cup {q}
    <3>1. PICK answer : Answer(r, answer)
      BY <1>2 DEF AnswerTaken
    <3> DEFINE w == [r EXCEPT !.at = "answered", !.answer = answer, !.watched = FALSE]
    <3>2. w.at = "answered" /\ requests' \subseteq requests \cup {w}
      BY <1>k, <3>1 DEF Answer, Requests
    <3> HIDE DEF w
    <3> QED
      BY <3>2
  <2>2. \A k \in Keys : InHandler(k)' \subseteq InHandler(k)
    BY <2>1 DEF InHandler, KeyOf
  <2>3. \A k \in Keys : Free(k)' + broken[k] <= Free(k) + broken'[k]
    BY <1>2, <1>n DEF Free, AnswerTaken, redis, history
  <2>4. IsFiniteSet(requests)'
    BY <2>1, FiniteKept DEF Ledger
  <2>5. UNCHANGED orders
    BY <1>2 DEF AnswerTaken, history
  <2> QED
    BY <2>2, <2>3, <2>4, <2>5, FewerHandlers, QuietLedger DEF Ledger
<1>3. CASE Refuse(r)
  BY <1>3, FinishLedger DEF Refuse, Answers, history
<1>4. CASE Commit(r)
  <2>1. PICK q : q = [r EXCEPT !.at = "committed"]
    OBVIOUS
  <2>2. requests' = (requests \ {r}) \cup {q} /\ q.at = "committed" /\ r.at = "handler"
    BY <1>4, <1>k, <2>1 DEF Commit, Becomes, Requests
  <2>3. IsFiniteSet(requests)'
    BY <2>2, FiniteKept DEF Ledger
  <2>4. UNCHANGED <<lock, broken>> /\ orders' = [orders EXCEPT ![KeyOf(r)] = orders[KeyOf(r)] + 1]
    BY <1>4 DEF Commit, redis
  <2>5. ASSUME NEW k \in Keys
        PROVE  /\ Cardinality(InHandler(k))' \in Nat
               /\ orders'[k] + Cardinality(InHandler(k))' + Free(k)' + broken[k]
                    <= orders[k] + Cardinality(InHandler(k)) + Free(k) + broken'[k]
    <3>1. CASE k = KeyOf(r)
      <4>1. r \in InHandler(k) /\ InHandler(k)' \subseteq InHandler(k) \ {r}
        BY <2>2, <3>1 DEF InHandler, KeyOf
      <4>2. /\ Cardinality(InHandler(k))' \in Nat
            /\ Cardinality(InHandler(k))' + 1 <= Cardinality(InHandler(k))
        BY <4>1, OneFewerHandler DEF Ledger
      <4>3. orders'[k] = orders[k] + 1 /\ Free(k)' = Free(k) /\ broken'[k] = broken[k]
        BY <1>k, <2>4, <3>1 DEF Free, TypeOK
      <4> QED
        BY <1>n, <4>2, <4>3
    <3>2. CASE k # KeyOf(r)
      <4>1. InHandler(k)' \subseteq InHandler(k)
        BY <2>2 DEF InHandler, KeyOf
      <4>2. /\ Cardinality(InHandler(k))' \in Nat
            /\ Cardinality(InHandler(k))' <= Cardinality(InHandler(k))
        BY <4>1, FewerHandlers DEF Ledger
      <4>3. orders'[k] = orders[k] /\ Free(k)' = Free(k) /\ broken'[k] = broken[k]
        BY <1>k, <2>4, <3>2 DEF Free, TypeOK
      <4> QED
        BY <1>n, <4>2, <4>3
    <3> QED
      BY <3>1, <3>2
  <2> QED
    BY <2>3, <2>5, LedgerKept
<1>5. CASE Succeed(r)
  BY <1>5, FinishLedger DEF Succeed, Answers, history
<1>6. CASE RefuseAfterCommit(r)
  BY <1>6, FinishLedger DEF RefuseAfterCommit, Answers
<1>7. CASE ErrorAfterCommit(r)
  BY <1>7, FinishLedger DEF ErrorAfterCommit, Answers
<1>8. CASE Abort(r)
  <2>1. PICK q : q = [r EXCEPT !.watched = FALSE]
    OBVIOUS
  <2>2. requests' = (requests \ {r}) \cup {q} /\ KeyOf(q) = KeyOf(r) /\ q.at = r.at
    BY <1>8, <1>k, <2>1 DEF Abort, Becomes, Requests, KeyOf
  <2>3. IsFiniteSet(requests)'
    BY <2>2, FiniteKept DEF Ledger
  <2>4. ASSUME NEW k \in Keys
        PROVE  Cardinality(InHandler(k))' \in Nat /\ Cardinality(InHandler(k))' <= Cardinality(InHandler(k))
    <3>1. CASE KeyOf(r) = k /\ r.at = "handler"
      <4>1. r \in InHandler(k) /\ InHandler(k)' \subseteq (InHandler(k) \ {r}) \cup {q}
        BY <2>2, <3>1 DEF InHandler, KeyOf
      <4> QED
        BY <4>1, SwappedHandler DEF Ledger
    <3>2. CASE KeyOf(r) # k \/ r.at # "handler"
      <4>1. InHandler(k)' \subseteq InHandler(k)
        BY <2>2, <3>2 DEF InHandler, KeyOf
      <4> QED
        BY <4>1, FewerHandlers DEF Ledger
    <3> QED
      BY <3>1, <3>2
  <2>5. ASSUME NEW k \in Keys
        PROVE  Free(k)' + broken[k] <= Free(k) + broken'[k]
    <3>1. CASE k = KeyOf(r)
      <4>1. broken'[k] = broken[k] + 1
        BY <1>8, <1>k, <3>1 DEF Abort, Break, TypeOK
      <4> QED
        BY <1>n, <4>1 DEF Free
    <3>2. CASE k # KeyOf(r)
      <4>1. broken'[k] = broken[k] /\ Free(k)' = Free(k)
        BY <1>8, <1>k, <3>2 DEF Abort, Break, Free, TypeOK
      <4> QED
        BY <1>n, <4>1
    <3> QED
      BY <3>1, <3>2
  <2>6. UNCHANGED orders
    BY <1>8 DEF Abort
  <2> QED
    BY <2>3, <2>4, <2>5, <2>6, QuietLedger
<1> QED
  BY <1>1, <1>2, <1>3, <1>4, <1>5, <1>6, <1>7, <1>8 DEF Handles

LEMMA RestartLedger ==
  ASSUME TypeOK, TypeOK', Ledger, Restart
  PROVE  Ledger'
<1>1. IsFiniteSet(requests)'
  <2>1. IsFiniteSet({r \in Running : r.heard}) /\ IsFiniteSet(requests \ Running)
    BY FS_Subset DEF Ledger, Running
  <2>2. PICK S : S = {r \in Running : r.heard}
    OBVIOUS
  <2>3. PICK f : f = [r \in S |-> FailedRequest(r)]
    OBVIOUS
  <2>4. f \in Surjection(S, {FailedRequest(r) : r \in S})
    BY <2>3 DEF Surjection
  <2>5. IsFiniteSet({FailedRequest(r) : r \in S})
    BY <2>1, <2>2, <2>4, FS_Surjection
  <2>6. IsFiniteSet((requests \ Running) \cup {FailedRequest(r) : r \in S})
    BY <2>1, <2>5, FS_Union
  <2> QED
    BY <2>2, <2>6, RestartFacts
<1>2. \A r \in requests : FailedRequest(r).at = "answered"
  BY DEF TypeOK, Requests, FailedRequest
<1>3. \A k \in Keys : InHandler(k)' \subseteq InHandler(k)
  BY <1>2, RestartFacts DEF InHandler, KeyOf, Running
<1>4. \A k \in Keys : Free(k)' + broken[k] <= Free(k) + broken'[k]
  BY RestartFacts DEF Free, TypeOK
<1> QED
  BY <1>1, <1>3, <1>4, RestartFacts, FewerHandlers, QuietLedger DEF Ledger

LEMMA ReloadLedger ==
  ASSUME TypeOK, TypeOK', Ledger, Reload
  PROVE  Ledger'
<1>1. \A S : IsFiniteSet(S) => /\ IsFiniteSet({Unheard(r) : r \in S})
                              /\ Cardinality({Unheard(r) : r \in S}) <= Cardinality(S)
  <2> SUFFICES ASSUME NEW S, IsFiniteSet(S)
               PROVE  /\ IsFiniteSet({Unheard(r) : r \in S})
                      /\ Cardinality({Unheard(r) : r \in S}) <= Cardinality(S)
    OBVIOUS
  <2>1. PICK f : f = [r \in S |-> Unheard(r)]
    OBVIOUS
  <2>2. f \in Surjection(S, {Unheard(r) : r \in S})
    BY <2>1 DEF Surjection
  <2> QED
    BY <2>2, FS_Surjection
<1>2. IsFiniteSet(requests)'
  <2>1. IsFiniteSet(Unanswered)
    BY FS_Subset DEF Ledger, Unanswered
  <2> QED
    BY <1>1, <2>1, ReloadFacts
<1>3. ASSUME NEW k \in Keys
      PROVE  /\ Cardinality(InHandler(k))' \in Nat
             /\ Cardinality(InHandler(k))' <= Cardinality(InHandler(k))
  <2>1. PICK S : S = InHandler(k)
    OBVIOUS
  <2>2. PICK T : T = {Unheard(r) : r \in S}
    OBVIOUS
  <2>3. IsFiniteSet(S) /\ Cardinality(S) \in Nat
    BY <2>1, HandlersFinite DEF Ledger
  <2>4. IsFiniteSet(T) /\ Cardinality(T) <= Cardinality(S) /\ Cardinality(T) \in Nat
    BY <1>1, <2>2, <2>3, FS_CardinalityType
  <2>5. InHandler(k)' \subseteq T
    <3>1. SUFFICES ASSUME NEW q \in requests', KeyOf(q) = k, q.at = "handler"
                   PROVE  q \in T
      BY DEF InHandler, KeyOf
    <3>2. PICK r \in requests : q = Unheard(r)
      BY ReloadFacts DEF Unanswered
    <3>3. r \in Requests
      BY DEF TypeOK
    <3>4. KeyOf(r) = k /\ r.at = "handler"
      BY <3>1, <3>2, <3>3, UnheardFacts
    <3> QED
      BY <2>1, <2>2, <3>2, <3>4 DEF InHandler
  <2>6. IsFiniteSet(InHandler(k)') /\ Cardinality(InHandler(k)') <= Cardinality(T)
    BY <2>4, <2>5, FS_Subset
  <2>7. Cardinality(InHandler(k)') \in Nat
    BY <2>6, FS_CardinalityType
  <2> QED
    BY <2>1, <2>3, <2>4, <2>6, <2>7
<1>4. UNCHANGED <<lock, orders, broken>>
  BY ReloadFacts DEF redis
<1>5. \A k \in Keys : Free(k)' + broken[k] <= Free(k) + broken'[k]
  BY <1>4 DEF Free, TypeOK
<1> QED
  BY <1>2, <1>3, <1>4, <1>5, QuietLedger

LEMMA EditLedger ==
  ASSUME TypeOK, TypeOK', Ledger, NEW c \in Carts, EditCart(c)
  PROVE  Ledger'
<1>1. UNCHANGED <<requests, lock, orders, broken>>
  BY DEF EditCart, redis
<1> QED
  BY <1>1 DEF Ledger, InHandler, Free, KeyOf

LEMMA ExpireLedger ==
  ASSUME TypeOK, TypeOK', Ledger, NEW k \in Keys, Expire(k)
  PROVE  Ledger'
<1>1. UNCHANGED <<requests, orders>> /\ lock' = lock \ {k} /\ k \in lock
      /\ broken' = [broken EXCEPT ![k] = broken[k] + 1]
  BY DEF Expire, Break
<1>2. \A j \in Keys : Free(j)' + broken[j] <= Free(j) + broken'[j]
  BY <1>1 DEF Free, TypeOK
<1>3. \A j \in Keys : InHandler(j)' \subseteq InHandler(j)
  BY <1>1 DEF InHandler, KeyOf
<1>4. IsFiniteSet(requests)'
  BY <1>1 DEF Ledger
<1> QED
  BY <1>1, <1>2, <1>3, <1>4, FewerHandlers, QuietLedger DEF Ledger

LEMMA NextLedger ==
  ASSUME TypeOK, TypeOK', AnswersInv, Ledger, [Next]_vars
  PROVE  Ledger'
<1>1. CASE UNCHANGED vars
  BY <1>1 DEF vars, Ledger, InHandler, Free, KeyOf, redis, history
<1>2. CASE Next
  BY <1>2, SendsLedger, ReloadLedger, EditLedger, HearsLedger, HandlesLedger, RestartLedger,
     ExpireLedger
  DEF Next
<1> QED
  BY <1>1, <1>2

LEMMA InitLedger ==
  ASSUME Init
  PROVE  Ledger
<1>1. requests = {} /\ IsFiniteSet(requests)
  BY FS_EmptySet DEF Init
<1>2. \A k \in Keys : InHandler(k) = {}
  BY <1>1 DEF InHandler
<1>3. Cardinality({}) = 0
  BY FS_EmptySet
<1> QED
  BY <1>1, <1>2, <1>3 DEF Init, Ledger, Free

LEMMA LedgerAlways == Spec => []Ledger
<1>1. Init => Ledger
  BY InitLedger
<1>2. TypeOK /\ TypeOK' /\ AnswersInv /\ Ledger /\ [Next]_vars => Ledger'
  BY NextLedger
<1> QED
  BY <1>1, <1>2, TypeCorrect, AnswersAlways, PTL DEF Spec

\* However often requests with one key are sent, lost and sent again, they create
\* one order, and one more for each time the key lost its protection (the
\* promise of the idempotency middleware).
THEOREM KeysCreateOneOrder == Spec => []OneOrderPerKey
<1>1. TypeOK /\ Ledger => OneOrderPerKey
  <2> SUFFICES ASSUME TypeOK, Ledger, NEW k \in Keys
               PROVE  orders[k] <= 1 + broken[k]
    BY DEF OneOrderPerKey
  <2>1. /\ orders[k] \in Nat /\ broken[k] \in Nat
        /\ Cardinality(InHandler(k)) \in Nat /\ Free(k) \in Nat
        /\ orders[k] + Cardinality(InHandler(k)) + Free(k) <= 1 + broken[k]
    BY HandlersFinite, FreeNat DEF Ledger, TypeOK
  <2> QED
    BY <2>1
<1> QED
  BY <1>1, TypeCorrect, LedgerAlways, PTL

-----------------------------------------------------------------------------
(* One order per cart.  A key counts when it has an order or a request that *)
(* may make one; it is spent when it counts and is not the pending one.     *)
(* What the cart may still do, once more from the screen and once for every *)
(* entry of the queue, must be paid for together with what it has spent.    *)

Counts(k) == orders[k] > 0 \/ \E q \in requests : KeyOf(q) = k /\ MayOrder(q)

Spent(c) == {k \in KeysOf(c) : k[2] # pendingKey[c] /\ Counts(k)}

HeardFor(c, by) == {r \in requests : r.cart = c /\ r.by = by /\ r.heard}

OpenCart(c) == cart[c] = "open" \/ HeardFor(c, "user") # {}

Chances(c) == Entries(c) + (IF OpenCart(c) THEN 1 ELSE 0)

Limit(c) == 1 + blocked[c] + Cardinality(dropped \cap KeysOf(c))

DroppedOld == \A k \in dropped : k[2] <= minted[k[1]] /\ k[2] # pendingKey[k[1]]

OneHeard == \A q, r \in requests : q.by = "user" /\ q.heard /\ r.by = "user" /\ r.heard => q = r

CartsInv ==
  /\ \A c \in Carts : Cardinality(Spent(c)) + Chances(c) <= Limit(c)
  /\ \A c \in Carts : pendingKey[c] # 0 => Cardinality(Spent(c)) + 1 <= Limit(c)
  /\ DroppedOld /\ OneHeard

LEMMA KeysOfFinite ==
  ASSUME NEW c \in Carts
  PROVE  /\ IsFiniteSet(KeysOf(c))
         /\ \A k \in KeysOf(c) : k \in Keys /\ k = <<c, k[2]>> /\ k[1] = c /\ k[2] \in Nat \ {0}
<1>1. MaxAttempts[c] \in Nat
  BY MaxAttemptsAssumption
<1>2. KeysOf(c) \subseteq {c} \X (1..MaxAttempts[c])
  BY DEF KeysOf, Keys
<1>3. IsFiniteSet({c}) /\ IsFiniteSet(1..MaxAttempts[c])
  <2>1. IsFiniteSet({c})
    BY FS_Singleton
  <2>2. 1 \in Int /\ MaxAttempts[c] \in Int
    BY <1>1
  <2>3. IsFiniteSet(1..MaxAttempts[c])
    BY <2>2, FS_Interval
  <2> QED
    BY <2>1, <2>3
<1>4. IsFiniteSet({c} \X (1..MaxAttempts[c]))
  BY <1>3, FS_Product
<1>5. IsFiniteSet(KeysOf(c))
  BY <1>2, <1>4, FS_Subset
<1>6. \A k \in {c} \X (1..MaxAttempts[c]) : k = <<c, k[2]>> /\ k[1] = c /\ k[2] \in Nat \ {0}
  BY <1>1
<1> QED
  BY <1>2, <1>5, <1>6 DEF KeysOf

LEMMA CountsSmaller ==
  ASSUME NEW S, IsFiniteSet(S), NEW T, T \subseteq S
  PROVE  IsFiniteSet(T) /\ Cardinality(T) \in Nat /\ Cardinality(S) \in Nat
         /\ Cardinality(T) <= Cardinality(S)
BY FS_Subset, FS_CardinalityType

\* The numbers of the invariant are natural numbers, before and after a step.
LEMMA CartNumbers ==
  ASSUME TypeOK, TypeOK', IsFiniteSet(requests), IsFiniteSet(requests)', NEW c \in Carts
  PROVE  /\ IsFiniteSet(Spent(c)) /\ Cardinality(Spent(c)) \in Nat
         /\ Chances(c) \in Nat /\ Limit(c) \in Nat /\ Entries(c) \in Nat
         /\ IsFiniteSet(Spent(c)') /\ Cardinality(Spent(c)') \in Nat
         /\ Chances(c)' \in Nat /\ Limit(c)' \in Nat /\ Entries(c)' \in Nat
<1>1. /\ IsFiniteSet(Spent(c)) /\ Cardinality(Spent(c)) \in Nat
      /\ IsFiniteSet(Spent(c)') /\ Cardinality(Spent(c)') \in Nat
  <2>1. Spent(c) \subseteq KeysOf(c) /\ Spent(c)' \subseteq KeysOf(c)
    BY DEF Spent, KeysOf
  <2> QED
    BY <2>1, KeysOfFinite, CountsSmaller
<1>2. /\ Cardinality(dropped \cap KeysOf(c)) \in Nat
      /\ Cardinality(dropped' \cap KeysOf(c)) \in Nat
  <2>1. dropped \cap KeysOf(c) \subseteq KeysOf(c) /\ dropped' \cap KeysOf(c) \subseteq KeysOf(c)
    OBVIOUS
  <2> QED
    BY <2>1, KeysOfFinite, CountsSmaller
<1>3. Limit(c) \in Nat /\ Limit(c)' \in Nat
  <2>1. Limit(c)' = 1 + blocked'[c] + Cardinality(dropped' \cap KeysOf(c))
    BY DEF Limit, KeysOf
  <2>2. blocked[c] \in Nat /\ blocked'[c] \in Nat
    BY DEF TypeOK
  <2> QED
    BY <1>2, <2>1, <2>2 DEF Limit
<1>4. Entries(c) \in Nat /\ Entries(c)' \in Nat
  <2>1. Cardinality(HeardFor(c, "replay")) \in Nat /\ Cardinality(HeardFor(c, "replay")') \in Nat
    <3>1. HeardFor(c, "replay") \subseteq requests /\ HeardFor(c, "replay")' \subseteq requests'
      BY DEF HeardFor
    <3> QED
      BY <3>1, CountsSmaller
  <2>2. /\ Entries(c) = queue[c] + replaying[c] + Cardinality(HeardFor(c, "replay"))
        /\ Entries(c)' = queue'[c] + replaying'[c] + Cardinality(HeardFor(c, "replay")')
    BY DEF Entries, HeardFor
  <2>3. queue[c] \in Nat /\ replaying[c] \in Nat /\ queue'[c] \in Nat /\ replaying'[c] \in Nat
    BY DEF TypeOK
  <2> QED
    BY <2>1, <2>2, <2>3
<1>5. Chances(c) \in Nat /\ Chances(c)' \in Nat
  BY <1>4 DEF Chances
<1> QED
  BY <1>1, <1>3, <1>4, <1>5

\* Steps that leave the keys of the browser alone and make no chance.
LEMMA QuietCarts ==
  ASSUME TypeOK, TypeOK', IsFiniteSet(requests), IsFiniteSet(requests)', CartsInv,
         \A k \in Keys : Counts(k)' => Counts(k),
         \A c \in Carts : Chances(c)' <= Chances(c),
         UNCHANGED <<pendingKey, minted, blocked, dropped>>, OneHeard'
  PROVE  CartsInv'
<1>1. ASSUME NEW c \in Carts
      PROVE  /\ Cardinality(Spent(c)') + Chances(c)' <= Limit(c)'
             /\ pendingKey'[c] # 0 => Cardinality(Spent(c)') + 1 <= Limit(c)'
  <2>1. Spent(c)' \subseteq Spent(c)
    BY KeysOfFinite DEF Spent
  <2>2. Cardinality(Spent(c)') <= Cardinality(Spent(c))
    BY <2>1, CartNumbers, CountsSmaller
  <2>3. Limit(c)' = Limit(c)
    BY DEF Limit
  <2>4. /\ Cardinality(Spent(c)) + Chances(c) <= Limit(c)
        /\ pendingKey[c] # 0 => Cardinality(Spent(c)) + 1 <= Limit(c)
        /\ Chances(c)' <= Chances(c) /\ pendingKey'[c] = pendingKey[c]
    BY DEF CartsInv
  <2> QED
    BY <2>2, <2>3, <2>4, CartNumbers
<1>2. DroppedOld'
  BY DEF CartsInv, DroppedOld
<1> QED
  BY <1>1, <1>2 DEF CartsInv

\* Requests that go on as they were, as far as keys and carts are concerned, or
\* are gone: g says which request each was before.
Moves(g) ==
    \A s \in requests' : \E r \in requests :
      /\ s = g[r]
      /\ s.cart = r.cart /\ s.key = r.key /\ s.by = r.by
      /\ s.heard => r.heard
      /\ MayOrder(s) => MayOrder(r)

LEMMA MovesFacts ==
  ASSUME IsFiniteSet(requests), NEW g, Moves(g)
  PROVE  /\ UNCHANGED orders => \A k : Counts(k)' => Counts(k)
         /\ \A c, by : /\ Cardinality(HeardFor(c, by)') <= Cardinality(HeardFor(c, by))
                       /\ HeardFor(c, by)' # {} => HeardFor(c, by) # {}
         /\ OneHeard => OneHeard'
<1>1. ASSUME UNCHANGED orders, NEW k, Counts(k)'
      PROVE  Counts(k)
  BY <1>1 DEF Counts, Moves, KeyOf, MayOrder
<1>2. ASSUME NEW c, NEW by
      PROVE  /\ Cardinality(HeardFor(c, by)') <= Cardinality(HeardFor(c, by))
             /\ HeardFor(c, by)' # {} => HeardFor(c, by) # {}
  <2> DEFINE S == HeardFor(c, by)
             f == [r \in S |-> g[r]]
             T == {f[r] : r \in S}
  <2>1. IsFiniteSet(S)
    BY FS_Subset DEF HeardFor
  <2>2. HeardFor(c, by)' \subseteq T
    BY DEF HeardFor, Moves
  <2>3. f \in Surjection(S, T)
    BY DEF Surjection
  <2> HIDE DEF S, f, T
  <2>4. IsFiniteSet(T) /\ Cardinality(T) <= Cardinality(S)
    BY <2>1, <2>3, FS_Surjection
  <2>5. Cardinality(HeardFor(c, by)') <= Cardinality(T) /\ Cardinality(HeardFor(c, by)') \in Nat
    BY <2>2, <2>4, CountsSmaller
  <2>6. Cardinality(T) \in Nat /\ Cardinality(S) \in Nat
    BY <2>1, <2>4, FS_CardinalityType
  <2>7. Cardinality(HeardFor(c, by)') <= Cardinality(HeardFor(c, by))
    BY <2>4, <2>5, <2>6 DEF S
  <2>8. HeardFor(c, by)' # {} => HeardFor(c, by) # {}
    BY DEF HeardFor, Moves
  <2> QED
    BY <2>7, <2>8
<1>3. ASSUME OneHeard
      PROVE  OneHeard'
  BY <1>3 DEF OneHeard, Moves
<1> QED
  BY <1>1, <1>2, <1>3

LEMMA EntriesParts ==
  ASSUME NEW c
  PROVE  /\ Entries(c) = queue[c] + replaying[c] + Cardinality(HeardFor(c, "replay"))
         /\ Entries(c)' = queue'[c] + replaying'[c] + Cardinality(HeardFor(c, "replay")')
BY DEF Entries, HeardFor

LEMMA HeardNumbers ==
  ASSUME IsFiniteSet(requests), IsFiniteSet(requests)', NEW c, NEW by
  PROVE  Cardinality(HeardFor(c, by)) \in Nat /\ Cardinality(HeardFor(c, by)') \in Nat
<1>1. HeardFor(c, by) \subseteq requests /\ HeardFor(c, by)' \subseteq requests'
  BY DEF HeardFor
<1> QED
  BY <1>1, CountsSmaller

\* What the server does with requests gives no cart a chance.
LEMMA MovesKeepCarts ==
  ASSUME TypeOK, TypeOK', IsFiniteSet(requests), IsFiniteSet(requests)', CartsInv,
         NEW g, Moves(g), \A k \in Keys : orders'[k] > 0 => Counts(k),
         \A c \in Carts : queue'[c] + replaying'[c] <= queue[c] + replaying[c],
         UNCHANGED <<pendingKey, minted, blocked, dropped, cart>>
  PROVE  CartsInv'
<1>1. \A k \in Keys : Counts(k)' => Counts(k)
  BY DEF Counts, Moves, KeyOf, MayOrder
<1>2. ASSUME NEW c \in Carts
      PROVE  Chances(c)' <= Chances(c)
  <2>1. /\ Cardinality(HeardFor(c, "replay")') <= Cardinality(HeardFor(c, "replay"))
        /\ HeardFor(c, "user")' # {} => HeardFor(c, "user") # {}
    BY MovesFacts
  <2>2. Entries(c)' <= Entries(c) /\ Entries(c) \in Nat /\ Entries(c)' \in Nat
    <3>1. /\ queue[c] \in Nat /\ replaying[c] \in Nat
          /\ queue'[c] \in Nat /\ replaying'[c] \in Nat
      BY DEF TypeOK
    <3> QED
      BY <2>1, <3>1, EntriesParts, HeardNumbers, CartNumbers
  <2>3. OpenCart(c)' => OpenCart(c)
    BY <2>1 DEF OpenCart
  <2> QED
    BY <2>2, <2>3 DEF Chances
<1>3. OneHeard'
  BY MovesFacts DEF CartsInv
<1> QED
  BY <1>1, <1>2, <1>3, QuietCarts

LEMMA OneMoreCounts ==
  ASSUME NEW S, IsFiniteSet(S), NEW x
  PROVE  IsFiniteSet(S \cup {x}) /\ Cardinality(S \cup {x}) <= Cardinality(S) + 1
<1>1. Cardinality(S) \in Nat
  BY FS_CardinalityType
<1>2. IsFiniteSet(S \cup {x})
  BY FS_AddElement
<1>3. Cardinality(S \cup {x}) = IF x \in S THEN Cardinality(S) ELSE Cardinality(S) + 1
  BY FS_AddElement
<1> QED
  BY <1>1, <1>2, <1>3

\* The browser forgets the pending key of cart c.  If that key counts, it is
\* among the dropped ones from now on, or the cart has lost a chance.
LEMMA ForgetKeepsCarts ==
  ASSUME TypeOK, TypeOK', IsFiniteSet(requests), IsFiniteSet(requests)', CartsInv,
         NEW c \in Carts, ForgetKey(c),
         \A k \in Keys : Counts(k)' => Counts(k),
         \A d \in Carts : Chances(d)' <= Chances(d),
         UNCHANGED <<orders, blocked>>, OneHeard',
         \/ Drop(c, requests')
         \/ UNCHANGED dropped /\ Chances(c)' + 1 <= Chances(c)
  PROVE  CartsInv'
<1> PICK p : p = <<c, pendingKey[c]>>
  OBVIOUS
<1>1. /\ pendingKey' = [pendingKey EXCEPT ![c] = 0] /\ UNCHANGED minted
      /\ pendingKey[c] \in Nat /\ pendingKey[c] <= minted[c]
  BY DEF ForgetKey, TypeOK
<1>2. \A k \in Keys : /\ k[1] \in Carts /\ k[2] \in Nat \ {0}
                      /\ pendingKey'[k[1]] = IF k[1] = c THEN 0 ELSE pendingKey[k[1]]
  BY <1>1, KeyFacts, MaxAttemptsAssumption DEF TypeOK
<1>3. /\ dropped \subseteq dropped' /\ dropped' \subseteq dropped \cup {k \in Keys : k = p}
      /\ dropped \subseteq Keys
  BY DEF Drop, TypeOK
<1>4. DroppedOld'
  <2>1. ASSUME NEW k \in dropped'
        PROVE  k[2] <= minted'[k[1]] /\ k[2] # pendingKey'[k[1]]
    <3>1. k \in Keys
      BY <1>3
    <3>2. CASE k \in dropped
      BY <1>1, <1>2, <3>1, <3>2 DEF CartsInv, DroppedOld
    <3>3. CASE k = p
      BY <1>1, <1>2, <3>1, <3>3
    <3> QED
      BY <1>3, <3>2, <3>3
  <2> QED
    BY <2>1 DEF DroppedOld
<1>5. p \notin dropped
  BY DEF CartsInv, DroppedOld
<1>6. ASSUME NEW d \in Carts
      PROVE  Limit(d) <= Limit(d)' /\ Limit(d) \in Nat /\ Limit(d)' \in Nat
  <2>1. /\ dropped \cap KeysOf(d) \subseteq dropped' \cap KeysOf(d)
        /\ dropped' \cap KeysOf(d) \subseteq KeysOf(d)
    BY <1>3
  <2>2. IsFiniteSet(dropped' \cap KeysOf(d))
    BY <2>1, KeysOfFinite, CountsSmaller
  <2>3. /\ Cardinality(dropped \cap KeysOf(d)) <= Cardinality(dropped' \cap KeysOf(d))
        /\ Cardinality(dropped \cap KeysOf(d)) \in Nat
        /\ Cardinality(dropped' \cap KeysOf(d)) \in Nat
    BY <2>1, <2>2, CountsSmaller
  <2>4. Limit(d)' = 1 + blocked[d] + Cardinality(dropped' \cap KeysOf(d)) /\ blocked[d] \in Nat
    BY DEF Limit, KeysOf, TypeOK
  <2> QED
    BY <2>3, <2>4, CartNumbers DEF Limit
<1>7. ASSUME NEW d \in Carts, d # c
      PROVE  /\ Cardinality(Spent(d)') + Chances(d)' <= Limit(d)'
             /\ pendingKey'[d] # 0 => Cardinality(Spent(d)') + 1 <= Limit(d)'
  <2>1. pendingKey'[d] = pendingKey[d]
    BY <1>1, <1>7 DEF TypeOK
  <2>2. Spent(d)' \subseteq Spent(d)
    BY <2>1, KeysOfFinite DEF Spent
  <2>3. Cardinality(Spent(d)') <= Cardinality(Spent(d))
    BY <2>2, CartNumbers, CountsSmaller
  <2>4. /\ Cardinality(Spent(d)) + Chances(d) <= Limit(d)
        /\ pendingKey[d] # 0 => Cardinality(Spent(d)) + 1 <= Limit(d)
        /\ Chances(d)' <= Chances(d)
    BY DEF CartsInv
  <2> QED
    BY <1>6, <2>1, <2>3, <2>4, CartNumbers
<1>8. Cardinality(Spent(c)') + Chances(c)' <= Limit(c)'
  <2>0. /\ Cardinality(Spent(c)) + Chances(c) <= Limit(c)
        /\ Chances(c)' <= Chances(c)
    BY DEF CartsInv
  <2>1. \A k \in Spent(c)' : k \in Spent(c) \/ (k = p /\ p \in KeysOf(c) /\ Counts(p)')
    BY KeysOfFinite DEF Spent, KeysOf
  <2>2. CASE ~(p \in KeysOf(c) /\ Counts(p)')
    <3>1. Spent(c)' \subseteq Spent(c)
      BY <2>1, <2>2
    <3>2. Cardinality(Spent(c)') <= Cardinality(Spent(c))
      BY <3>1, CartNumbers, CountsSmaller
    <3> QED
      BY <1>6, <2>0, <3>2, CartNumbers
  <2>3. CASE p \in KeysOf(c) /\ Counts(p)'
    <3>1. Cardinality(Spent(c)') <= Cardinality(Spent(c)) + 1
      <4>1. Spent(c)' \subseteq Spent(c) \cup {p}
        BY <2>1
      <4>2. /\ IsFiniteSet(Spent(c) \cup {p})
            /\ Cardinality(Spent(c) \cup {p}) <= Cardinality(Spent(c)) + 1
        BY CartNumbers, OneMoreCounts
      <4>3. /\ Cardinality(Spent(c)') <= Cardinality(Spent(c) \cup {p})
            /\ Cardinality(Spent(c) \cup {p}) \in Nat
        BY <4>1, <4>2, CountsSmaller
      <4> QED
        BY <4>2, <4>3, CartNumbers
    <3>2. CASE Drop(c, requests')
      <4>1. p \in dropped'
        <5>1. p \in Keys /\ (orders[p] > 0 \/ \E q \in requests' : KeyOf(q) = p /\ MayOrder(q))
          BY <2>3 DEF Counts, KeysOf
        <5> QED
          BY <3>2, <5>1 DEF Drop
      <4>2. dropped' \cap KeysOf(c) = (dropped \cap KeysOf(c)) \cup {p}
        BY <1>3, <2>3, <4>1
      <4>3. IsFiniteSet(dropped \cap KeysOf(c)) /\ Cardinality(dropped \cap KeysOf(c)) \in Nat
        BY KeysOfFinite, CountsSmaller
      <4>4. Cardinality(dropped' \cap KeysOf(c)) = Cardinality(dropped \cap KeysOf(c)) + 1
        BY <1>5, <4>2, <4>3, FS_AddElement
      <4>5. Limit(c)' = 1 + blocked[c] + Cardinality(dropped' \cap KeysOf(c)) /\ blocked[c] \in Nat
        BY DEF Limit, KeysOf, TypeOK
      <4>6. Limit(c)' = Limit(c) + 1
        BY <4>3, <4>4, <4>5 DEF Limit
      <4> QED
        BY <1>6, <2>0, <3>1, <4>6, CartNumbers
    <3>3. CASE Chances(c)' + 1 <= Chances(c)
      BY <1>6, <2>0, <3>1, <3>3, CartNumbers
    <3> QED
      BY <3>2, <3>3
  <2> QED
    BY <2>2, <2>3
<1>9. pendingKey'[c] = 0
  BY <1>1 DEF TypeOK
<1> QED
  BY <1>4, <1>7, <1>8, <1>9 DEF CartsInv

\* A request is sent: its key becomes the pending one, and the chance it takes
\* pays for it.
LEMMA PostKeepsCarts ==
  ASSUME TypeOK, TypeOK', IsFiniteSet(requests), IsFiniteSet(requests)', CartsInv,
         NEW c \in Carts, NEW by \in {"user", "replay"}, Post(c, by),
         \A d \in Carts : Chances(d)' <= Chances(d),
         Chances(c) >= 1, UNCHANGED <<orders, blocked, dropped>>, OneHeard'
  PROVE  CartsInv'
<1> PICK n : n = ResolveKey(c)
  OBVIOUS
<1>1. /\ pendingKey' = [pendingKey EXCEPT ![c] = n]
      /\ n = IF pendingKey[c] = 0 THEN minted[c] + 1 ELSE pendingKey[c]
      /\ minted' = [minted EXCEPT ![c] = IF n > @ THEN n ELSE @]
      /\ pendingKey[c] \in Nat /\ minted[c] \in Nat /\ pendingKey[c] <= minted[c] /\ n \in Nat
  BY DEF Post, TypeOK, ResolveKey
<1>2. PICK q : requests' = requests \cup {q} /\ KeyOf(q) = <<c, n>>
  <2> DEFINE w == [cart |-> c, key |-> ResolveKey(c), no |-> attempts[c] + 1, by |-> by,
                   at |-> "wire", answer |-> "none", again |-> FALSE, heard |-> TRUE,
                   watched |-> FALSE]
  <2>1. requests' = requests \cup {w} /\ KeyOf(w) = <<c, n>>
    BY DEF Post, KeyOf
  <2> HIDE DEF w
  <2> QED
    BY <2>1
<1>3. \A k \in Keys : Counts(k)' => Counts(k) \/ k = <<c, n>>
  BY <1>2 DEF Counts, MayOrder, KeyOf
<1>4. ASSUME NEW d \in Carts
      PROVE  Spent(d)' \subseteq Spent(d)
  <2>1. CASE d = c
    <3>1. \A k \in Spent(c)' : k \in KeysOf(c) /\ k[2] # n /\ Counts(k)'
      BY <1>1 DEF Spent, KeysOf, TypeOK
    <3>2. \A k \in Spent(c)' : k \in KeysOf(c) /\ k[2] # n /\ Counts(k)
      BY <1>3, <3>1, KeysOfFinite
    <3> QED
      BY <1>1, <2>1, <3>2, KeysOfFinite DEF Spent
  <2>2. CASE d # c
    <3>1. pendingKey'[d] = pendingKey[d]
      BY <1>1, <2>2 DEF TypeOK
    <3>2. \A k \in KeysOf(d) : Counts(k)' => Counts(k)
      BY <1>3, <2>2, KeysOfFinite
    <3> QED
      BY <3>1, <3>2 DEF Spent, KeysOf
  <2> QED
    BY <2>1, <2>2
<1>5. ASSUME NEW d \in Carts
      PROVE  /\ Cardinality(Spent(d)') + Chances(d)' <= Limit(d)'
             /\ pendingKey'[d] # 0 => Cardinality(Spent(d)') + 1 <= Limit(d)'
  <2>1. Cardinality(Spent(d)') <= Cardinality(Spent(d))
    BY <1>4, CartNumbers, CountsSmaller
  <2>2. Limit(d)' = Limit(d)
    BY DEF Limit, KeysOf
  <2>3. /\ Cardinality(Spent(d)) + Chances(d) <= Limit(d)
        /\ Chances(d)' <= Chances(d)
    BY DEF CartsInv
  <2>4. pendingKey'[d] # 0 => Cardinality(Spent(d)) + 1 <= Limit(d)
    <3>1. CASE d = c
      BY <2>3, <3>1, CartNumbers
    <3>2. CASE d # c
      BY <1>1, <3>2 DEF CartsInv, TypeOK
    <3> QED
      BY <3>1, <3>2
  <2> QED
    BY <2>1, <2>2, <2>3, <2>4, CartNumbers
<1>6. DroppedOld'
  <2>1. ASSUME NEW k \in dropped
        PROVE  k[2] <= minted'[k[1]] /\ k[2] # pendingKey'[k[1]]
    <3>1. /\ k[1] \in Carts /\ k[2] \in Nat /\ k[2] <= minted[k[1]] /\ k[2] # pendingKey[k[1]]
      BY KeyFacts, MaxAttemptsAssumption DEF TypeOK, CartsInv, DroppedOld
    <3>2. CASE k[1] = c
      BY <1>1, <3>1, <3>2 DEF TypeOK
    <3>3. CASE k[1] # c
      BY <1>1, <3>1, <3>3 DEF TypeOK
    <3> QED
      BY <3>2, <3>3
  <2> QED
    BY <2>1 DEF DroppedOld
<1> QED
  BY <1>5, <1>6 DEF CartsInv

LEMMA OneMoves ==
  ASSUME NEW r \in requests, NEW s, requests' \subseteq (requests \ {r}) \cup {s},
         s.cart = r.cart, s.key = r.key, s.by = r.by, s.heard => r.heard,
         MayOrder(s) => MayOrder(r)
  PROVE  \E g : Moves(g)
<1> DEFINE g == [q \in requests |-> IF q = r THEN s ELSE q]
<1>1. Moves(g)
  BY DEF Moves
<1> QED
  BY <1>1

LEMMA NoneMoves ==
  ASSUME requests' \subseteq requests
  PROVE  \E g : Moves(g)
<1> DEFINE g == [q \in requests |-> q]
<1>1. Moves(g)
  BY DEF Moves
<1> QED
  BY <1>1

\* A request the browser has heard of, or no longer waits for.
LEMMA HeardGone ==
  ASSUME IsFiniteSet(requests), IsFiniteSet(requests)', NEW r \in requests, r \in Requests, r.heard,
         requests' \subseteq (requests \ {r}) \cup {[r EXCEPT !.heard = FALSE]}
  PROVE  /\ \E g : Moves(g)
         /\ r.by = "replay" => Cardinality(HeardFor(r.cart, "replay")') + 1
                                 <= Cardinality(HeardFor(r.cart, "replay"))
<1>1. PICK s : s = [r EXCEPT !.heard = FALSE]
  OBVIOUS
<1>2. /\ s.cart = r.cart /\ s.key = r.key /\ s.by = r.by /\ ~s.heard
      /\ s.at = r.at /\ s.answer = r.answer /\ s.again = r.again
  BY <1>1 DEF Requests
<1>3. \E g : Moves(g)
  BY <1>1, <1>2, OneMoves DEF MayOrder
<1>4. ASSUME r.by = "replay", NEW c, c = r.cart
      PROVE  Cardinality(HeardFor(c, "replay")') + 1 <= Cardinality(HeardFor(c, "replay"))
  <2>1. PICK S : S = HeardFor(c, "replay")
    OBVIOUS
  <2>2. r \in S /\ IsFiniteSet(S) /\ Cardinality(S) \in Nat
    <3>1. r \in S /\ S \subseteq requests
      BY <1>4, <2>1 DEF HeardFor
    <3> QED
      BY <3>1, CountsSmaller
  <2>3. HeardFor(c, "replay")' \subseteq S \ {r}
    BY <1>1, <1>2, <2>1 DEF HeardFor
  <2>4. IsFiniteSet(S \ {r}) /\ Cardinality(S \ {r}) = Cardinality(S) - 1
    BY <2>2, FS_RemoveElement
  <2>5. Cardinality(HeardFor(c, "replay")') <= Cardinality(S) - 1
    BY <2>3, <2>4, CountsSmaller
  <2> QED
    BY <2>1, <2>2, <2>5, HeardNumbers
<1>5. PICK c : c = r.cart
  OBVIOUS
<1>6. r.cart' = r.cart
  OBVIOUS
<1> QED
  BY <1>3, <1>4, <1>5, <1>6

\* What that does to the entries of the offline queue.
LEMMA HeardEntries ==
  ASSUME TypeOK, TypeOK', IsFiniteSet(requests), IsFiniteSet(requests)', NEW r \in requests, r.heard,
         requests' \subseteq (requests \ {r}) \cup {[r EXCEPT !.heard = FALSE]},
         Requeue(r) \/ UNCHANGED offline
  PROVE  \A c \in Carts :
           /\ Entries(c)' <= Entries(c)
           /\ UNCHANGED offline /\ c = r.cart /\ r.by = "replay" => Entries(c)' + 1 <= Entries(c)
<1>k. r \in Requests
  BY DEF TypeOK
<1>1. PICK g : Moves(g)
  BY <1>k, HeardGone
<1>2. ASSUME NEW c \in Carts
      PROVE  /\ Entries(c)' <= Entries(c)
             /\ UNCHANGED offline /\ c = r.cart /\ r.by = "replay" => Entries(c)' + 1 <= Entries(c)
  <2>1. /\ queue[c] \in Nat /\ replaying[c] \in Nat /\ queue'[c] \in Nat /\ replaying'[c] \in Nat
    BY DEF TypeOK
  <2>2. /\ Cardinality(HeardFor(c, "replay")) \in Nat /\ Cardinality(HeardFor(c, "replay")') \in Nat
        /\ Cardinality(HeardFor(c, "replay")') <= Cardinality(HeardFor(c, "replay"))
    BY <1>1, HeardNumbers, MovesFacts
  <2>3. c = r.cart /\ r.by = "replay" =>
          Cardinality(HeardFor(c, "replay")') + 1 <= Cardinality(HeardFor(c, "replay"))
    BY <1>k, HeardGone
  <2>4. CASE UNCHANGED offline
    BY <2>1, <2>2, <2>3, <2>4, EntriesParts DEF offline
  <2>5. CASE Requeue(r) /\ ~UNCHANGED offline
    <3>1. queue'[c] = (IF c = r.cart /\ r.by = "replay" THEN queue[c] + 1 ELSE queue[c])
          /\ replaying'[c] = replaying[c]
      BY <2>5 DEF Requeue, TypeOK
    <3> QED
      BY <2>1, <2>2, <2>3, <2>5, <3>1, EntriesParts
  <2> QED
    BY <2>4, <2>5
<1> QED
  BY <1>2

LEMMA HearsCarts ==
  ASSUME TypeOK, TypeOK', IsFiniteSet(requests), IsFiniteSet(requests)', CartsInv,
         NEW r \in requests, Hears(r)
  PROVE  CartsInv'
<1>k. r \in Requests /\ r.cart \in Carts /\ r.by \in {"user", "replay"} /\ KeyOf(r) \in Keys
  BY DEF TypeOK, Requests
<1>1. ASSUME r.heard, requests' \subseteq (requests \ {r}) \cup {[r EXCEPT !.heard = FALSE]},
             UNCHANGED orders
      PROVE  /\ \A k \in Keys : Counts(k)' => Counts(k)
             /\ OneHeard'
             /\ \A c \in Carts : HeardFor(c, "user")' # {} => HeardFor(c, "user") # {}
  BY <1>1, <1>k, HeardGone, MovesFacts DEF CartsInv
<1>2. CASE Accepted(r)
  <2>1. /\ r.heard /\ requests' = requests \ {r} /\ ForgetKey(r.cart)
        /\ cart' = [cart EXCEPT ![shown] = "cleared"]
        /\ UNCHANGED <<offline, orders>>
    BY <1>2 DEF Accepted, Heard
  <2>2. \A c \in Carts : OpenCart(c)' => OpenCart(c)
    BY <1>1, <2>1 DEF OpenCart, TypeOK
  <2>3. /\ \A c \in Carts : Entries(c)' <= Entries(c)
        /\ r.by = "replay" => Entries(r.cart)' + 1 <= Entries(r.cart)
    <3>1. \A c \in Carts :
            /\ Entries(c)' <= Entries(c)
            /\ c = r.cart /\ r.by = "replay" => Entries(c)' + 1 <= Entries(c)
      BY <2>1, HeardEntries
    <3> QED
      BY <1>k, <3>1
  <2>4. \A c \in Carts : Chances(c)' <= Chances(c)
    BY <2>2, <2>3, CartNumbers DEF Chances
  <2>5. CASE shown = r.cart
    <3> PICK c \in Carts : c = r.cart
      BY <1>k
    <3>1. Chances(c)' + 1 <= Chances(c)
      <4>1. CASE r.by = "replay"
        BY <2>2, <2>3, <4>1, CartNumbers DEF Chances
      <4>2. CASE r.by = "user"
        <5>1. OpenCart(c)
          BY <2>1, <4>2 DEF OpenCart, HeardFor
        <5>2. HeardFor(c, "user")' = {}
          BY <2>1, <4>2 DEF HeardFor, CartsInv, OneHeard
        <5>3. ~OpenCart(c)'
          BY <2>1, <2>5, <5>2 DEF OpenCart, TypeOK
        <5> QED
          BY <2>3, <5>1, <5>3, CartNumbers DEF Chances
      <4> QED
        BY <1>k, <4>1, <4>2
    <3>2. UNCHANGED <<dropped, blocked>>
      BY <1>2, <2>5 DEF Accepted, offline
    <3> QED
      BY <1>1, <2>1, <2>4, <3>1, <3>2, ForgetKeepsCarts
  <2>6. CASE shown # r.cart
    <3>1. Drop(r.cart, requests') /\ UNCHANGED blocked
      BY <1>2, <2>6 DEF Accepted, offline
    <3> QED
      BY <1>k, <1>1, <2>1, <2>4, <3>1, ForgetKeepsCarts
  <2> QED
    BY <2>5, <2>6
<1>3. CASE AcceptedNotCleared(r) \/ Rejected(r) \/ GatewayError(r)
  <2>1. /\ r.heard /\ requests' \subseteq (requests \ {r}) \cup {[r EXCEPT !.heard = FALSE]}
        /\ ForgetKey(r.cart) /\ Requeue(r) /\ Drop(r.cart, requests')
        /\ UNCHANGED <<orders, cart, blocked>>
    BY <1>3 DEF AcceptedNotCleared, Rejected, GatewayError, Heard, Becomes, screen, Requeue
  <2>2. \A c \in Carts : Entries(c)' <= Entries(c)
    BY <2>1, HeardEntries
  <2>3. \A c \in Carts : Chances(c)' <= Chances(c)
    BY <1>1, <2>1, <2>2, CartNumbers DEF Chances, OpenCart
  <2> QED
    BY <1>k, <1>1, <2>1, <2>3, ForgetKeepsCarts
<1>4. CASE NetworkError(r)
  <2>1. /\ r.heard /\ requests' \subseteq (requests \ {r}) \cup {[r EXCEPT !.heard = FALSE]}
        /\ Requeue(r) /\ UNCHANGED <<orders, cart, pendingKey, minted, dropped, blocked>>
    BY <1>4 DEF NetworkError, Becomes, screen, cartKeys, Requeue
  <2>2. \A c \in Carts : Entries(c)' <= Entries(c)
    BY <2>1, HeardEntries
  <2>3. \A c \in Carts : Chances(c)' <= Chances(c)
    BY <1>1, <2>1, <2>2, CartNumbers DEF Chances, OpenCart
  <2> QED
    BY <1>1, <2>1, <2>3, QuietCarts
<1>5. CASE RefreshAndResend(r)
  <2>0. PICK n : n = attempts[r.cart] + 1
    OBVIOUS
  <2>q. PICK s : s = [r EXCEPT !.no = n, !.at = "wire", !.answer = "none", !.again = TRUE]
    OBVIOUS
  <2>1. /\ requests' \subseteq (requests \ {r}) \cup {s}
        /\ MayOrder(r)
        /\ UNCHANGED <<orders, cart, queue, replaying, pendingKey, minted, dropped, blocked>>
    BY <1>5, <2>0, <2>q DEF RefreshAndResend, Becomes, MayOrder, screen, offline, history
  <2>2. s.cart = r.cart /\ s.key = r.key /\ s.by = r.by /\ s.heard = r.heard
    BY <1>k, <2>q DEF Requests
  <2>3. PICK g : Moves(g)
    BY <2>1, <2>2, OneMoves
  <2>4. \A c \in Carts : queue'[c] + replaying'[c] <= queue[c] + replaying[c]
    BY <2>1 DEF TypeOK
  <2>5. \A k \in Keys : orders'[k] > 0 => Counts(k)
    BY <2>1 DEF Counts
  <2> QED
    BY <2>1, <2>3, <2>4, <2>5, MovesKeepCarts
<1> QED
  BY <1>2, <1>3, <1>4, <1>5 DEF Hears

LEMMA SendsCarts ==
  ASSUME TypeOK, TypeOK', IsFiniteSet(requests), IsFiniteSet(requests)', CartsInv, Sends
  PROVE  CartsInv'
<1>u. UNCHANGED <<orders, dropped, cart>>
  BY DEF Sends, Send, SendBlocked, StartReplay, SyncModules, Replay, ReplayBlocked, Show,
         screen, history
<1>o. \A k \in Keys : orders'[k] > 0 => Counts(k)
  BY <1>u DEF Counts
<1>1. CASE Send
  <2> PICK c \in Carts : c = shown
    BY DEF TypeOK
  <2>1. Post(c, "user") /\ cart[c] = "open" /\ ~Sending /\ UNCHANGED <<queue, replaying, blocked>>
    BY <1>1 DEF Send, offline
  <2>2. PICK q : requests' = requests \cup {q} /\ q.cart = c /\ q.by = "user" /\ q.heard
    <3> DEFINE w == [cart |-> c, key |-> ResolveKey(c), no |-> attempts[c] + 1, by |-> "user",
                     at |-> "wire", answer |-> "none", again |-> FALSE, heard |-> TRUE,
                     watched |-> FALSE]
    <3>1. requests' = requests \cup {w} /\ w.cart = c /\ w.by = "user" /\ w.heard
      BY <2>1 DEF Post
    <3> HIDE DEF w
    <3> QED
      BY <3>1
  <2>3. \A d \in Carts : HeardFor(d, "replay")' = HeardFor(d, "replay")
    BY <2>2 DEF HeardFor
  <2>4. \A d \in Carts : OpenCart(d)' => OpenCart(d)
    BY <1>u, <2>1, <2>2 DEF OpenCart, HeardFor
  <2>5. \A d \in Carts : Chances(d)' <= Chances(d)
    BY <2>1, <2>3, <2>4, EntriesParts, CartNumbers DEF Chances
  <2>6. Chances(c) >= 1
    BY <2>1, CartNumbers DEF Chances, OpenCart
  <2>7. OneHeard'
    BY <2>1, <2>2 DEF OneHeard, Sending
  <2> QED
    BY <1>u, <2>1, <2>5, <2>6, <2>7, PostKeepsCarts
<1>2. ASSUME NEW c \in Carts, Replay(c)
      PROVE  CartsInv'
  <2>1. /\ Post(c, "replay") /\ replaying[c] > 0
        /\ replaying' = [replaying EXCEPT ![c] = @ - 1] /\ UNCHANGED <<queue, blocked>>
    BY <1>2 DEF Replay
  <2>2. PICK q : requests' = requests \cup {q} /\ q.cart = c /\ q.by = "replay" /\ q.heard
    <3> DEFINE w == [cart |-> c, key |-> ResolveKey(c), no |-> attempts[c] + 1, by |-> "replay",
                     at |-> "wire", answer |-> "none", again |-> FALSE, heard |-> TRUE,
                     watched |-> FALSE]
    <3>1. requests' = requests \cup {w} /\ w.cart = c /\ w.by = "replay" /\ w.heard
      BY <2>1 DEF Post
    <3> HIDE DEF w
    <3> QED
      BY <3>1
  <2>3. ASSUME NEW d \in Carts
        PROVE  Entries(d)' <= Entries(d)
    <3>1. /\ queue[d] \in Nat /\ replaying[d] \in Nat
          /\ replaying'[d] = IF d = c THEN replaying[d] - 1 ELSE replaying[d]
      BY <2>1 DEF TypeOK
    <3>2. CASE d # c
      <4>1. HeardFor(d, "replay")' = HeardFor(d, "replay")
        BY <2>2, <3>2 DEF HeardFor
      <4> QED
        BY <2>1, <3>1, <3>2, <4>1, EntriesParts, HeardNumbers
    <3>3. CASE d = c
      <4>1. PICK S : S = HeardFor(d, "replay")
        OBVIOUS
      <4>2. S \subseteq requests
        BY <4>1 DEF HeardFor
      <4>3. HeardFor(d, "replay")' \subseteq S \cup {q}
        BY <2>2, <4>1 DEF HeardFor
      <4>4. IsFiniteSet(S) /\ Cardinality(S) \in Nat
        BY <4>2, CountsSmaller
      <4>5. IsFiniteSet(S \cup {q}) /\ Cardinality(S \cup {q}) <= Cardinality(S) + 1
        BY <4>4, OneMoreCounts
      <4>6. /\ Cardinality(HeardFor(d, "replay")') <= Cardinality(S \cup {q})
            /\ Cardinality(S \cup {q}) \in Nat /\ Cardinality(HeardFor(d, "replay")') \in Nat
        BY <4>3, <4>5, CountsSmaller
      <4> QED
        BY <2>1, <3>1, <3>3, <4>1, <4>4, <4>5, <4>6, EntriesParts
    <3> QED
      BY <3>2, <3>3
  <2>4. \A d \in Carts : Chances(d)' <= Chances(d)
    <3>1. \A d \in Carts : OpenCart(d)' => OpenCart(d)
      BY <1>u, <2>2 DEF OpenCart, HeardFor
    <3> QED
      BY <2>3, <3>1, CartNumbers DEF Chances
  <2>5. Chances(c) >= 1
    <3>1. queue[c] \in Nat /\ replaying[c] \in Nat /\ replaying[c] > 0
      BY <2>1 DEF TypeOK
    <3>2. Entries(c) >= 1
      BY <3>1, EntriesParts, HeardNumbers
    <3> QED
      BY <3>2, CartNumbers DEF Chances
  <2>6. OneHeard'
    BY <2>2 DEF CartsInv, OneHeard
  <2> QED
    BY <1>u, <2>1, <2>4, <2>5, <2>6, PostKeepsCarts
\* A blocked request adds an entry, and the limit is raised by it.
<1>3. ASSUME NEW c \in Carts, UNCHANGED <<requests, pendingKey, minted>>,
             blocked' = [blocked EXCEPT ![c] = @ + 1],
             \A d \in Carts : queue'[d] + replaying'[d]
                                = IF d = c THEN queue[d] + replaying[d] + 1 ELSE queue[d] + replaying[d]
      PROVE  CartsInv'
  <2>1. OneHeard' /\ DroppedOld'
    BY <1>u, <1>3 DEF CartsInv, OneHeard, DroppedOld
  <2>2. ASSUME NEW d \in Carts
        PROVE  /\ Cardinality(Spent(d)') + Chances(d)' <= Limit(d)'
               /\ pendingKey'[d] # 0 => Cardinality(Spent(d)') + 1 <= Limit(d)'
    <3>1. Spent(d)' = Spent(d) /\ HeardFor(d, "replay")' = HeardFor(d, "replay")
          /\ OpenCart(d)' = OpenCart(d)
      BY <1>u, <1>3 DEF Spent, Counts, KeysOf, HeardFor, OpenCart
    <3>2. /\ queue[d] \in Nat /\ replaying[d] \in Nat /\ queue'[d] \in Nat /\ replaying'[d] \in Nat
          /\ blocked[d] \in Nat /\ blocked'[d] = IF d = c THEN blocked[d] + 1 ELSE blocked[d]
      BY <1>3 DEF TypeOK
    <3>3. Entries(d)' = IF d = c THEN Entries(d) + 1 ELSE Entries(d)
      BY <1>3, <3>1, <3>2, EntriesParts, HeardNumbers
    <3>4. Chances(d)' = IF d = c THEN Chances(d) + 1 ELSE Chances(d)
      BY <3>1, <3>3, CartNumbers DEF Chances
    <3>5. Limit(d)' = IF d = c THEN Limit(d) + 1 ELSE Limit(d)
      <4>1. Limit(d)' = 1 + blocked'[d] + Cardinality(dropped \cap KeysOf(d))
        BY <1>u DEF Limit, KeysOf
      <4>2. Cardinality(dropped \cap KeysOf(d)) \in Nat
        BY KeysOfFinite, CountsSmaller
      <4> QED
        BY <3>2, <4>1, <4>2 DEF Limit
    <3>6. /\ Cardinality(Spent(d)) + Chances(d) <= Limit(d)
          /\ pendingKey'[d] # 0 => Cardinality(Spent(d)) + 1 <= Limit(d)
      BY <1>3 DEF CartsInv
    <3> QED
      BY <3>1, <3>4, <3>5, <3>6, CartNumbers
  <2> QED
    BY <2>1, <2>2 DEF CartsInv
<1>4. CASE SendBlocked
  <2>1. shown \in Carts /\ \A d \in Carts : queue[d] \in Nat /\ replaying[d] \in Nat
    BY DEF TypeOK
  <2>2. \A d \in Carts : queue'[d] + replaying'[d]
          = IF d = shown THEN queue[d] + replaying[d] + 1 ELSE queue[d] + replaying[d]
    BY <1>4, <2>1 DEF SendBlocked, TypeOK
  <2> QED
    BY <1>3, <1>4, <2>1, <2>2 DEF SendBlocked, cartKeys
<1>5. ASSUME NEW c \in Carts, ReplayBlocked(c)
      PROVE  CartsInv'
  <2>1. \A d \in Carts : queue[d] \in Nat /\ replaying[d] \in Nat
    BY DEF TypeOK
  <2>2. \A d \in Carts : queue'[d] + replaying'[d]
          = IF d = c THEN queue[d] + replaying[d] + 1 ELSE queue[d] + replaying[d]
    BY <1>5, <2>1 DEF ReplayBlocked, TypeOK
  <2> QED
    BY <1>3, <1>5, <2>2 DEF ReplayBlocked, cartKeys
<1>6. ASSUME StartReplay \/ SyncModules \/ \E c \in Carts : Show(c)
      PROVE  CartsInv'
  <2>1. UNCHANGED <<requests, pendingKey, minted, blocked>>
    BY <1>6 DEF StartReplay, SyncModules, Show, cartKeys, offline
  <2>2. \A c \in Carts : queue'[c] + replaying'[c] <= queue[c] + replaying[c]
    BY <1>6 DEF StartReplay, SyncModules, Show, offline, TypeOK
  <2>3. PICK g : Moves(g)
    BY <2>1, NoneMoves
  <2> QED
    BY <1>u, <1>o, <2>1, <2>2, <2>3, MovesKeepCarts
<1> QED
  BY <1>1, <1>2, <1>4, <1>5, <1>6 DEF Sends

\* What the server does with a request.
LEMMA HandlesCarts ==
  ASSUME TypeOK, TypeOK', IsFiniteSet(requests), IsFiniteSet(requests)', CartsInv,
         NEW r \in requests, Handles(r)
  PROVE  CartsInv'
<1>k. r \in Requests
  BY DEF TypeOK
<1>u. UNCHANGED <<browser, dropped>>
  BY DEF Handles, TryLock, AnswerTaken, Refuse, Commit, Succeed, RefuseAfterCommit,
         ErrorAfterCommit, Abort, Finish, history
<1>1. \E g : Moves(g)
  <2>1. CASE TryLock(r) \/ Commit(r) \/ Abort(r)
    <3>1. PICK s : /\ requests' = (requests \ {r}) \cup {s}
                   /\ s \in {[r EXCEPT !.at = "taken"], [r EXCEPT !.at = "committed"],
                             [r EXCEPT !.watched = FALSE]}
                        \cup {[r EXCEPT !.at = "handler", !.watched = b] : b \in BOOLEAN}
      BY <2>1 DEF TryLock, Commit, Abort, Becomes
    <3>2. s.cart = r.cart /\ s.key = r.key /\ s.by = r.by /\ s.heard = r.heard /\ MayOrder(r)
      BY <1>k, <2>1, <3>1 DEF Requests, TryLock, Commit, Abort, MayOrder
    <3> QED
      BY <3>1, <3>2, OneMoves
  <2>2. ASSUME r.at # "answered", NEW answer, Answer(r, answer)
        PROVE  \E g : Moves(g)
    <3>1. PICK s : s = [r EXCEPT !.at = "answered", !.answer = answer, !.watched = FALSE]
      OBVIOUS
    <3>2. s.cart = r.cart /\ s.key = r.key /\ s.by = r.by /\ s.heard = r.heard /\ MayOrder(r)
      BY <1>k, <2>2, <3>1 DEF Requests, MayOrder
    <3>3. requests' \subseteq (requests \ {r}) \cup {s}
      BY <2>2, <3>1 DEF Answer
    <3> QED
      BY <3>2, <3>3, OneMoves
  <2> QED
    BY <2>1, <2>2 DEF Handles, AnswerTaken, Refuse, Succeed, RefuseAfterCommit,
       ErrorAfterCommit, Finish
<1>2. \A k \in Keys : orders'[k] > 0 => Counts(k)
  <2>1. CASE Commit(r)
    <3>1. Counts(KeyOf(r))
      BY <2>1 DEF Commit, Counts, MayOrder
    <3>2. \A k \in Keys : k # KeyOf(r) => orders'[k] = orders[k]
      BY <2>1 DEF Commit, TypeOK
    <3> QED
      BY <3>1, <3>2 DEF Counts
  <2>2. CASE UNCHANGED orders
    BY <2>2 DEF Counts
  <2> QED
    BY <2>1, <2>2 DEF Handles, TryLock, AnswerTaken, Refuse, Succeed, RefuseAfterCommit,
       ErrorAfterCommit, Abort, history
<1>3. \A c \in Carts : queue'[c] + replaying'[c] <= queue[c] + replaying[c]
  BY <1>u DEF browser, offline, TypeOK
<1> QED
  BY <1>1, <1>2, <1>3, <1>u, MovesKeepCarts DEF browser, screen, cartKeys, offline

LEMMA RestartCarts ==
  ASSUME TypeOK, TypeOK', IsFiniteSet(requests), IsFiniteSet(requests)', CartsInv, Restart
  PROVE  CartsInv'
<1> DEFINE g == [r \in requests |-> IF r \in Running THEN FailedRequest(r) ELSE r]
<1>1. \A r \in requests :
        /\ FailedRequest(r).cart = r.cart /\ FailedRequest(r).key = r.key
        /\ FailedRequest(r).by = r.by /\ FailedRequest(r).heard = r.heard
        /\ ~MayOrder(FailedRequest(r))
  BY DEF TypeOK, Requests, FailedRequest, MayOrder
<1>2. \A s \in requests' : \E r \in requests : s = g[r] /\ (r \in Running \/ s = r)
  BY RestartFacts DEF Running
<1>3. Moves(g)
  <2>1. ASSUME NEW s \in requests'
        PROVE  \E r \in requests : /\ s = g[r]
                                   /\ s.cart = r.cart /\ s.key = r.key /\ s.by = r.by
                                   /\ s.heard => r.heard
                                   /\ MayOrder(s) => MayOrder(r)
    <3>1. PICK r \in requests : s = g[r] /\ (r \in Running \/ s = r)
      BY <1>2
    <3>2. s = FailedRequest(r) \/ s = r
      BY <3>1
    <3> QED
      BY <1>1, <3>1, <3>2
  <2> QED
    BY <2>1 DEF Moves
<1>4. \A c \in Carts : queue'[c] + replaying'[c] <= queue[c] + replaying[c]
  BY RestartFacts DEF browser, offline, TypeOK
<1>5. \A k \in Keys : orders'[k] > 0 => Counts(k)
  BY RestartFacts DEF Counts
<1> HIDE DEF g
<1> QED
  BY <1>3, <1>4, <1>5, RestartFacts, MovesKeepCarts DEF browser, screen, cartKeys, offline

\* The cart is edited: its key goes, and counts as dropped if it counts.
LEMMA EditCarts ==
  ASSUME TypeOK, TypeOK', IsFiniteSet(requests), IsFiniteSet(requests)', CartsInv,
         NEW c \in Carts, EditCart(c)
  PROVE  CartsInv'
<1>1. /\ UNCHANGED <<requests, orders, cart, queue, replaying, blocked>>
      /\ ForgetKey(c) /\ Drop(c, requests')
  BY DEF EditCart, screen, offline
<1>2. \A k \in Keys : Counts(k)' => Counts(k)
  BY <1>1 DEF Counts, KeyOf, MayOrder
<1>3. \A d \in Carts : Chances(d)' = Chances(d)
  BY <1>1 DEF Chances, Entries, OpenCart, HeardFor
<1>4. \A d \in Carts : Chances(d)' <= Chances(d)
  BY <1>3, CartNumbers
<1>5. OneHeard'
  BY <1>1 DEF CartsInv, OneHeard
<1> QED
  BY <1>1, <1>2, <1>4, <1>5, ForgetKeepsCarts

\* A reload drops the pending key of a cart, if that counts, and nothing else.
LEMMA ReloadDrops ==
  ASSUME TypeOK, Reload, NEW c \in Carts, NEW p, p = <<c, pendingKey[c]>>
  PROVE  /\ dropped' \cap KeysOf(c) \in {dropped \cap KeysOf(c), (dropped \cap KeysOf(c)) \cup {p}}
         /\ p \in KeysOf(c) /\ Counts(p)' => p \in dropped'
<1>1. \A k \in KeysOf(c) : k \in dropped' => k \in dropped \/ k = p
  BY KeysOfFinite, ReloadFacts
<1>2. dropped \subseteq dropped'
  BY ReloadFacts
<1>3. ASSUME p \in KeysOf(c), Counts(p)'
      PROVE  p \in dropped'
  <2>1. p \in Keys /\ p[1] = c /\ p[2] = pendingKey[p[1]]
    BY <1>3 DEF KeysOf
  <2>2. orders[p] > 0 \/ \E q \in requests' : KeyOf(q) = p /\ MayOrder(q)
    BY <1>3, ReloadFacts DEF Counts, KeyOf, MayOrder
  <2> QED
    BY <2>1, <2>2, ReloadFacts
<1> QED
  BY <1>1, <1>2, <1>3

LEMMA ReloadCarts ==
  ASSUME TypeOK, TypeOK', IsFiniteSet(requests), IsFiniteSet(requests)', CartsInv, Reload
  PROVE  CartsInv'
<1>1. \A q \in requests' : \E r \in requests : KeyOf(q) = KeyOf(r) /\ (MayOrder(q) => MayOrder(r)) /\ ~q.heard
  BY UnheardFacts, ReloadFacts DEF Unanswered, TypeOK, MayOrder
<1>2. \A k \in Keys : Counts(k)' => Counts(k)
  BY <1>1, ReloadFacts DEF Counts, KeyOf, MayOrder
<1>3. OneHeard' /\ \A c, by : HeardFor(c, by)' = {}
  BY <1>1 DEF OneHeard, HeardFor
<1>4. ASSUME NEW c \in Carts
      PROVE  Chances(c)' <= Chances(c)
  <2>1. /\ queue[c] \in Nat /\ replaying[c] \in Nat /\ queue'[c] = 0 /\ replaying'[c] = 0
        /\ cart' = cart
    BY ReloadFacts DEF TypeOK
  <2>2. Cardinality(HeardFor(c, "replay")') = 0
    BY <1>3, FS_EmptySet
  <2>3. Entries(c)' <= Entries(c)
    BY <2>1, <2>2, EntriesParts, HeardNumbers
  <2>4. OpenCart(c)' => OpenCart(c)
    BY <1>3, <2>1 DEF OpenCart
  <2> QED
    BY <2>3, <2>4, CartNumbers DEF Chances
<1>5. DroppedOld'
  <2>1. ASSUME NEW k \in dropped'
        PROVE  k[2] <= minted'[k[1]] /\ k[2] # pendingKey'[k[1]]
    <3>1. k \in Keys
      BY DEF TypeOK
    <3>2. k[1] \in Carts /\ k[2] \in Nat \ {0}
      BY <3>1, KeyFacts, MaxAttemptsAssumption
    <3>3. k[2] <= minted[k[1]]
      BY <3>2, ReloadFacts DEF CartsInv, DroppedOld, TypeOK
    <3> QED
      BY <3>2, <3>3, ReloadFacts
  <2> QED
    BY <2>1 DEF DroppedOld
<1>6. ASSUME NEW c \in Carts
      PROVE  Cardinality(Spent(c)') + Chances(c)' <= Limit(c)' /\ pendingKey'[c] = 0
  <2> PICK p : p = <<c, pendingKey[c]>>
    OBVIOUS
  <2> PICK D : D = dropped \cap KeysOf(c)
    OBVIOUS
  <2>0. pendingKey'[c] = 0
    BY ReloadFacts
  <2>1. Spent(c)' \subseteq Spent(c) \cup {p} /\ (p \in Spent(c)' => p \in KeysOf(c) /\ Counts(p)')
    BY <1>2, KeysOfFinite DEF Spent, KeysOf
  <2>2. p \notin D
    BY DEF CartsInv, DroppedOld
  <2>3. IsFiniteSet(D) /\ Cardinality(D) \in Nat
    <3>1. D \subseteq KeysOf(c)
      OBVIOUS
    <3> QED
      BY <3>1, KeysOfFinite, CountsSmaller
  <2>4. IsFiniteSet(D \cup {p}) /\ Cardinality(D \cup {p}) = Cardinality(D) + 1
    BY <2>2, <2>3, FS_AddElement
  <2>5. dropped' \cap KeysOf(c) \in {D, D \cup {p}}
    BY ReloadDrops
  <2>6. /\ Limit(c)' = 1 + blocked[c] + Cardinality(dropped' \cap KeysOf(c))
        /\ Limit(c) = 1 + blocked[c] + Cardinality(D) /\ blocked[c] \in Nat
    BY ReloadFacts DEF Limit, KeysOf, TypeOK
  <2>7. Cardinality(Spent(c)) + Chances(c) <= Limit(c) /\ Chances(c)' <= Chances(c)
    BY <1>4 DEF CartsInv
  <2>8. CASE p \in Spent(c)'
    <3>1. dropped' \cap KeysOf(c) = D \cup {p}
      BY <2>1, <2>2, <2>5, <2>8, ReloadDrops
    <3>a. Cardinality(dropped' \cap KeysOf(c)) = Cardinality(D) + 1
      BY <2>4, <3>1
    <3>2. Limit(c)' = Limit(c) + 1
      BY <2>3, <2>6, <3>a
    <3>3. /\ IsFiniteSet(Spent(c) \cup {p})
          /\ Cardinality(Spent(c) \cup {p}) <= Cardinality(Spent(c)) + 1
      BY CartNumbers, OneMoreCounts
    <3>4. /\ Cardinality(Spent(c)') <= Cardinality(Spent(c) \cup {p})
          /\ Cardinality(Spent(c) \cup {p}) \in Nat
      BY <2>1, <3>3, CountsSmaller
    <3> QED
      BY <2>0, <2>7, <3>2, <3>3, <3>4, CartNumbers
  <2>9. CASE p \notin Spent(c)'
    <3>1. Spent(c)' \subseteq Spent(c)
      BY <2>1, <2>9
    <3>2. Cardinality(Spent(c)') <= Cardinality(Spent(c))
      BY <3>1, CartNumbers, CountsSmaller
    <3>a. Cardinality(dropped' \cap KeysOf(c)) \in {Cardinality(D), Cardinality(D) + 1}
      BY <2>4, <2>5
    <3>3. Limit(c) <= Limit(c)'
      BY <2>3, <2>6, <3>a
    <3> QED
      BY <2>0, <2>7, <3>2, <3>3, CartNumbers
  <2> QED
    BY <2>8, <2>9
<1> QED
  BY <1>3, <1>5, <1>6 DEF CartsInv

LEMMA CartsStep ==
  ASSUME TypeOK, TypeOK', Ledger, Ledger', CartsInv, [Next]_vars
  PROVE  CartsInv'
<1>f. IsFiniteSet(requests) /\ IsFiniteSet(requests)'
  BY DEF Ledger
<1>1. ASSUME UNCHANGED <<browser, requests, orders, dropped>>
      PROVE  CartsInv'
  <2>1. PICK g : Moves(g)
    BY <1>1, NoneMoves
  <2>2. \A c \in Carts : queue'[c] + replaying'[c] <= queue[c] + replaying[c]
    BY <1>1 DEF browser, offline, TypeOK
  <2>3. \A k \in Keys : orders'[k] > 0 => Counts(k)
    BY <1>1 DEF Counts
  <2> QED
    BY <1>1, <1>f, <2>1, <2>2, <2>3, MovesKeepCarts DEF browser, screen, cartKeys, offline
<1>2. CASE UNCHANGED vars
  BY <1>1, <1>2 DEF vars, history
<1>3. ASSUME NEW k \in Keys, Expire(k)
      PROVE  CartsInv'
  BY <1>1, <1>3 DEF Expire
<1> QED
  BY <1>2, <1>3, <1>f, SendsCarts, ReloadCarts, EditCarts, HearsCarts, HandlesCarts, RestartCarts
  DEF Next

LEMMA CartsInit ==
  ASSUME Init
  PROVE  CartsInv
<1>0. Cardinality({}) = 0
  BY FS_EmptySet
<1>1. ASSUME NEW c \in Carts
      PROVE  Spent(c) = {} /\ Chances(c) = 1 /\ Limit(c) = 1
  <2>1. Spent(c) = {} /\ HeardFor(c, "replay") = {} /\ dropped \cap KeysOf(c) = {}
    BY DEF Init, Spent, Counts, HeardFor, KeysOf
  <2>2. Entries(c) = 0
    BY <1>0, <2>1, EntriesParts DEF Init
  <2> QED
    BY <1>0, <2>1, <2>2 DEF Init, Chances, OpenCart, Limit
<1>2. ASSUME NEW c \in Carts
      PROVE  Cardinality(Spent(c)) + Chances(c) <= Limit(c) /\ pendingKey[c] = 0
  BY <1>0, <1>1 DEF Init
<1>3. DroppedOld /\ OneHeard
  BY DEF Init, DroppedOld, OneHeard
<1> QED
  BY <1>2, <1>3 DEF CartsInv

\* Orders of a cart: one for each key that counts, and one for each time a key
\* lost its protection.
LEMMA OrdersCounted ==
  ASSUME TypeOK, Ledger, NEW c \in Carts
  PROVE  /\ Total(orders, c) <= Total(broken, c) + Cardinality({k \in KeysOf(c) : Counts(k)})
         /\ Total(orders, c) \in Nat /\ Total(broken, c) \in Nat
<1>1. \A k \in KeysOf(c) : orders[k] \in Nat /\ broken[k] \in Nat
  BY KeysOfFinite DEF TypeOK
<1>2. ASSUME NEW k \in KeysOf(c)
      PROVE  orders[k] <= broken[k] \/ (k \in {j \in KeysOf(c) : Counts(j)} /\ orders[k] = broken[k] + 1)
  <2>1. /\ k \in Keys /\ orders[k] \in Nat /\ broken[k] \in Nat
        /\ Cardinality(InHandler(k)) \in Nat /\ Free(k) \in Nat
        /\ orders[k] + Cardinality(InHandler(k)) + Free(k) <= 1 + broken[k]
    BY <1>1, KeysOfFinite, HandlersFinite, FreeNat DEF Ledger
  <2>2. orders[k] <= broken[k] \/ (orders[k] = broken[k] + 1 /\ orders[k] > 0)
    BY <2>1
  <2> QED
    BY <2>2 DEF Counts
<1> DEFINE C == {k \in KeysOf(c) : Counts(k)}
<1>3. KeysOf(c) \cap C = C
  OBVIOUS
<1> HIDE DEF C
<1>4. SumFunctionOnSet(orders, KeysOf(c)) <= SumFunctionOnSet(broken, KeysOf(c)) + Cardinality(KeysOf(c) \cap C)
  BY <1>1, <1>2, KeysOfFinite, SumExceeds DEF C
<1>5. SumFunctionOnSet(orders, KeysOf(c)) \in Nat /\ SumFunctionOnSet(broken, KeysOf(c)) \in Nat
  BY <1>1, KeysOfFinite, SumNat
<1> QED
  BY <1>3, <1>4, <1>5 DEF Total, C

\* A cart becomes one order, whatever is sent again, replayed, lost or answered
\* late, but for keys that lost their protection on the server, keys the browser
\* gave up too early (for an error, an edit of the cart, a reload), and entries made
\* while the module was off (createOrder's rule "one key per logical order action").
THEOREM CartsBecomeOneOrder == Spec => []OneOrderPerCart
<1>1. Init => CartsInv
  BY CartsInit
<1>2. TypeOK /\ TypeOK' /\ Ledger /\ Ledger' /\ CartsInv /\ [Next]_vars => CartsInv'
  BY CartsStep
<1>3. TypeOK /\ Ledger /\ CartsInv => OneOrderPerCart
  <2> SUFFICES ASSUME TypeOK, Ledger, CartsInv, NEW c \in Carts
               PROVE  Total(orders, c) <= 1 + Total(broken, c)
                        + Cardinality(dropped \cap KeysOf(c)) + blocked[c]
    BY DEF OneOrderPerCart
  <2> DEFINE C == {k \in KeysOf(c) : Counts(k)}
             p == <<c, pendingKey[c]>>
  <2>1. /\ Cardinality(Spent(c)) + Chances(c) <= Limit(c)
        /\ pendingKey[c] # 0 => Cardinality(Spent(c)) + 1 <= Limit(c)
    BY DEF CartsInv
  <2>2. IsFiniteSet(Spent(c)) /\ Cardinality(Spent(c)) \in Nat
    <3>1. Spent(c) \subseteq KeysOf(c)
      BY DEF Spent
    <3> QED
      BY <3>1, KeysOfFinite, CountsSmaller
  <2>3. Chances(c) \in Nat /\ Limit(c) = 1 + blocked[c] + Cardinality(dropped \cap KeysOf(c))
        /\ Cardinality(dropped \cap KeysOf(c)) \in Nat /\ blocked[c] \in Nat
    <3>1. dropped \cap KeysOf(c) \subseteq KeysOf(c) /\ HeardFor(c, "replay") \subseteq requests
      BY DEF HeardFor
    <3>2. /\ Cardinality(dropped \cap KeysOf(c)) \in Nat
          /\ Cardinality(HeardFor(c, "replay")) \in Nat
      BY <3>1, KeysOfFinite, CountsSmaller DEF Ledger
    <3>3. queue[c] \in Nat /\ replaying[c] \in Nat /\ blocked[c] \in Nat
      BY DEF TypeOK
    <3> QED
      BY <3>2, <3>3, EntriesParts DEF Chances, Limit
  <2>4. Cardinality(C) <= Limit(c) /\ Cardinality(C) \in Nat
    <3>1. CASE pendingKey[c] = 0
      <4>1. C = Spent(c)
        BY <3>1, KeysOfFinite DEF Spent
      <4> QED
        BY <2>1, <2>2, <2>3, <4>1
    <3>2. CASE pendingKey[c] # 0
      <4>1. C \subseteq Spent(c) \cup {p}
        BY KeysOfFinite DEF Spent
      <4> HIDE DEF C, p
      <4>2. /\ IsFiniteSet(Spent(c) \cup {p})
            /\ Cardinality(Spent(c) \cup {p}) <= Cardinality(Spent(c)) + 1
        BY <2>2, OneMoreCounts
      <4>3. /\ Cardinality(C) <= Cardinality(Spent(c) \cup {p}) /\ Cardinality(C) \in Nat
            /\ Cardinality(Spent(c) \cup {p}) \in Nat
        BY <4>1, <4>2, CountsSmaller
      <4> QED
        BY <2>1, <2>2, <2>3, <3>2, <4>2, <4>3
    <3> QED
      BY <3>1, <3>2
  <2>5. /\ Total(orders, c) <= Total(broken, c) + Cardinality(C)
        /\ Total(orders, c) \in Nat /\ Total(broken, c) \in Nat
    BY OrdersCounted
  <2> QED
    BY <2>3, <2>4, <2>5
<1> QED
  BY <1>1, <1>2, <1>3, TypeCorrect, LedgerAlways, PTL DEF Spec

-----------------------------------------------------------------------------
(* Browser, middleware and handler implement PlacedOrders: a commit is an   *)
(* order that the ledgers of keys and carts entitle the cart to, and each   *)
(* step that is a cause of another one is a mishap.                        *)

Mishaps(c) == Total(broken, c) + Cardinality(dropped \cap KeysOf(c)) + blocked[c]

LEMMA MishapsNat ==
  ASSUME TypeOK, NEW c \in Carts
  PROVE  /\ Total(orders, c) \in Nat /\ Total(broken, c) \in Nat /\ blocked[c] \in Nat
         /\ Cardinality(dropped \cap KeysOf(c)) \in Nat /\ Mishaps(c) \in Nat
<1>1. \A k \in KeysOf(c) : orders[k] \in Nat /\ broken[k] \in Nat
  BY KeysOfFinite DEF TypeOK
<1>2. Total(orders, c) \in Nat /\ Total(broken, c) \in Nat
  BY <1>1, KeysOfFinite, SumNat DEF Total
<1>3. Cardinality(dropped \cap KeysOf(c)) \in Nat
  <2>1. dropped \cap KeysOf(c) \subseteq KeysOf(c)
    OBVIOUS
  <2> QED
    BY <2>1, KeysOfFinite, CountsSmaller
<1> QED
  BY <1>2, <1>3 DEF TypeOK, Mishaps

\* One more for a key is one more for its cart.
LEMMA OneMoreInTotal ==
  ASSUME NEW f \in [Keys -> Nat], NEW g \in [Keys -> Nat], NEW k \in Keys, g[k] = f[k] + 1,
         \A j \in Keys \ {k} : g[j] = f[j]
  PROVE  \A c \in Carts : Total(g, c) = IF c = k[1] THEN Total(f, c) + 1 ELSE Total(f, c)
<1> SUFFICES ASSUME NEW c \in Carts
             PROVE  Total(g, c) = IF c = k[1] THEN Total(f, c) + 1 ELSE Total(f, c)
  OBVIOUS
<1>1. \A j \in KeysOf(c) : f[j] \in Nat /\ g[j] \in Nat /\ (j # k => g[j] = f[j])
  BY KeysOfFinite
<1>2. CASE c # k[1]
  <2>1. k \notin KeysOf(c)
    BY <1>2 DEF KeysOf
  <2>2. \A j \in KeysOf(c) : g[j] = f[j]
    BY <1>1, <2>1
  <2> QED
    BY <1>1, <1>2, <2>2, KeysOfFinite, SumSame DEF Total
<1>3. CASE c = k[1]
  <2>1. k \in KeysOf(c) /\ g[k] = f[k] + 1
    BY <1>3 DEF KeysOf
  <2> DEFINE R == KeysOf(c) \ {k}
  <2>2. IsFiniteSet(R)
    BY KeysOfFinite, FS_RemoveElement
  <2>3. \A j \in R : f[j] \in Nat /\ g[j] = f[j]
    BY <1>1
  <2>4. IsFiniteSet(KeysOf(c)) /\ (\A j \in KeysOf(c) : f[j] \in Nat) /\ (\A j \in KeysOf(c) : g[j] \in Nat)
    BY <1>1, KeysOfFinite
  <2>6. SumFunctionOnSet(g, KeysOf(c)) = g[k] + SumFunctionOnSet(g, R)
    BY <2>1, <2>4, SumRemove
  <2>7. SumFunctionOnSet(f, KeysOf(c)) = f[k] + SumFunctionOnSet(f, R)
    BY <2>1, <2>4, SumRemove
  <2> HIDE DEF R
  <2>5. SumFunctionOnSet(g, R) = SumFunctionOnSet(f, R) /\ SumFunctionOnSet(f, R) \in Nat
    BY <2>2, <2>3, SumSame, SumNat
  <2> QED
    BY <1>1, <1>3, <2>1, <2>5, <2>6, <2>7 DEF Total
<1> QED
  BY <1>2, <1>3

\* A key with an order is an order of its cart.
LEMMA OrderInTotal ==
  ASSUME TypeOK, NEW k \in Keys, orders[k] > 0
  PROVE  k[1] \in Carts /\ Total(orders, k[1]) > 0
<1> DEFINE c == k[1]
           R == KeysOf(c) \ {k}
<1>1. c \in Carts /\ k \in KeysOf(c)
  BY KeyFacts DEF KeysOf
<1>2. \A j \in KeysOf(c) : orders[j] \in Nat
  BY <1>1, KeysOfFinite DEF TypeOK
<1>3. IsFiniteSet(R) /\ \A j \in R : orders[j] \in Nat
  BY <1>1, <1>2, KeysOfFinite, FS_RemoveElement
<1>4. SumFunctionOnSet(orders, KeysOf(c)) = orders[k] + SumFunctionOnSet(orders, R)
  BY <1>1, <1>2, KeysOfFinite, SumRemove
<1> HIDE DEF R
<1>5. SumFunctionOnSet(orders, R) \in Nat
  BY <1>3, SumNat
<1> QED
  BY <1>1, <1>2, <1>4, <1>5 DEF Total

LEMMA SomeMishaps ==
  ASSUME NEW S \in SUBSET Carts, UNCHANGED <<orders, cart>>,
         \A c \in Carts : Mishaps(c)' = IF c \in S THEN Mishaps(c) + 1 ELSE Mishaps(c)
  PROVE  Promise!Next
<1> DEFINE m == [c \in Carts |-> Total(broken, c) + Cardinality(dropped \cap KeysOf(c)) + blocked[c]]
<1>1. [c \in Carts |-> Total(broken', c) + Cardinality(dropped' \cap KeysOf(c)) + blocked'[c]]
        = [c \in Carts |-> IF c \in S THEN m[c] + 1 ELSE m[c]]
  BY DEF Mishaps, KeysOf
<1>2. Promise!GoWrong(S)
  BY <1>1 DEF Promise!GoWrong, KeysOf
<1> QED
  BY <1>2 DEF Promise!Next

LEMMA OneMishap ==
  ASSUME NEW d \in Carts, UNCHANGED <<orders, cart>>,
         \A c \in Carts : Mishaps(c)' = IF c = d THEN Mishaps(c) + 1 ELSE Mishaps(c)
  PROVE  Promise!Next
<1> PICK S : S = {d}
  OBVIOUS
<1>1. S \in SUBSET Carts /\ \A c \in Carts : Mishaps(c)' = IF c \in S THEN Mishaps(c) + 1 ELSE Mishaps(c)
  OBVIOUS
<1> QED
  BY <1>1, SomeMishaps

LEMMA BreakIsMishap ==
  ASSUME TypeOK, NEW k \in Keys, Break(k), UNCHANGED <<orders, dropped, blocked, cart>>
  PROVE  Promise!Next
<1>1. k[1] \in Carts
  BY KeyFacts
<1>2. broken \in [Keys -> Nat] /\ broken' = [broken EXCEPT ![k] = broken[k] + 1]
  BY DEF Break, TypeOK
<1>3. \A c \in Carts : Total(broken', c) = IF c = k[1] THEN Total(broken, c) + 1 ELSE Total(broken, c)
  <2>1. PICK f : f = broken
    OBVIOUS
  <2>2. PICK g : g = broken'
    OBVIOUS
  <2>3. /\ f \in [Keys -> Nat] /\ g \in [Keys -> Nat] /\ g[k] = f[k] + 1
        /\ \A j \in Keys \ {k} : g[j] = f[j]
    BY <1>2, <2>1, <2>2
  <2>4. \A c \in Carts : Total(g, c) = IF c = k[1] THEN Total(f, c) + 1 ELSE Total(f, c)
    BY <2>3, OneMoreInTotal
  <2> QED
    BY <2>1, <2>2, <2>4
<1>4. \A c \in Carts : Mishaps(c)' = Total(broken', c) + Cardinality(dropped \cap KeysOf(c)) + blocked[c]
  BY DEF Mishaps, KeysOf
<1>5. \A c \in Carts : Mishaps(c)' = IF c = k[1] THEN Mishaps(c) + 1 ELSE Mishaps(c)
  BY <1>3, <1>4, MishapsNat DEF Mishaps
<1> QED
  BY <1>1, <1>5, OneMishap

LEMMA BlockIsMishap ==
  ASSUME TypeOK, NEW d \in Carts, blocked' = [blocked EXCEPT ![d] = @ + 1],
         UNCHANGED <<orders, broken, dropped, cart>>
  PROVE  Promise!Next
<1>1. \A c \in Carts : blocked'[c] = IF c = d THEN blocked[c] + 1 ELSE blocked[c]
  BY DEF TypeOK
<1>2. \A c \in Carts : Mishaps(c)' = Total(broken, c) + Cardinality(dropped \cap KeysOf(c)) + blocked'[c]
  BY DEF Mishaps, KeysOf
<1>3. \A c \in Carts : Mishaps(c)' = IF c = d THEN Mishaps(c) + 1 ELSE Mishaps(c)
  BY <1>1, <1>2, MishapsNat DEF Mishaps
<1> QED
  BY <1>3, OneMishap

\* What the browser gives up is one key of the cart at most.
LEMMA DropCounts ==
  ASSUME TypeOK, NEW d \in Carts, NEW rest, Drop(d, rest), UNCHANGED <<broken, blocked>>
  PROVE  \/ \A c \in Carts : Mishaps(c)' = Mishaps(c)
         \/ \A c \in Carts : Mishaps(c)' = IF c = d THEN Mishaps(c) + 1 ELSE Mishaps(c)
<1> DEFINE k == <<d, pendingKey[d]>>
<1>1. dropped' = dropped \/ (k \in Keys /\ k \notin dropped /\ dropped' = dropped \cup {k})
  BY DEF Drop
<1>2. \A c \in Carts : Mishaps(c)' = Total(broken, c) + Cardinality(dropped' \cap KeysOf(c)) + blocked[c]
  BY DEF Mishaps, KeysOf
<1>3. CASE dropped' = dropped
  BY <1>2, <1>3 DEF Mishaps
<1>4. CASE k \in Keys /\ k \notin dropped /\ dropped' = dropped \cup {k}
  <2>1. ASSUME NEW c \in Carts
        PROVE  Cardinality(dropped' \cap KeysOf(c)) = Cardinality(dropped \cap KeysOf(c))
                 + (IF c = d THEN 1 ELSE 0)
    <3>1. IsFiniteSet(dropped \cap KeysOf(c)) /\ Cardinality(dropped \cap KeysOf(c)) \in Nat
      BY KeysOfFinite, FS_Intersection, FS_CardinalityType
    <3>2. CASE c = d
      <4>1. dropped' \cap KeysOf(c) = (dropped \cap KeysOf(c)) \cup {k} /\ k \notin dropped \cap KeysOf(c)
        BY <1>4, <3>2 DEF KeysOf
      <4> HIDE DEF k
      <4> QED
        BY <3>1, <3>2, <4>1, FS_AddElement
    <3>3. CASE c # d
      <4>1. dropped' \cap KeysOf(c) = dropped \cap KeysOf(c)
        BY <1>4, <3>3 DEF KeysOf
      <4>2. Cardinality(dropped' \cap KeysOf(c)) = Cardinality(dropped \cap KeysOf(c))
        BY <4>1
      <4> HIDE DEF k
      <4> QED
        BY <3>1, <3>3, <4>2
    <3> QED
      BY <3>2, <3>3
  <2> QED
    BY <1>2, <2>1, MishapsNat DEF Mishaps
<1> QED
  BY <1>1, <1>3, <1>4

LEMMA DropIsMishap ==
  ASSUME TypeOK, NEW d \in Carts, NEW rest, Drop(d, rest),
         UNCHANGED <<orders, broken, blocked, cart>>
  PROVE  [Promise!Next]_(Promise!vars)
<1>1. CASE \A c \in Carts : Mishaps(c)' = Mishaps(c)
  BY <1>1 DEF Promise!vars, Mishaps, KeysOf
<1>2. CASE \A c \in Carts : Mishaps(c)' = IF c = d THEN Mishaps(c) + 1 ELSE Mishaps(c)
  BY <1>2, OneMishap
<1> QED
  BY <1>1, <1>2, DropCounts

LEMMA UncountedStep ==
  ASSUME UNCHANGED counted
  PROVE  UNCHANGED Promise!vars
BY DEF counted, Promise!vars, KeysOf

LEMMA SendsPlace ==
  ASSUME TypeOK, Sends
  PROVE  [Promise!Next]_(Promise!vars)
<1>1. CASE SendBlocked
  BY <1>1, BlockIsMishap DEF SendBlocked, screen, history, TypeOK
<1>2. ASSUME NEW c \in Carts, ReplayBlocked(c)
      PROVE  Promise!Next
  BY <1>2, BlockIsMishap DEF ReplayBlocked, screen, history
<1>3. CASE Send \/ StartReplay \/ SyncModules \/ \E c \in Carts : Replay(c) \/ Show(c)
  BY <1>3, UncountedStep DEF Send, StartReplay, SyncModules, Replay, Show, counted, screen, offline, history
<1> QED
  BY <1>1, <1>2, <1>3 DEF Sends

LEMMA EditPlaces ==
  ASSUME TypeOK, NEW c \in Carts, EditCart(c)
  PROVE  [Promise!Next]_(Promise!vars)
BY DropIsMishap DEF EditCart, screen, offline

\* A reload is a mishap of the carts whose pending key counted.
LEMMA ReloadPlaces ==
  ASSUME TypeOK, Reload
  PROVE  Promise!Next
<1>1. ASSUME NEW c \in Carts
      PROVE  Mishaps(c)' = Mishaps(c) \/ Mishaps(c)' = Mishaps(c) + 1
  <2> PICK p : p = <<c, pendingKey[c]>>
    OBVIOUS
  <2> PICK D : D = dropped \cap KeysOf(c)
    OBVIOUS
  <2>1. IsFiniteSet(D) /\ Cardinality(D) \in Nat
    <3>1. D \subseteq KeysOf(c)
      OBVIOUS
    <3> QED
      BY <3>1, KeysOfFinite, CountsSmaller
  <2>2. Cardinality(D \cup {p}) \in {Cardinality(D), Cardinality(D) + 1}
    BY <2>1, FS_AddElement
  <2>3. dropped' \cap KeysOf(c) \in {D, D \cup {p}}
    BY ReloadDrops
  <2>4. Cardinality(dropped' \cap KeysOf(c)) \in {Cardinality(D), Cardinality(D) + 1}
    BY <2>2, <2>3
  <2>5. Mishaps(c)' = Total(broken, c) + Cardinality(dropped' \cap KeysOf(c)) + blocked[c]
    BY ReloadFacts DEF Mishaps, KeysOf
  <2> QED
    BY <2>1, <2>4, <2>5, MishapsNat DEF Mishaps
<1> PICK S : S = {c \in Carts : Mishaps(c)' = Mishaps(c) + 1}
  OBVIOUS
<1>2. S \in SUBSET Carts /\ \A c \in Carts : Mishaps(c)' = IF c \in S THEN Mishaps(c) + 1 ELSE Mishaps(c)
  BY <1>1
<1> QED
  BY <1>2, SomeMishaps, ReloadFacts

LEMMA AcceptedPlaces ==
  ASSUME TypeOK, AnswersInv, NEW r \in requests, Accepted(r)
  PROVE  [Promise!Next]_(Promise!vars)
<1>1. r.cart \in Carts /\ KeyOf(r) \in Keys /\ KeyOf(r)[1] = r.cart /\ shown \in Carts
  BY DEF TypeOK, Requests, KeyOf
<1>2. orders[KeyOf(r)] > 0
  BY DEF Accepted, Heard, AnswersInv, Truthful
<1>3. Total(orders, r.cart) > 0
  BY <1>1, <1>2, OrderInTotal
<1>4. /\ UNCHANGED <<orders, broken, blocked>>
      /\ {c \in Carts : cart'[c] = "cleared"} = {c \in Carts : cart[c] = "cleared"} \cup {shown}
  BY <1>1 DEF Accepted, offline, TypeOK
<1>5. CASE shown = r.cart
  <2>1. UNCHANGED dropped
    BY <1>5 DEF Accepted
  <2>2. PICK c \in Carts : c = shown
    BY <1>1
  <2>3. Promise!Clear(c)
    BY <1>1, <1>3, <1>4, <1>5, <2>1, <2>2 DEF Promise!Clear, KeysOf
  <2> QED
    BY <2>3 DEF Promise!Next
<1>6. CASE shown # r.cart
  <2>1. Drop(r.cart, requests')
    BY <1>6 DEF Accepted
  <2> DEFINE m == [c \in Carts |-> Total(broken, c) + Cardinality(dropped \cap KeysOf(c)) + blocked[c]]
             n == [c \in Carts |-> Total(broken', c) + Cardinality(dropped' \cap KeysOf(c)) + blocked'[c]]
  <2>2. n \in {m, [m EXCEPT ![r.cart] = @ + 1]}
    <3>1. CASE \A c \in Carts : Mishaps(c)' = Mishaps(c)
      BY <3>1 DEF Mishaps, KeysOf
    <3>2. CASE \A c \in Carts : Mishaps(c)' = IF c = r.cart THEN Mishaps(c) + 1 ELSE Mishaps(c)
      BY <3>2 DEF Mishaps, KeysOf
    <3> QED
      BY <1>1, <1>4, <2>1, <3>1, <3>2, DropCounts
  <2>3. Promise!Confuse(shown, r.cart)
    BY <1>1, <1>3, <1>4, <1>6, <2>2 DEF Promise!Confuse, KeysOf
  <2> QED
    BY <1>1, <2>3 DEF Promise!Next
<1> QED
  BY <1>5, <1>6

LEMMA HearsPlace ==
  ASSUME TypeOK, AnswersInv, NEW r \in requests, Hears(r)
  PROVE  [Promise!Next]_(Promise!vars)
<1>1. r.cart \in Carts
  BY DEF TypeOK, Requests
<1>2. CASE AcceptedNotCleared(r) \/ Rejected(r) \/ GatewayError(r)
  <2>1. Drop(r.cart, requests') /\ UNCHANGED <<orders, broken, blocked, cart>>
    BY <1>2 DEF AcceptedNotCleared, Rejected, GatewayError, Requeue, screen
  <2> QED
    BY <1>1, <2>1, DropIsMishap
<1>3. CASE RefreshAndResend(r) \/ NetworkError(r)
  BY <1>3, UncountedStep DEF RefreshAndResend, NetworkError, Requeue, counted, screen, offline, history
<1> QED
  BY <1>2, <1>3, AcceptedPlaces DEF Hears

\* The order that is committed was owed: with it, there are still no more than
\* the mishaps allow.
LEMMA CommitPlaces ==
  ASSUME TypeOK, OneOrderPerCart', NEW r \in requests, Commit(r)
  PROVE  Promise!Next
<1>1. /\ KeyOf(r) \in Keys /\ KeyOf(r)[1] = r.cart /\ r.cart \in Carts
      /\ orders \in [Keys -> Nat] /\ orders' = [orders EXCEPT ![KeyOf(r)] = orders[KeyOf(r)] + 1]
  BY DEF TypeOK, Requests, KeyOf, Commit
<1>2. \A c \in Carts : Total(orders', c) = IF c = r.cart THEN Total(orders, c) + 1 ELSE Total(orders, c)
  <2>1. PICK f : f = orders
    OBVIOUS
  <2>2. PICK g : g = orders'
    OBVIOUS
  <2>3. PICK k \in Keys : k = KeyOf(r)
    BY <1>1
  <2>4. /\ f \in [Keys -> Nat] /\ g \in [Keys -> Nat] /\ g[k] = f[k] + 1
        /\ \A j \in Keys \ {k} : g[j] = f[j]
    BY <1>1, <2>1, <2>2, <2>3
  <2>5. \A c \in Carts : Total(g, c) = IF c = k[1] THEN Total(f, c) + 1 ELSE Total(f, c)
    BY <2>4, OneMoreInTotal
  <2> QED
    BY <1>1, <2>1, <2>2, <2>3, <2>5
<1>3. UNCHANGED <<broken, dropped, blocked, cart>>
  BY DEF Commit, browser, screen, offline
<1>4. Total(orders, r.cart)
        <= Total(broken, r.cart) + Cardinality(dropped \cap KeysOf(r.cart)) + blocked[r.cart]
  <2>1. Total(orders', r.cart)
          <= 1 + Total(broken', r.cart) + Cardinality(dropped' \cap KeysOf(r.cart)) + blocked'[r.cart]
    BY <1>1 DEF OneOrderPerCart, KeysOf
  <2> QED
    BY <1>1, <1>2, <1>3, <2>1, MishapsNat
<1>5. [c \in Carts |-> Total(orders', c)]
        = [[c \in Carts |-> Total(orders, c)] EXCEPT ![r.cart] = @ + 1]
  BY <1>2
<1>6. Promise!Place(r.cart)
  BY <1>1, <1>3, <1>4, <1>5 DEF Promise!Place, KeysOf
<1> QED
  BY <1>1, <1>6 DEF Promise!Next

LEMMA HandlesPlace ==
  ASSUME TypeOK, OneOrderPerCart', NEW r \in requests, Handles(r)
  PROVE  [Promise!Next]_(Promise!vars)
<1>1. KeyOf(r) \in Keys
  BY DEF TypeOK
<1>2. CASE ErrorAfterCommit(r) \/ Abort(r)
  <2>1. Break(KeyOf(r)) /\ UNCHANGED <<orders, dropped, blocked, cart>>
    BY <1>2 DEF ErrorAfterCommit, Abort, Finish, browser, screen, offline
  <2> QED
    BY <1>1, <2>1, BreakIsMishap
<1>3. CASE TryLock(r) \/ AnswerTaken(r) \/ Refuse(r) \/ Succeed(r) \/ RefuseAfterCommit(r)
  BY <1>3, UncountedStep DEF TryLock, AnswerTaken, Refuse, Succeed, RefuseAfterCommit, Finish,
     counted, browser, screen, offline, history
<1> QED
  BY <1>2, <1>3, CommitPlaces DEF Handles

LEMMA StepPlaces ==
  ASSUME TypeOK, AnswersInv, OneOrderPerCart', [Next]_vars
  PROVE  [Promise!Next]_(Promise!vars)
<1>1. CASE UNCHANGED vars
  BY <1>1, UncountedStep DEF vars, counted, browser, screen, offline, history
<1>2. CASE Restart
  BY <1>2, RestartFacts, UncountedStep DEF counted, browser, screen, offline
<1>3. ASSUME NEW k \in Keys, Expire(k)
      PROVE  Promise!Next
  BY <1>3, BreakIsMishap DEF Expire, browser, screen, offline
<1> QED
  BY <1>1, <1>2, <1>3, SendsPlace, ReloadPlaces, EditPlaces, HearsPlace, HandlesPlace DEF Next

LEMMA InitPlaces ==
  ASSUME Init
  PROVE  Promise!Init
<1>1. ASSUME NEW c \in Carts
      PROVE  Total(orders, c) = 0 /\ Total(broken, c) = 0
             /\ Cardinality(dropped \cap KeysOf(c)) = 0 /\ blocked[c] = 0
  <2>1. \A k \in KeysOf(c) : orders[k] = 0 /\ broken[k] = 0
    BY DEF Init, KeysOf
  <2>2. \A f : (\A k \in KeysOf(c) : f[k] = 0) => SumFunctionOnSet(f, KeysOf(c)) = 0
    <3>1. IsFiniteSet(KeysOf(c)) /\ Cardinality(KeysOf(c)) \in Nat
      BY KeysOfFinite, FS_CardinalityType
    <3> SUFFICES ASSUME NEW f, \A k \in KeysOf(c) : f[k] = 0
                 PROVE  SumFunctionOnSet(f, KeysOf(c)) = 0
      OBVIOUS
    <3>2. SumFunctionOnSet(f, KeysOf(c)) = Cardinality(KeysOf(c)) * 0
      BY <3>1, SumConstant
    <3> QED
      BY <3>1, <3>2
  <2>5. dropped \cap KeysOf(c) = {}
    BY DEF Init
  <2>6. Cardinality({}) = 0
    BY FS_EmptySet
  <2> QED
    BY <2>1, <2>2, <2>5, <2>6 DEF Init, Total
<1>2. {c \in Carts : cart[c] = "cleared"} = {}
  BY DEF Init
<1>3. [c \in Carts |-> Total(orders, c)] = [c \in Carts |-> 0]
  BY <1>1
<1>4. \A c \in Carts : Total(broken, c) + Cardinality(dropped \cap KeysOf(c)) + blocked[c] = 0
  BY <1>1
<1>5. [c \in Carts |-> Total(broken, c) + Cardinality(dropped \cap KeysOf(c)) + blocked[c]]
        = [c \in Carts |-> 0]
  BY <1>4
<1> QED
  BY <1>2, <1>3, <1>5 DEF Promise!Init

\* Browser, middleware and handler keep what PlacedOrders promises a waiter, for
\* any carts and any number of requests, queue entries and faults.
THEOREM CartsArePlaced == Spec => PlacesOrders
<1>1. Init => Promise!Init
  BY InitPlaces
<1>2. TypeOK /\ AnswersInv /\ OneOrderPerCart' /\ [Next]_vars => [Promise!Next]_(Promise!vars)
  BY StepPlaces
<1>3. [Promise!Next]_(Promise!vars) => [UNCHANGED counted \/ Promise!Next]_(Promise!vars)
  OBVIOUS
<1> QED
  BY <1>1, <1>2, <1>3, TypeCorrect, AnswersAlways, CartsBecomeOneOrder, PTL DEF Spec, PlacesOrders

\* What the run checks is the promise as PlacedOrders states it.
COROLLARY PlacesOrdersIsPromise == PlacesOrders => Promise!Spec
<1>1. [UNCHANGED counted \/ Promise!Next]_(Promise!vars) => [Promise!Next]_(Promise!vars)
  BY UncountedStep
<1> QED
  BY <1>1, PTL DEF PlacesOrders, Promise!Spec
=============================================================================

---------------------------- MODULE PlacedOrders ----------------------------
(***************************************************************************)
(* What a waiter may rely on when a cart is sent, with no key, lock, retry *)
(* or queue in sight: a cart becomes one order, and one more per mishap; it *)
(* is cleared once it has an order, or when the answer for another cart    *)
(* was taken for its own.  OrderRequests implements this (its PlacesOrders). *)
(***************************************************************************)
EXTENDS Naturals

CONSTANT Carts

VARIABLES
    orders,   \* orders a cart has become
    mishaps,  \* what went wrong around a cart
    cleared   \* carts that are taken for sent

vars == <<orders, mishaps, cleared>>

Init ==
    /\ orders = [c \in Carts |-> 0]
    /\ mishaps = [c \in Carts |-> 0]
    /\ cleared = {}

\* The first order is owed, every other one needs a mishap of its own.
Place(c) ==
    /\ orders[c] <= mishaps[c]
    /\ orders' = [orders EXCEPT ![c] = @ + 1]
    /\ UNCHANGED <<mishaps, cleared>>

\* A mishap may strike several carts at once.
GoWrong(S) ==
    /\ mishaps' = [c \in Carts |-> IF c \in S THEN mishaps[c] + 1 ELSE mishaps[c]]
    /\ UNCHANGED <<orders, cleared>>

Clear(c) ==
    /\ orders[c] > 0
    /\ cleared' = cleared \cup {c}
    /\ UNCHANGED <<orders, mishaps>>

\* c is cleared for the order of d, which stays and may be sent again.
Confuse(c, d) ==
    /\ c # d /\ orders[d] > 0
    /\ cleared' = cleared \cup {c}
    /\ mishaps' \in {mishaps, [mishaps EXCEPT ![d] = @ + 1]}
    /\ UNCHANGED orders

Next ==
    \/ \E S \in SUBSET Carts : GoWrong(S)
    \/ \E c \in Carts : \/ Place(c) \/ Clear(c)
                        \/ \E d \in Carts : Confuse(c, d)

Spec == Init /\ [][Next]_vars
=============================================================================

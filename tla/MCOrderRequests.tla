--------------------------- MODULE MCOrderRequests --------------------------
(* Small instances of OrderRequests for TLC.                               *)
EXTENDS OrderRequests

CONSTANTS c1, c2

\* c1 is sent and sent again; c2 is the cart of another table, being filled.
MCAttempts == [c \in Carts |-> IF c = c1 THEN 3 ELSE 0]
MCQueue == [c \in Carts |-> IF c = c1 THEN 2 ELSE 0]
=============================================================================

------------------------- MODULE CertifiedReceipts --------------------------
(***************************************************************************)
(* What a till may rely on when it asks for certified receipts, with no    *)
(* queue, agent, claim or report in sight: one receipt per request and one *)
(* more per mishap, nothing concluded or shown as emitted without paper,   *)
(* and a request that is concluded stays concluded.  Every close that asks *)
(* is a request of its own, and several may name the same payment: the     *)
(* promise is one receipt per close, not one per payment.  FiscalQueue     *)
(* implements this (its KeepsReceipts).                                    *)
(***************************************************************************)
EXTENDS Naturals

CONSTANTS
    Requests,
    Payments,
    NoPayment

VARIABLES
    asked,    \* the payment a request names, NoPayment before it is made
    printed,  \* receipts the device has printed for a request
    mishaps,  \* what went wrong around a request
    outcome,  \* how it ended
    shown     \* what a payment shows

vars == <<asked, printed, mishaps, outcome, shown>>

Init ==
    /\ asked = [r \in Requests |-> NoPayment]
    /\ printed = [r \in Requests |-> 0]
    /\ mishaps = [r \in Requests |-> 0]
    /\ outcome = [r \in Requests |-> "none"]
    /\ shown = [p \in Payments |-> "none"]

Ask(r, p) ==
    /\ asked[r] = NoPayment
    /\ asked' = [asked EXCEPT ![r] = p]
    /\ UNCHANGED <<printed, mishaps, outcome, shown>>

GoWrong(S) ==
    /\ mishaps' = [r \in Requests |-> IF r \in S THEN mishaps[r] + 1 ELSE mishaps[r]]
    /\ UNCHANGED <<asked, printed, outcome, shown>>

\* The first receipt is owed, every other one needs a mishap of its own.
Emit(r) ==
    /\ asked[r] # NoPayment /\ printed[r] <= mishaps[r]
    /\ printed' = [printed EXCEPT ![r] = @ + 1]
    /\ UNCHANGED <<asked, mishaps, outcome, shown>>

\* A late report may replace one outcome by the other.
Conclude(r, o) ==
    /\ asked[r] # NoPayment
    /\ o = "completed" => printed[r] > 0
    /\ outcome' = [outcome EXCEPT ![r] = o]
    /\ UNCHANGED <<asked, printed, mishaps, shown>>

\* A payment shows how one of its requests ended, the last one that got through.
Show(r, s) ==
    /\ outcome[r] # "none"
    /\ s = "emitted" => printed[r] > 0
    /\ shown' = [shown EXCEPT ![asked[r]] = s]
    /\ UNCHANGED <<asked, printed, mishaps, outcome>>

Next ==
    \/ \E S \in SUBSET Requests : GoWrong(S)
    \/ \E r \in Requests : \/ \E p \in Payments : Ask(r, p)
                           \/ Emit(r)
                           \/ \E o \in {"completed", "failed"} : Conclude(r, o)
                           \/ \E s \in {"emitted", "failed"} : Show(r, s)

Spec == Init /\ [][Next]_vars
=============================================================================

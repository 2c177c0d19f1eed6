--------------------------- MODULE TicketDelivery ---------------------------
(***************************************************************************)
(* What the kitchen is promised, with no queue, bridge or call in sight:   *)
(* a ticket is asked for, each asking puts at most one copy on paper, and a *)
(* ticket is closed only when a copy is out or an operator vouches for it.  *)
(* PrintQueue implements this (its KeepsDelivery).                        *)
(***************************************************************************)
EXTENDS Naturals

CONSTANTS Jobs, MaxRound

VARIABLES
    asked,    \* how many times the ticket has been asked for
    copies,   \* copies[j][g]: copies on paper for the g-th asking
    vouched,  \* tickets an operator answers for
    closed    \* tickets the system regards as done

vars == <<asked, copies, vouched, closed>>

Rounds == 1..MaxRound

Out(j) == \E g \in Rounds : copies[j][g] > 0

Init ==
    /\ asked = [j \in Jobs |-> 0]
    /\ copies = [j \in Jobs |-> [g \in Rounds |-> 0]]
    /\ vouched = {}
    /\ closed = {}

\* A closed ticket is never asked for again behind the operators' backs.
Ask(S) ==
    /\ S \cap closed = {}
    /\ asked' = [j \in Jobs |-> IF j \in S THEN asked[j] + 1 ELSE asked[j]]
    /\ UNCHANGED <<copies, vouched, closed>>

\* An attempt that errs after the paper is out may reopen the ticket.
PutOut(j, g) ==
    /\ g <= asked[j] /\ copies[j][g] = 0
    /\ copies' = [copies EXCEPT ![j][g] = 1]
    /\ closed' \in {closed, closed \ {j}}
    /\ UNCHANGED <<asked, vouched>>

Vouch(j) ==
    /\ asked[j] > 0
    /\ vouched' = vouched \cup {j}
    /\ UNCHANGED <<asked, copies, closed>>

Close(j) ==
    /\ asked[j] > 0
    /\ vouched' \in {vouched, vouched \cup {j}}
    /\ Out(j) \/ j \in vouched'
    /\ closed' = closed \cup {j}
    /\ UNCHANGED <<asked, copies>>

\* A late failure report or a manual dispatch opens a ticket again.
Reopen(j) ==
    /\ closed' = closed \ {j}
    /\ UNCHANGED <<asked, copies, vouched>>

Next ==
    \/ \E S \in SUBSET Jobs : Ask(S)
    \/ \E j \in Jobs : Vouch(j) \/ Close(j) \/ Reopen(j) \/ \E g \in Rounds : PutOut(j, g)

Spec == Init /\ [][Next]_vars
=============================================================================

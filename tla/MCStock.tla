------------------------------- MODULE MCStock -------------------------------
(* Small instances of Stock for TLC.                                       *)
EXTENDS Stock, TLC

CONSTANTS flour, dough

\* A unit of dough takes one of flour.
MCInputs == [p \in Preps |-> [i \in Items |-> IF i = flour THEN 1 ELSE 0]]
MCOpening == [i \in Items |-> IF i = flour THEN 2 ELSE 0]

MCRecipes == {{flour}, {flour, dough}}

\* A purchase order of two lines.
MCPOOf == [l \in Lines |-> CHOOSE p \in POs : TRUE]
MCOrderedQty == [l \in Lines |-> 1]

\* Requests are interchangeable, and the lines of the order, which are for the same
\* quantity; no property names one of them.
Symmetry == Permutations(Staff) \cup Permutations(Lines)
=============================================================================

--------------------------- MODULE MCTableBilling ---------------------------
(* Small instances of TableBilling for TLC.                                *)
EXTENDS TableBilling, TLC

\* Tables and orders are interchangeable; no property names one of them.
Symmetry == Permutations(Tables) \cup Permutations(Orders)
=============================================================================

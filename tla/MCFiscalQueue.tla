---------------------------- MODULE MCFiscalQueue ---------------------------
(* Small instances of FiscalQueue for TLC.                                 *)
EXTENDS FiscalQueue

CONSTANTS b1, b2, a1, a2

OwnBridge == [a \in Agents |-> IF a = a1 THEN b1 ELSE b2]
=============================================================================

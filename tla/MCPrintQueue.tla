---------------------------- MODULE MCPrintQueue ----------------------------
(* Small instances of PrintQueue for TLC.                                  *)
EXTENDS PrintQueue, TLC

CONSTANTS j1, j2, kitchen, bar, b1, b2, a1, a2

\* j1 is a kitchen ticket, every other row a bar ticket.
MCAreaOf == [j \in Jobs |-> IF j = j1 THEN kitchen ELSE bar]

\* Every machine has its own bridge, or all of them share b1.
OwnBridge == [a \in Agents |-> IF a = a1 THEN b1 ELSE b2]
SharedBridge == [a \in Agents |-> b1]
=============================================================================

------------------------------ MODULE MCPurchase -----------------------------
(* Small instances of PurchaseExecution for TLC. *)
EXTENDS PurchaseProperties, TLC

CONSTANTS e1, e2

\* Workers are interchangeable; executions are not once a lineage is named.
WorkerSymmetry == Permutations(Workers)

NoLineages == {}
LineageOfE1 == {e1}
NoArmed == {}
RetryArmed == {<<e1, e2>>}
=============================================================================

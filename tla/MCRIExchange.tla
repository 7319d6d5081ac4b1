----------------------------- MODULE MCRIExchange ----------------------------
(* Small instances of RIExchange for TLC. *)
EXTENDS RIExchangeProperties, TLC

\* Rows and RIs are interchangeable: the code treats every one of them alike.
Interchangeable == Permutations(Rows) \cup Permutations(RIs) \cup Permutations(Approvers)
=============================================================================

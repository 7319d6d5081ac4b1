-------------------------- MODULE PurchaseContract ---------------------------
(***************************************************************************)
(* What CUDly promises about money, whatever happens to the rows: nothing  *)
(* is bought for an execution nobody authorised, and the executions of one *)
(* lineage (a first attempt and its retries) buy a recommendation          *)
(*   - once, where the provider collapses a repeated idempotency token;    *)
(*   - for one of them only, where nothing can detect a duplicate.         *)
(* PurchaseExecution implements this specification.                        *)
(***************************************************************************)
EXTENDS Naturals

CONSTANTS Execs, Recs, NoExec, ServerGuarded, Unguarded

VARIABLES
    lineage,     \* the lineage of each execution, NoExec before it exists
    authorised,  \* executions that may buy
    owned        \* commitments bought, by execution and recommendation

vars == <<lineage, authorised, owned>>

Siblings(e) == {f \in Execs : lineage[f] = lineage[e]}

\* Where a duplicate would not be noticed, the lineage has spent its one row.
MayBuy(e, r) ==
    /\ lineage[e] # NoExec
    /\ e \in authorised
    /\ lineage[e] \in ServerGuarded => \A f \in Siblings(e) : owned[f][r] = 0
    /\ lineage[e] \in Unguarded =>
         \A f \in Siblings(e) \ {e} : \A q \in Recs : owned[f][q] = 0

\* An execution exists, authorised from the start when a plan buys unattended.
Create(e, l) ==
    /\ lineage[e] = NoExec
    /\ lineage' = [lineage EXCEPT ![e] = l]
    /\ authorised' \in {authorised, authorised \cup {e}}
    /\ UNCHANGED owned

Authorise(e) ==
    /\ lineage[e] # NoExec
    /\ authorised' = authorised \cup {e}
    /\ UNCHANGED <<lineage, owned>>

\* Two stands for "more than one".
Buy(e, r) ==
    /\ MayBuy(e, r)
    /\ owned' = [owned EXCEPT ![e][r] = IF @ = 0 THEN 1 ELSE 2]
    /\ UNCHANGED <<lineage, authorised>>

\* Executions of earlier releases may exist, at most one of a lineage with
\* commitments.
Init ==
    /\ lineage \in [Execs -> Execs \cup {NoExec}]
    /\ authorised \in SUBSET Execs
    /\ owned \in [Execs -> [Recs -> {0, 1}]]
    /\ \A e \in Execs, r \in Recs : owned[e][r] > 0 =>
         /\ lineage[e] # NoExec
         /\ e \in authorised
         /\ \A f \in Siblings(e) \ {e} : \A q \in Recs : owned[f][q] = 0

Next ==
    \/ \E e, l \in Execs : Create(e, l)
    \/ \E e \in Execs : Authorise(e)
    \/ \E e \in Execs, r \in Recs : Buy(e, r)

Spec == Init /\ [][Next]_vars
=============================================================================

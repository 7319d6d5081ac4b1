------------------------------ MODULE Revocation ------------------------------
(* The return of one completed Azure purchase: revoke requests read the history *)
(* row, obtain a quote, raise the in-flight flag, ask Azure for the return and   *)
(* record it; the finalize_revocations sweep records the rows the flag is left   *)
(* up on. Each write to the database may fail and a request may die anywhere.    *)
EXTENDS Naturals, FiniteSets

CONSTANTS
    RevCallers,     \* concurrent revoke requests
    RevMaxPosts     \* bound on the requests that get to the return call

ASSUME RevAssumption == RevMaxPosts \in Nat

VARIABLES
    revRow,         \* revoked_at and revocation_in_flight of the row
    revReturned,    \* Azure took the reservation back and refunded it
    revOpen,        \* the return window, by Azure's clock
    revReq,         \* the stage of each request, and the quote it was given
    revSweep,       \* the sweep has the row in the list it works off
    revPosts,       \* returns asked of Azure, and those asked after the refund
    revFault        \* what went wrong so far
revVars == <<revRow, revReturned, revOpen, revReq, revSweep, revPosts, revFault>>

RevIdle == [stage |-> "idle"]
RevFaults == {"flip", "lost", "overlap"}

RevInit ==
    /\ revRow = [revoked |-> FALSE, inFlight |-> FALSE]
    /\ revReturned = FALSE
    /\ revOpen = TRUE
    /\ revReq = [c \in RevCallers |-> RevIdle]
    /\ revSweep = FALSE
    /\ revPosts = [all |-> 0, late |-> 0]
    /\ revFault = {}

RevStep(c, stage) == revReq' = [revReq EXCEPT ![c] = [stage |-> stage]]
RevBusy(c) == revReq[c].stage \in {"read", "quoted", "flipped", "returned", "rejected"}

\* Mutant: the flag is not looked at.
RevReadUnflagged(c) ==
    /\ revReq[c] = RevIdle /\ revPosts.all < RevMaxPosts
    /\ ~revRow.revoked /\ revOpen
    /\ RevStep(c, "read")
    /\ revFault' = IF \E d \in RevCallers : RevBusy(d) THEN revFault \cup {"overlap"} ELSE revFault
    /\ UNCHANGED <<revRow, revReturned, revOpen, revSweep, revPosts>>

\* loadAndRevokePurchaseHistory: a row already revoked or in flight ends the
\* request, and so does a closed window (checked with a margin on the local clock).
RevRead(c) ==
    /\ revReq[c] = RevIdle /\ revPosts.all < RevMaxPosts
    /\ ~revRow.revoked /\ ~revRow.inFlight /\ revOpen
    /\ RevStep(c, "read")
    /\ revFault' = IF \E d \in RevCallers : RevBusy(d) THEN revFault \cup {"overlap"} ELSE revFault
    /\ UNCHANGED <<revRow, revReturned, revOpen, revSweep, revPosts>>

\* azureCalculateRefund and the comparison with the amount the user confirmed:
\* Azure may quote what it has taken back already; an error or a diverged quote
\* ends the request.
RevQuote(c) ==
    /\ revReq[c].stage = "read"
    /\ RevStep(c, "quoted") \/ RevStep(c, "idle")
    /\ UNCHANGED <<revRow, revReturned, revOpen, revSweep, revPosts, revFault>>

\* Mutant: the flag is not raised before the return.
RevNoFlip(c) ==
    /\ revReq[c].stage = "quoted"
    /\ RevStep(c, "flipped")
    /\ UNCHANGED <<revRow, revReturned, revOpen, revSweep, revPosts, revFault>>

\* FlipPurchaseRevocationInFlight: its failure is logged and the return goes on.
RevFlip(c) ==
    /\ revReq[c].stage = "quoted"
    /\ \/ revRow' = [revRow EXCEPT !.inFlight = TRUE] /\ UNCHANGED revFault
       \/ revFault' = revFault \cup {"flip"} /\ UNCHANGED revRow
    /\ RevStep(c, "flipped")
    /\ UNCHANGED <<revReturned, revOpen, revSweep, revPosts>>

\* The Return call. Azure takes back what it holds while its window is open; the
\* answer may be lost, and anything else is an error as well.
RevReturn(c) ==
    /\ revReq[c].stage = "flipped" /\ revPosts.all < RevMaxPosts
    /\ revPosts' = [all |-> revPosts.all + 1,
                    late |-> revPosts.late + IF revReturned THEN 1 ELSE 0]
    /\ \/ /\ revOpen /\ ~revReturned /\ revReturned' = TRUE
          /\ \/ RevStep(c, "returned") /\ UNCHANGED revFault
             \/ RevStep(c, "rejected") /\ revFault' = revFault \cup {"lost"}
       \/ RevStep(c, "rejected") /\ UNCHANGED <<revReturned, revFault>>
    /\ UNCHANGED <<revRow, revOpen, revSweep>>

\* handleAzureReturnError: the flag is taken down, best effort.
RevReject(c) ==
    /\ revReq[c].stage = "rejected"
    /\ revRow' \in {revRow, [revRow EXCEPT !.inFlight = FALSE]}
    /\ RevStep(c, "idle")
    /\ UNCHANGED <<revReturned, revOpen, revSweep, revPosts, revFault>>

\* MarkPurchaseRevoked, WHERE revoked_at IS NULL. The flag stays up.
RevMarked == [revRow EXCEPT !.revoked = TRUE]

\* persistAzureRevocation: the row is marked, or every attempt fails and the
\* answer is RECONCILE_PENDING.
RevPersist(c) ==
    /\ revReq[c].stage = "returned"
    /\ revRow' \in {revRow, RevMarked}
    /\ RevStep(c, "idle")
    /\ UNCHANGED <<revReturned, revOpen, revSweep, revPosts, revFault>>

RevCrash(c) ==
    /\ RevBusy(c)
    /\ RevStep(c, "idle")
    /\ UNCHANGED <<revRow, revReturned, revOpen, revSweep, revPosts, revFault>>

\* FinalizeInFlightRevocations: the rows in flight are listed, and each is marked
\* revoked unless all attempts fail.
RevSweepList ==
    /\ ~revSweep /\ revRow.inFlight /\ ~revRow.revoked
    /\ revSweep' = TRUE
    /\ UNCHANGED <<revRow, revReturned, revOpen, revReq, revPosts, revFault>>

\* Mutant: the sweep only logs the rows it lists.
RevSweepOnlyLogs ==
    /\ revSweep /\ revSweep' = FALSE
    /\ UNCHANGED <<revRow, revReturned, revOpen, revReq, revPosts, revFault>>

RevSweepMark ==
    /\ revSweep /\ revSweep' = FALSE
    /\ revRow' = RevMarked
    /\ UNCHANGED <<revReturned, revOpen, revReq, revPosts, revFault>>

RevSweepFail ==
    /\ revSweep /\ revSweep' = FALSE
    /\ UNCHANGED <<revRow, revReturned, revOpen, revReq, revPosts, revFault>>

RevWindowCloses ==
    /\ revOpen /\ revOpen' = FALSE
    /\ UNCHANGED <<revRow, revReturned, revReq, revSweep, revPosts, revFault>>

RevNext ==
    \/ RevSweepList \/ RevSweepMark \/ RevSweepFail \/ RevWindowCloses
    \/ \E c \in RevCallers :
          \/ RevRead(c) \/ RevQuote(c) \/ RevFlip(c) \/ RevReturn(c)
          \/ RevReject(c) \/ RevPersist(c) \/ RevCrash(c)

\* The sweep runs on a schedule, and the database does not fail it for ever.
RevFairness == WF_revVars(RevSweepList) /\ SF_revVars(RevSweepMark)
RevSpec == RevInit /\ [][RevNext]_revVars /\ RevFairness

------------------------------------------------------------------------------
\* A refund can be found: once Azure has returned the reservation the row says so
\* or the flag is up for the sweep to see, although the process died or no attempt
\* to record it succeeded. It takes another fault, in the flag's own write or in
\* Azure's answer, or an overlapping request that takes the flag down, to lose it.
RevRefundTraceable == (revReturned /\ revFault = {}) => (revRow.revoked \/ revRow.inFlight)

\* A reservation Azure has returned is not returned again: the flag and revoked_at
\* keep every request that starts later from the Return call, under the same
\* single-fault assumption.
RevNotResubmitted == revFault = {} => revPosts.late = 0

\* A refund can always be traced from its row, and no later request asks for it again.
RevRefundSound == RevRefundTraceable /\ RevNotResubmitted

\* A refund ends up recorded on the row: by its request or, after a crash or failed
\* writes, by the sweep.
RevReconciled == (revReturned /\ revFault = {}) ~> (revRow.revoked \/ revFault # {})

\* A row is marked revoked only when Azure returned the reservation ("these rows
\* represent cases where the Azure Return API call succeeded").
RevokedMeansReturned == revRow.revoked => revReturned
=============================================================================

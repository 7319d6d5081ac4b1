-------------------------- MODULE PurchaseProperties -------------------------
(***************************************************************************)
(* What PurchaseExecution guarantees, and what the repository's comments   *)
(* say of it that does not hold.                                           *)
(***************************************************************************)
EXTENDS PurchaseExecution

(* Types. *)

\* Every variable keeps its type; in particular a retry chain stays within the
\* attempts the retry gate allows.
TypeOK ==
    /\ rows \in [Execs -> Row]
    /\ aged \subseteq Execs
    /\ work \in [Workers -> Work]
    /\ owned \in [Execs -> [Recs -> 0..2]]
    /\ tagged \subseteq (Execs \cup {NoExec}) \X Recs
    /\ approved \subseteq Execs

-----------------------------------------------------------------------------
(* Guarantees.                                                              *)

\* Rows whose purchase nobody has to approve.
Unattended == {e \in Execs : AutoPurchase /\ rows[e].planned /\ ~rows[e].web}

\* Whatever re-drive, sweep, message or stale save happens, a commitment is
\* bought only for a row an approver approved or an auto-purchase plan made
\* (executableByScheduler, ApproveAndExecute).
NoUnapprovedPurchase ==
    \A e \in Execs, r \in Recs : owned[e][r] > 0 => e \in approved \cup Unattended

SameLineage(e, f) == rows[e].lineage = rows[f].lineage

\* Where the provider collapses repeated tokens, a recommendation is bought
\* once over all attempts of a purchase, however many executors, sweeps and
\* retries run: every attempt sends the same token (idempotencyLineageKey).
ServerGuardedBoughtOnce ==
    \A e \in Execs, r \in Recs :
        rows[e].lineage \notin TagGuarded \cup Unguarded /\ owned[e][r] > 0 =>
            /\ owned[e][r] = 1
            /\ \A f \in Execs \ {e} : SameLineage(e, f) => owned[f][r] = 0

\* Where nothing detects a duplicate, only one attempt of a purchase ever buys:
\* a failed one is not retried, and a retry armed by an earlier release is
\* refused when it runs (RedriveRefusalReason, armedRedriveRefusal).
UnguardedLineageOneRow ==
    \A e, f \in Execs : e # f /\ SameLineage(e, f) /\ rows[e].lineage \in Unguarded =>
        \A q, r \in Recs : owned[e][q] = 0 \/ owned[f][r] = 0

\* A recommendation flagged as bought, or one of a completed row, has a
\* commitment behind it: no row is completed by a status nobody earned.
NoPhantomPurchase ==
    \A e \in Execs : \A r \in Recs :
        \/ r \in rows[e].bought
        \/ rows[e].status = "completed" /\ r \in rows[e].recs
        => Exists(rows[e].lineage, r)

\* A row that records a purchase is in a status from which it is neither
\* retried nor re-driven nor cancelled, whichever save came last.
BoughtIsFinal ==
    \A e \in Execs : rows[e].bought # {} =>
        rows[e].status \in {"completed", "partially_completed", "revocation_requested"}

\* A retry link leads to the next attempt of the same lineage, after any number
\* of stale saves of either row.
RetryLinkSound ==
    \A e \in Execs : rows[e].retry # NoExec =>
        LET s == rows[e].retry IN
        /\ rows[s].status # "absent"
        /\ SameLineage(e, s)
        /\ rows[s].attempt = rows[e].attempt + 1

\* The contract about money this module implements.
Contract == INSTANCE PurchaseContract WITH
    lineage       <- [e \in Execs |-> rows[e].lineage],
    authorised    <- approved \cup Unattended,
    ServerGuarded <- Execs \ (TagGuarded \cup Unguarded)

\* Every step of the rows is a step the contract allows, or changes none of it.
ImplementsContract == Contract!Spec

-----------------------------------------------------------------------------
(* Fairness.  A worker's step is taken or the worker dies (a Lambda has 60  *)
(* seconds).  Time passes.  The reaper is a cron job that lists every stuck *)
(* row at every tick, so a row stuck at infinitely many ticks is listed,    *)
(* and it is not killed at the same row at every tick for ever.             *)

Fairness ==
    /\ \A w \in Workers : WF_vars(Step(w) \/ Crash(w))
    /\ \A e \in Execs : WF_vars(Age(e))
    /\ \A e \in Execs : SF_vars(\E w \in Workers : ReapSelect(w, e))
    /\ \A w \in Workers : SF_vars(Reap(w))

FairSpec == Spec /\ Fairness

\* No row stays approved or running for ever, whoever died while holding it
\* (ReapStuckExecutions).
StuckRowsLeave ==
    \A e \in Execs : rows[e].status \in {"approved", "running"}
                        ~> rows[e].status \notin {"approved", "running"}

-----------------------------------------------------------------------------
(* What the repository says and the code does not keep.                     *)

\* "...instead of blindly overwriting the canceled state" (handler_purchases.go:823):
\* a row cancelled or revoked is never scheduled again.
CanceledNotRescheduled ==
    [][\A e \in Execs : rows[e].status = "canceled" => rows'[e].status # "scheduled"]_vars

\* "Retrying it AGAIN would silently overwrite the linkage pointer and orphan
\* the previous chain" (handler_purchases.go:1704): a row has one successor.
SingleSuccessor ==
    \A e, f \in Execs :
        e # f /\ rows[e].status # "absent" /\ SameLineage(e, f)
            => rows[e].attempt # rows[f].attempt

\* "AWS (all services): tag-guard or ClientToken deduplication" (manager.go:358):
\* a re-drive the gate calls safe buys nothing twice.
SafeRedriveBuysOnce ==
    \A e \in Execs, r \in Recs :
        rows[e].lineage \notin Unguarded /\ owned[e][r] > 0 =>
            /\ owned[e][r] = 1
            /\ \A f \in Execs \ {e} : SameLineage(e, f) => owned[f][r] = 0

-----------------------------------------------------------------------------
(* More of the same, each refuted by the instance README gives for it.      *)

\* "another worker/redelivery already owns this row" (manager.go:182): one
\* process at a time executes a row.
OneExecutorPerRow ==
    \A e \in Execs, v, w \in Workers : v # w => ~(Executing(v, e) /\ Executing(w, e))

\* "...so we don't stomp completed_at or other fields" (approvals.go:69): a
\* revocation request is not undone by a save of the row as completed.
RevocationRequestSticks ==
    [][\A e \in Execs : rows[e].status = "revocation_requested"
            => rows'[e].status \notin {"completed", "partially_completed"}]_vars

\* "No cloud API call was made; no cost incurred" (handler_purchases_revoke.go:293):
\* a scheduled row that is revoked has bought nothing.
RevokeIsFree ==
    [][\A e \in Execs : rows[e].status = "scheduled" /\ rows'[e].status = "canceled"
                            => \A r \in Recs : owned[e][r] = 0]_vars

\* "When > 0, approving a purchase defers the actual cloud SDK call"
\* (types.go:60): with a delay a web request buys only once it is due.
ApprovalDefersPurchase ==
    \A e \in Execs, r \in Recs :
        Delay /\ rows[e].web /\ owned[e][r] > 0 => rows[e].due

\* "Purchase execution initiated" (handler_purchases.go:327): a row that starts
\* running has a process executing it.
RunStartsAnExecutor ==
    [][\A e \in Execs : rows[e].status # "running" /\ rows'[e].status = "running"
                            => \E w \in Workers : Executing(w, e)']_vars

\* The scheduler runs again and again and never dies for ever at the same row.
SchedulerFairness == \A e \in Execs : SF_vars(\E w \in Workers : FireDue(w, e))

FairSchedulerSpec == FairSpec /\ SchedulerFairness

\* "The scheduler picks up rows with status=scheduled [...] and fires the actual
\* SDK call" (handler_purchases.go:783): a scheduled row is fired or revoked.
ScheduledLeaves ==
    \A e \in Execs : rows[e].status = "scheduled" ~> rows[e].status # "scheduled"
=============================================================================

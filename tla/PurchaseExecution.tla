-------------------------- MODULE PurchaseExecution --------------------------
(***************************************************************************)
(* The life of a CUDly purchase execution: one purchase_executions row,    *)
(* from the request that inserts it to the commitment bought in the cloud, *)
(* with every process that reads and writes the row meanwhile.             *)
(*                                                                         *)
(* Postgres is the only synchronisation point.  A status change is either  *)
(* a compare-and-set (TransitionExecutionStatus and its two cancel         *)
(* variants), or part of an UNCONDITIONAL full-row upsert of a row read    *)
(* earlier (SavePurchaseExecution).  Each action below is the code between *)
(* two such statements, so the interleavings of the module are those of    *)
(* the statements; the row a process still holds in memory is "snap".      *)
(*                                                                         *)
(* Workers are the processes that drive rows: HTTP handlers, cron ticks,   *)
(* SQS consumers.  A worker can die between any two statements.            *)
(***************************************************************************)
EXTENDS Naturals, FiniteSets

CONSTANTS
    Execs,          \* execution ids, the rows the store can hold
    Recs,           \* recommendations of an execution, by index
    Workers,        \* processes executing or sweeping rows
    NoExec,         \* "no execution": a NULL retry_execution_id
    TagGuarded,     \* lineages bought from a tag-after-purchase service (EC2)
    Unguarded,      \* lineages with no provider-side duplicate guard (Azure SP)
    PlanRecs,       \* recommendations carried by rows a plan created
    AutoPurchase,   \* the plan's auto_purchase flag
    Delay,          \* PurchaseDelayHours > 0
    DirectExecute,  \* some session holds the direct-execute permission
    MaxAttempt,     \* bound on retry_attempt_n
    Armed           \* <<failed, successor>> pairs retries of old releases may have left

ASSUME ConstantsAssumption ==
    /\ NoExec \notin Execs
    /\ TagGuarded \subseteq Execs
    /\ Unguarded \subseteq Execs
    /\ TagGuarded \cap Unguarded = {}
    /\ PlanRecs \subseteq Recs
    /\ {AutoPurchase, Delay, DirectExecute} \subseteq BOOLEAN
    /\ MaxAttempt \in Nat \ {0}
    /\ Armed \subseteq Execs \X Execs
    /\ \A p \in Armed : p[1] # p[2]
    /\ \A p, q \in Armed : p = q \/ {p[1], p[2]} \cap {q[1], q[2]} = {}

VARIABLES
    rows,       \* the purchase_executions table
    aged,       \* rows whose updated_at is older than the sweep thresholds
    work,       \* what each worker is doing, and the row copy it holds
    owned,      \* commitments bought, by the row and recommendation they were for
    tagged,     \* <<lineage, rec>> whose commitment carries its idempotency tag
    approved    \* history: rows some authorised approver has approved

vars == <<rows, aged, work, owned, tagged, approved>>

-----------------------------------------------------------------------------
(* Rows.                                                                    *)

\* "pending" stands for pending and notified, which only differ in that the
\* planned-purchase buttons leave a notified row alone.
Statuses == {"pending", "scheduled", "approved", "running", "paused",
             "completed", "partially_completed", "failed", "expired",
             "canceled", "revocation_requested"}

\* lineage: IdempotencyKey.  planned: PlanID is set.  web: Source = "cudly-web".
\* due: ScheduledExecutionAt is set.  bought: recs flagged Purchased.
\* retry: RetryExecutionID.  attempt: RetryAttemptN.
Row == [status  : Statuses \cup {"absent"},
        lineage : Execs \cup {NoExec},
        attempt : 0..MaxAttempt,
        web     : BOOLEAN,
        planned : BOOLEAN,
        recs    : SUBSET Recs,
        bought  : SUBSET Recs,
        due     : BOOLEAN,
        retry   : Execs \cup {NoExec}]

NewRow(e, web, planned, recs) ==
    [status |-> "pending", lineage |-> e, attempt |-> 0, web |-> web,
     planned |-> planned, recs |-> recs, bought |-> {}, due |-> FALSE,
     retry |-> NoExec]

NoRow == [NewRow(NoExec, TRUE, FALSE, {}) EXCEPT !.status = "absent"]

\* RedriveRefusalReason(exec) = ""
NoDuplicateRisk(row) == row.recs = {} \/ row.lineage \notin Unguarded
AllRecsSafeToRedrive(row) == row.recs # {} /\ NoDuplicateRisk(row)

\* Mutant: the gate is off by one attempt.
ArmedRedriveOffByOne(row) == row.attempt > 1 /\ ~NoDuplicateRisk(row)

\* armedRedriveRefusal: a retry of a purchase nothing can de-duplicate.
ArmedRedriveRefusal(row) == row.attempt > 0 /\ ~NoDuplicateRisk(row)

\* Mutant: the source of the row is not looked at.
ExecutableAnySource(row) == AutoPurchase

\* executableByScheduler: an auto-purchase plan made the row, not a web request.
ExecutableByScheduler(row) == ~row.web /\ AutoPurchase

-----------------------------------------------------------------------------
(* Workers.                                                                 *)

PCs == {"idle", "email", "directStamp", "directApprove", "stampApproved",
        "stampSchedule", "claim", "recover", "reap", "stampError", "purchase",
        "advance", "stampRefusal", "rotateRead", "rotateSave", "retry"}

\* Progress of one recommendation: not started, EC2 lookup found nothing,
\* bought but not yet tagged, reported bought, reported failed.
RecStates == {"todo", "looked", "untagged", "ok", "err"}

Work == [pc : PCs, exec : Execs \cup {NoExec}, snap : Row, rec : [Recs -> RecStates],
         token : BOOLEAN]

Fresh == [r \in Recs |-> "todo"]

\* "token" remembers that the approval came through ApproveExecution, which
\* rotates the approval token once the purchase is done.
Busy(p, e, row, tok) ==
    [pc |-> p, exec |-> e, snap |-> row, rec |-> Fresh, token |-> tok]

Resting == Busy("idle", NoExec, NoRow, FALSE)
Idle(w) == work[w].pc = "idle"
At(w, p) == work[w].pc = p

Become(w, job) == work' = [work EXCEPT ![w] = job]
Goto(w, p) == work' = [work EXCEPT ![w].pc = p]
Rest(w) == Become(w, Resting)

\* What a finished purchase does next: ramp refusals are stamped first, then
\* the token path mints its revocation token.
AfterPurchase(w) ==
    IF work[w].token THEN Goto(w, "rotateRead") ELSE Rest(w)

Executing(w, e) == At(w, "purchase") /\ work[w].exec = e

-----------------------------------------------------------------------------
(* The store.                                                               *)

\* Every statement that writes a row sets updated_at = NOW().
Write(e, row) ==
    /\ rows' = [rows EXCEPT ![e] = row]
    /\ aged' = aged \ {e}

\* TransitionExecutionStatus, CancelExecutionAtomic, CancelScheduledExecutionAtomic.
CanTransition(e, from) == rows[e].status \in from
Transition(e, to) == Write(e, [rows[e] EXCEPT !.status = to])

\* SavePurchaseExecution on an existing row: every column but the INSERT-only ones.
Upsert(e, row) ==
    Write(e, [row EXCEPT !.lineage = rows[e].lineage,
                         !.attempt = rows[e].attempt,
                         !.planned = rows[e].planned])

Insert(e, row) == rows[e].status = "absent" /\ Write(e, row)

-----------------------------------------------------------------------------
(* Rows come into being.                                                    *)

\* executePurchase: the row, then its approval email or the direct purchase.
Submit(w, e) ==
    /\ Idle(w)
    /\ LET row == NewRow(e, TRUE, FALSE, Recs) IN
       /\ Insert(e, row)
       /\ \/ Become(w, Busy("email", e, row, FALSE))
          \/ DirectExecute /\ Become(w, Busy("directStamp", e, row, FALSE))
    /\ UNCHANGED <<owned, tagged, approved>>

\* createPurchaseExecutionsTx and getOrCreateExecution: a ramp step of a plan.
CreatePlanned(e) ==
    /\ Insert(e, NewRow(e, FALSE, TRUE, PlanRecs))
    /\ UNCHANGED <<work, owned, tagged, approved>>

\* finalizePurchaseStatus: no email, so the row as inserted is saved as failed.
ApprovalEmailFailed(w) ==
    /\ At(w, "email")
    /\ Upsert(work[w].exec, [work[w].snap EXCEPT !.status = "failed"])
    /\ Rest(w)
    /\ UNCHANGED <<owned, tagged, approved>>

ApprovalEmailSent(w) ==
    /\ At(w, "email")
    /\ Rest(w)
    /\ UNCHANGED <<rows, aged, owned, tagged, approved>>

-----------------------------------------------------------------------------
(* Approval.                                                                *)

\* ApproveAndExecute up to the compare-and-set.  With a purchase delay the HTTP
\* handlers schedule instead; the SQS approve message (token) does not.
Approve(w, e, token) ==
    /\ Idle(w)
    /\ token \/ ~Delay
    /\ CanTransition(e, {"pending"})
    /\ Transition(e, "approved")
    /\ Become(w, Busy("stampApproved", e, rows'[e], token))
    /\ approved' = approved \cup {e}
    /\ UNCHANGED <<owned, tagged>>

\* directExecutePurchase: audit stamps are a full-row save of the row as inserted,
\* whose failure is only logged...
DirectStamp(w) ==
    /\ At(w, "directStamp")
    /\ \/ Upsert(work[w].exec, work[w].snap)
       \/ UNCHANGED <<rows, aged>>
    /\ Goto(w, "directApprove")
    /\ UNCHANGED <<owned, tagged, approved>>

\* ...and ApproveAndExecute follows.
DirectApprove(w) ==
    LET e == work[w].exec IN
    /\ At(w, "directApprove")
    /\ IF CanTransition(e, {"pending"})
       THEN /\ Transition(e, "approved")
            /\ Become(w, Busy("stampApproved", e, rows'[e], FALSE))
            /\ approved' = approved \cup {e}
       ELSE /\ Rest(w)
            /\ UNCHANGED <<rows, aged, approved>>
    /\ UNCHANGED <<owned, tagged>>

\* The approved_by stamp: a full-row save whose failure is only logged.
StampApproved(w) ==
    /\ At(w, "stampApproved")
    /\ \/ Upsert(work[w].exec, work[w].snap)
       \/ UNCHANGED <<rows, aged>>
    /\ Goto(w, "purchase")
    /\ UNCHANGED <<owned, tagged, approved>>

\* scheduleApprovedExecution: the compare-and-set...
ScheduleApproved(w, e) ==
    /\ Idle(w)
    /\ Delay
    /\ CanTransition(e, {"pending"})
    /\ Transition(e, "scheduled")
    /\ Become(w, Busy("stampSchedule", e, rows'[e], FALSE))
    /\ approved' = approved \cup {e}
    /\ UNCHANGED <<owned, tagged>>

\* ...then a full-row save that adds scheduled_execution_at.
StampSchedule(w) ==
    /\ At(w, "stampSchedule")
    /\ Upsert(work[w].exec, [work[w].snap EXCEPT !.due = TRUE])
    /\ Rest(w)
    /\ UNCHANGED <<owned, tagged, approved>>

\* fireOneDue: a scheduled row whose time has come is approved and executed.
FireDue(w, e) ==
    /\ Idle(w)
    /\ CanTransition(e, {"scheduled"}) /\ rows[e].due
    /\ Transition(e, "approved")
    /\ Become(w, Busy("stampApproved", e, rows'[e], FALSE))
    /\ UNCHANGED <<owned, tagged, approved>>

-----------------------------------------------------------------------------
(* Cancel, revoke, expire, and the planned-purchase buttons.                *)

\* CancelExecution (email link): the token is cleared by a read and a save.
CancelByToken(w, e) ==
    /\ Idle(w)
    /\ CanTransition(e, {"pending"})
    /\ Transition(e, "canceled")
    /\ Become(w, Busy("rotateRead", e, rows'[e], FALSE))
    /\ UNCHANGED <<owned, tagged, approved>>

\* A single compare-and-set of a request handler, nothing else.
Handler(e, from, to) ==
    /\ CanTransition(e, from)
    /\ Transition(e, to)
    /\ UNCHANGED <<work, owned, tagged, approved>>

CancelBySession(e)    == Handler(e, {"pending"}, "canceled")
RevokeScheduled(e)    == Handler(e, {"scheduled"}, "canceled")
RequestRevocation(e)  == Handler(e, {"completed", "partially_completed"},
                                 "revocation_requested")
ExpireStale(e)        == Handler(e, {"pending"}, "expired")
PausePlanned(e)       == Handler(e, {"pending", "running"}, "paused")
ResumePlanned(e)      == Handler(e, {"paused"}, "pending")
RunPlanned(e)         == Handler(e, {"pending", "paused"}, "running")
DeletePlanned(e)      == Handler(e, {"pending", "paused"}, "canceled")

-----------------------------------------------------------------------------
(* The asynchronous executors.                                              *)

\* handleExecutePurchase and processOneExecution: the row is read and gated...
ClaimRead(w, e) ==
    /\ Idle(w)
    /\ \/ rows[e].status = "approved"
       \/ rows[e].status = "pending" /\ ExecutableByScheduler(rows[e])
    /\ Become(w, Busy("claim", e, NoRow, FALSE))
    /\ UNCHANGED <<rows, aged, owned, tagged, approved>>

\* ...then claimAndExecute claims it.  A lost claim is skipped.
ClaimAndExecute(w) ==
    LET e == work[w].exec IN
    /\ At(w, "claim")
    /\ IF CanTransition(e, {"approved", "pending"})
       THEN /\ Transition(e, "running")
            /\ Become(w, Busy("purchase", e, rows'[e], FALSE))
       ELSE Rest(w) /\ UNCHANGED <<rows, aged>>
    /\ UNCHANGED <<owned, tagged, approved>>

\* RecoverStrandedApprovals lists rows that have been approved for too long.
RecoverSelect(w, e) ==
    /\ Idle(w)
    /\ rows[e].status = "approved" /\ e \in aged
    /\ Become(w, Busy("recover", e, rows[e], FALSE))
    /\ UNCHANGED <<rows, aged, owned, tagged, approved>>

\* claimAndRedrive, which keeps the row as listed, or safeFail.
Recover(w) ==
    LET e == work[w].exec
        listed == work[w].snap IN
    /\ At(w, "recover")
    /\ IF ~CanTransition(e, {"approved"})
       THEN Rest(w) /\ UNCHANGED <<rows, aged>>
       ELSE IF AllRecsSafeToRedrive(listed)
       THEN /\ Transition(e, "running")
            /\ Become(w, Busy("purchase", e,
                              [listed EXCEPT !.status = "running"], FALSE))
       ELSE /\ Transition(e, "failed")
            /\ Become(w, Busy("stampError", e, rows'[e], FALSE))
    /\ UNCHANGED <<owned, tagged, approved>>

\* Mutant: the reaper looks for approved rows only.
ReapableApproved == {"approved"}

Reapable == {"approved", "running"}

\* ReapStuckExecutions lists the rows stuck in approved or running...
ReapSelect(w, e) ==
    /\ Idle(w)
    /\ rows[e].status \in Reapable /\ e \in aged
    /\ Become(w, Busy("reap", e, NoRow, FALSE))
    /\ UNCHANGED <<rows, aged, owned, tagged, approved>>

\* ...and reapOne fails each one that is still in either status.
Reap(w) ==
    LET e == work[w].exec IN
    /\ At(w, "reap")
    /\ IF CanTransition(e, Reapable)
       THEN /\ Transition(e, "failed")
            /\ Become(w, Busy("stampError", e, rows'[e], FALSE))
       ELSE Rest(w) /\ UNCHANGED <<rows, aged>>
    /\ UNCHANGED <<owned, tagged, approved>>

\* The error text both sweeps add: a full-row save.
StampError(w) ==
    /\ At(w, "stampError")
    /\ Upsert(work[w].exec, work[w].snap)
    /\ Rest(w)
    /\ UNCHANGED <<owned, tagged, approved>>

-----------------------------------------------------------------------------
(* Buying.  The recommendations of an execution are bought in parallel, so  *)
(* each one takes its own steps.                                            *)

\* A commitment is created for the row; two stands for "more than one".
Acquire(e, r) ==
    owned' = [owned EXCEPT ![e][r] = IF @ = 0 THEN 1 ELSE 2]

Report(w, r, s) == work' = [work EXCEPT ![w].rec[r] = s]

Buying(w, r) ==
    /\ At(w, "purchase")
    /\ r \in work[w].snap.recs
    /\ ~ArmedRedriveRefusal(work[w].snap)

\* Mutant: each attempt sends tokens of its own.
LineageKeyIsExecution(w) == work[w].exec

\* idempotencyLineageKey: the first attempt of a purchase and its retries derive
\* their provider tokens from one key, so <<LineageKey, r>> is the token of r.
LineageKey(w) == work[w].snap.lineage

Exists(lineage, r) ==
    \E e \in Execs : rows[e].lineage = lineage /\ owned[e][r] > 0

\* External: one call to a provider that collapses a repeated token, or to one
\* that has no guard at all.  The reply can be lost after the purchase.
BuyDirect(w, r) ==
    LET e == work[w].exec
        class == work[w].snap.lineage IN
    /\ Buying(w, r)
    /\ class \notin TagGuarded
    /\ work[w].rec[r] = "todo"
    /\ IF class \notin Unguarded /\ Exists(LineageKey(w), r)
       THEN UNCHANGED owned ELSE Acquire(e, r)
    /\ \E reply \in {"ok", "err"} : Report(w, r, reply)
    /\ UNCHANGED <<rows, aged, tagged, approved>>

\* EC2 PurchaseCommitment: look the tag up first...
LookupTag(w, r) ==
    /\ Buying(w, r)
    /\ work[w].snap.lineage \in TagGuarded
    /\ work[w].rec[r] = "todo"
    /\ Report(w, r, IF <<LineageKey(w), r>> \in tagged THEN "ok" ELSE "looked")
    /\ UNCHANGED <<rows, aged, owned, tagged, approved>>

\* ...buy...
BuyUntagged(w, r) ==
    /\ Buying(w, r)
    /\ work[w].rec[r] = "looked"
    /\ Acquire(work[w].exec, r)
    /\ \E reply \in {"untagged", "err"} : Report(w, r, reply)
    /\ UNCHANGED <<rows, aged, tagged, approved>>

\* ...and tag what was bought, a failure of which is only logged.
TagBought(w, r) ==
    /\ Buying(w, r)
    /\ work[w].rec[r] = "untagged"
    /\ tagged' \in {tagged, tagged \cup {<<LineageKey(w), r>>}}
    /\ Report(w, r, "ok")
    /\ UNCHANGED <<rows, aged, owned, approved>>

\* Credentials, offering lookup or the provider refuse; nothing is bought.
BuyRejected(w, r) ==
    /\ Buying(w, r)
    /\ work[w].rec[r] \in {"todo", "looked"}
    /\ Report(w, r, "err")
    /\ UNCHANGED <<rows, aged, owned, tagged, approved>>

-----------------------------------------------------------------------------
(* Recording the outcome.                                                   *)

\* Mutant: every recommendation of the request is flagged.
FlagAll(w) == work[w].snap.bought \cup work[w].snap.recs

\* aggregatePurchaseOutcomes: the recommendations flagged Purchased.
BoughtBy(w) ==
    work[w].snap.bought \cup {r \in work[w].snap.recs : work[w].rec[r] = "ok"}

\* Mutant: one failure fails the row, whatever was bought.
OutcomeAllOrNothing(w) ==
    IF \A r \in work[w].snap.recs : work[w].rec[r] = "ok" THEN "completed" ELSE "failed"

\* executeSingleAccount and finalizeExecution: nothing failed, some failed, all failed.
Outcome(w) ==
    LET snap == work[w].snap IN
    IF ArmedRedriveRefusal(snap) THEN "failed"
    ELSE IF \A r \in snap.recs : work[w].rec[r] = "ok" THEN "completed"
    ELSE IF BoughtBy(w) # {} THEN "partially_completed"
    ELSE "failed"

\* executeAndFinalize: the terminal status is a full-row save.  When the save
\* fails the row stays as it was (ErrAuditLoss).
Finalize(w) ==
    LET e == work[w].exec
        final == [work[w].snap EXCEPT !.status = Outcome(w), !.bought = BoughtBy(w)]
    IN
    /\ At(w, "purchase")
    /\ \/ ArmedRedriveRefusal(work[w].snap)
       \/ \A r \in work[w].snap.recs : work[w].rec[r] \in {"ok", "err"}
    /\ \/ /\ Upsert(e, final)
          /\ IF final.status = "completed"
             THEN Become(w, [Busy("advance", e, final, work[w].token)
                               EXCEPT !.rec = work[w].rec])
             ELSE Rest(w)
       \/ /\ UNCHANGED <<rows, aged>>
          /\ Rest(w)
    /\ UNCHANGED <<owned, tagged, approved>>

\* updatePlanProgress: the ramp step is counted, or the plan refuses it.
AdvanceRamp(w) ==
    /\ At(w, "advance")
    /\ \/ AfterPurchase(w)
       \/ work[w].snap.planned /\ Goto(w, "stampRefusal")
    /\ UNCHANGED <<rows, aged, owned, tagged, approved>>

\* recordRampAdvanceRefusal: a second full-row save of the completed row.
StampRefusal(w) ==
    /\ At(w, "stampRefusal")
    /\ \/ Upsert(work[w].exec, work[w].snap)
       \/ UNCHANGED <<rows, aged>>
    /\ AfterPurchase(w)
    /\ UNCHANGED <<owned, tagged, approved>>

\* mintRevocationToken and clearApprovalToken: read the row...
RotateRead(w) ==
    /\ At(w, "rotateRead")
    /\ Become(w, Busy("rotateSave", work[w].exec, rows[work[w].exec], FALSE))
    /\ UNCHANGED <<rows, aged, owned, tagged, approved>>

\* ...and save all of it with another token.
RotateSave(w) ==
    /\ At(w, "rotateSave")
    /\ Upsert(work[w].exec, work[w].snap)
    /\ Rest(w)
    /\ UNCHANGED <<owned, tagged, approved>>

-----------------------------------------------------------------------------
(* Retry.                                                                   *)

\* Bound: the code has no limit, an operator can force any number of retries.
AttemptsLeft(row) == row.attempt < MaxAttempt

\* Mutant: the attempt of the successor is not counted.
SuccessorSameAttempt(read, s) ==
    [NewRow(s, TRUE, read.planned, read.recs) EXCEPT
        !.lineage = read.lineage, !.attempt = read.attempt, !.bought = read.bought]

\* Mutant: the attempts of the chain are added up instead of counted: 0, 1, 3.
SuccessorSumsAttempts(read, s) ==
    [NewRow(s, TRUE, read.planned, read.recs) EXCEPT
        !.lineage = read.lineage, !.attempt = 2 * read.attempt + 1, !.bought = read.bought]

\* The row persistRetryExecution builds from the failed row it read.
SuccessorOf(read, s) ==
    [NewRow(s, TRUE, read.planned, read.recs) EXCEPT
        !.lineage = read.lineage, !.attempt = read.attempt + 1, !.bought = read.bought]

\* loadAndValidateRetryRequest: every gate is decided on this read.
RetryRead(w, e) ==
    /\ Idle(w)
    /\ rows[e].status = "failed"
    /\ rows[e].retry = NoExec
    /\ NoDuplicateRisk(rows[e])
    /\ AttemptsLeft(rows[e])
    /\ Become(w, Busy("retry", e, rows[e], FALSE))
    /\ UNCHANGED <<rows, aged, owned, tagged, approved>>

\* persistRetryExecution: the successor row and the predecessor's link, in one
\* transaction.  The predecessor is saved as it was read.
PersistRetry(w, s) ==
    LET e == work[w].exec
        read == work[w].snap
        successor == SuccessorOf(read, s)
    IN
    /\ At(w, "retry")
    /\ rows[s].status = "absent"
    /\ rows' = [rows EXCEPT ![s] = successor,
                            ![e] = [read EXCEPT !.retry = s,
                                                !.lineage = rows[e].lineage,
                                                !.attempt = rows[e].attempt,
                                                !.planned = rows[e].planned]]
    /\ aged' = aged \ {e, s}
    /\ Become(w, Busy("email", s, successor, FALSE))
    /\ UNCHANGED <<owned, tagged, approved>>

-----------------------------------------------------------------------------
(* Time and failure.                                                        *)

\* The sweep thresholds are minutes while a purchase Lambda is killed after 60
\* seconds, so a row ages only when nobody is executing it any more.
Age(e) ==
    /\ rows[e].status \in {"approved", "running"}
    /\ \A w \in Workers : work[w].exec = e => work[w].pc \notin {"stampApproved", "purchase"}
    /\ e \notin aged
    /\ aged' = aged \cup {e}
    /\ UNCHANGED <<rows, work, owned, tagged, approved>>

\* A Lambda timeout, a killed container, or a store error nobody handles.
Crash(w) ==
    /\ ~Idle(w)
    /\ Rest(w)
    /\ UNCHANGED <<rows, aged, owned, tagged, approved>>

-----------------------------------------------------------------------------
(* A retry made by a release that had no re-drive gate may have left its    *)
(* successor waiting for approval: "left" are the pairs that exist.         *)

PairOf(e) == CHOOSE p \in Armed : e \in {p[1], p[2]}

InitialRow(left, e) ==
    IF \E p \in left : e = p[1]
    THEN [NewRow(e, TRUE, FALSE, Recs) EXCEPT !.status = "failed", !.retry = PairOf(e)[2]]
    ELSE IF \E p \in left : e = p[2]
    THEN [NewRow(e, TRUE, FALSE, Recs) EXCEPT !.lineage = PairOf(e)[1], !.attempt = 1]
    ELSE NoRow

\* Only a row that failed after its approval can have bought anything.
InitialOwned(left) ==
    {f \in [Execs -> [Recs -> {0, 1}]] :
        \A e \in Execs, r \in Recs : f[e][r] = 1 => \E p \in left : e = p[1]}

InitLeft(left) ==
    /\ rows = [e \in Execs |-> InitialRow(left, e)]
    /\ aged = {}
    /\ work = [w \in Workers |-> Resting]
    /\ owned \in InitialOwned(left)
    /\ tagged = {}
    /\ approved = {p[1] : p \in left}

Init == \E left \in SUBSET Armed : InitLeft(left)

\* Steps of a worker that has work in hand.
Step(w) ==
    \/ ApprovalEmailFailed(w) \/ ApprovalEmailSent(w)
    \/ DirectStamp(w) \/ DirectApprove(w)
    \/ StampApproved(w) \/ StampSchedule(w)
    \/ ClaimAndExecute(w) \/ Recover(w) \/ Reap(w) \/ StampError(w)
    \/ \E r \in Recs : \/ BuyDirect(w, r) \/ LookupTag(w, r)
                       \/ BuyUntagged(w, r) \/ TagBought(w, r)
                       \/ BuyRejected(w, r)
    \/ Finalize(w) \/ AdvanceRamp(w) \/ StampRefusal(w)
    \/ RotateRead(w) \/ RotateSave(w)
    \/ \E s \in Execs : PersistRetry(w, s)

\* Steps by which an idle worker takes a row up.
Start(w, e) ==
    \/ Submit(w, e)
    \/ \E token \in BOOLEAN : Approve(w, e, token)
    \/ ScheduleApproved(w, e) \/ FireDue(w, e) \/ CancelByToken(w, e)
    \/ ClaimRead(w, e) \/ RecoverSelect(w, e) \/ ReapSelect(w, e)
    \/ RetryRead(w, e)

\* Steps of a request handler that is one statement long.
Button(e) ==
    \/ CreatePlanned(e) \/ CancelBySession(e) \/ RevokeScheduled(e)
    \/ RequestRevocation(e) \/ ExpireStale(e) \/ PausePlanned(e)
    \/ ResumePlanned(e) \/ RunPlanned(e) \/ DeletePlanned(e)

Next ==
    \/ \E w \in Workers : Step(w) \/ Crash(w)
    \/ \E w \in Workers, e \in Execs : Start(w, e)
    \/ \E e \in Execs : Button(e) \/ Age(e)

Spec == Init /\ [][Next]_vars
=============================================================================

------------------------------ MODULE Submissions ------------------------------
(* Purchase requests submitted from the recommendations page: the duplicate     *)
(* check and the insert of a request run in one READ COMMITTED transaction that *)
(* locks the pending rows it reads, and each request suppresses the capacity it *)
(* asks for in the recommendations shown, for a grace period.                   *)
EXTENDS Naturals, Sequences, FiniteSets, FiniteSetsExt

CONSTANTS
    SubUsers,       \* creators of requests
    SubRecs,        \* recommendations, one 6-tuple each
    SubCallers,     \* concurrent executePurchase requests
    SubMaxRows,     \* bound on executions
    SubGrace,       \* grace period of a suppression, in ticks of the clock
    SubLastTick     \* bound on the clock; one tick outlasts the submit window

ASSUME SubAssumption == SubMaxRows \in Nat /\ SubGrace \in Nat /\ SubLastTick \in Nat

VARIABLES subNow, subRow, subSup, subTx
subVars == <<subNow, subRow, subSup, subTx>>

SubRows == DOMAIN subRow
SubIdle == [stage |-> "idle"]
SubLive == {"pending", "completed"}

SubInit ==
    /\ subNow = 0
    /\ subRow = <<>>
    /\ subSup = {}
    /\ subTx = [c \in SubCallers |-> SubIdle]

\* newPendingExecution; "seen" records how many rows the request could see.
SubPendingRequest(user, rec, seen) ==
    [user |-> user, rec |-> rec, at |-> subNow, status |-> "pending", seen |-> seen,
     retried |-> FALSE]

\* buildSuppressions: a grace period of zero writes none.
SubSuppressions(i, rec) ==
    IF SubGrace = 0 THEN {} ELSE {[exec |-> i, rec |-> rec, expires |-> subNow + SubGrace]}

SubPendingRows == {i \in SubRows : subRow[i].status = "pending"}

\* Mutant: the duplicate must be older than the window.
SubDuplicateOutside(i, user, rec) ==
    /\ subRow[i].status = "pending"
    /\ subRow[i].user = user /\ subRow[i].rec = rec
    /\ subRow[i].at < subNow

\* matchDuplicateInList: same creator, same fingerprint, inside the window.
SubDuplicate(i, user, rec) ==
    /\ subRow[i].status = "pending"
    /\ subRow[i].user = user /\ subRow[i].rec = rec
    /\ subRow[i].at >= subNow

------------------------------------------------------------------------------
\* GetPendingExecutionsTx: the statement's snapshot; rows another transaction
\* has locked are waited for, and rows inserted meanwhile are not in it.
SubRead(c, user, rec) ==
    /\ subTx[c] = SubIdle
    /\ subTx' = [subTx EXCEPT ![c] =
          [stage |-> "read", user |-> user, rec |-> rec, rows |-> SubPendingRows, seen |-> Len(subRow)]]
    /\ UNCHANGED <<subNow, subRow, subSup>>

SubLocked(c) == \E d \in SubCallers \ {c} :
    subTx[d].stage = "insert" /\ subTx[d].rows \cap subTx[c].rows # {}

\* The locks are granted: a duplicate among the rows read ends the request.
SubCheck(c) ==
    /\ subTx[c].stage = "read" /\ ~SubLocked(c)
    /\ subTx' = [subTx EXCEPT ![c] =
          IF \E i \in subTx[c].rows : SubDuplicate(i, subTx[c].user, subTx[c].rec)
          THEN SubIdle ELSE [@ EXCEPT !.stage = "insert"]]
    /\ UNCHANGED <<subNow, subRow, subSup>>

\* The execution and its suppressions are inserted and the transaction commits.
SubInsert(c) ==
    /\ subTx[c].stage = "insert" /\ Len(subRow) < SubMaxRows
    /\ subRow' = Append(subRow, SubPendingRequest(subTx[c].user, subTx[c].rec, subTx[c].seen))
    /\ subSup' = subSup \cup SubSuppressions(Len(subRow) + 1, subTx[c].rec)
    /\ subTx' = [subTx EXCEPT ![c] = SubIdle]
    /\ UNCHANGED subNow

SubRowLocked(i) == \E c \in SubCallers : subTx[c].stage = "insert" /\ i \in subTx[c].rows

SubLeave(i, status) ==
    /\ subRow[i].status = "pending" /\ ~SubRowLocked(i)
    /\ subRow' = [subRow EXCEPT ![i].status = status]
    /\ UNCHANGED <<subNow, subTx>>

\* The email could not be sent, the approval expired, or the purchase ended.
SubEnd(i, status) == SubLeave(i, status) /\ UNCHANGED subSup

\* Mutant: the suppressions of the recommendation go, whoever asked for it.
SubCancelsAll(i) ==
    /\ SubLeave(i, "canceled")
    /\ subSup' = {s \in subSup : s.rec # subRow[i].rec}

\* CancelExecutionAtomic and, in its transaction, the suppressions of the row.
SubCancel(i) ==
    /\ SubLeave(i, "canceled")
    /\ subSup' = {s \in subSup : s.exec # i}

\* deletePlannedPurchase: the status alone is changed.
SubCancelPlanned(i) == SubLeave(i, "canceled") /\ UNCHANGED subSup

\* persistRetryExecution: the successor and its own suppressions.
SubRetry(i) ==
    /\ subRow[i].status = "failed" /\ ~subRow[i].retried /\ Len(subRow) < SubMaxRows
    /\ subRow' = Append([subRow EXCEPT ![i].retried = TRUE],
                        SubPendingRequest(subRow[i].user, subRow[i].rec, Len(subRow)))
    /\ subSup' = subSup \cup SubSuppressions(Len(subRow) + 1, subRow[i].rec)
    /\ UNCHANGED <<subNow, subTx>>

SubTick ==
    /\ subNow < SubLastTick /\ subNow' = subNow + 1
    /\ UNCHANGED <<subRow, subSup, subTx>>

SubNext ==
    \/ SubTick
    \/ \E c \in SubCallers :
          \/ \E user \in SubUsers, rec \in SubRecs : SubRead(c, user, rec)
          \/ SubCheck(c) \/ SubInsert(c)
    \/ \E i \in SubRows :
          \/ SubCancel(i) \/ SubCancelPlanned(i) \/ SubRetry(i)
          \/ \E status \in {"completed", "failed", "expired"} : SubEnd(i, status)

SubSpec == SubInit /\ [][SubNext]_subVars

------------------------------------------------------------------------------
\* ListActiveSuppressions and applySuppressions: the count a recommendation of
\* "count" instances is shown with, each request asking for one.
SubSuppressed(rec) == Cardinality({s \in subSup : s.rec = rec /\ s.expires > subNow})
SubShown(rec, count) == IF count > SubSuppressed(rec) THEN count - SubSuppressed(rec) ELSE 0

\* Capacity that is being bought or was just bought is not offered again: a
\* recommendation is shown with the requests of the last grace period that are
\* pending or completed taken off, whichever other requests for the same capacity
\* were canceled, failed or retried.
SubLiveHidden == \A rec \in SubRecs :
    SubShown(rec, SubMaxRows) + Cardinality({i \in SubRows : subRow[i].rec = rec
        /\ subRow[i].status \in SubLive /\ subRow[i].at + SubGrace > subNow}) <= SubMaxRows

\* Two pending requests of one user for the same thing in one window come only
\* from overlapping transactions or from a retry: a request that starts after the
\* first one committed is always collapsed onto it.
SubSequentialOnce == \A i, j \in SubRows :
    (i < j /\ i <= subRow[j].seen /\ ~ (\E k \in SubRows : subRow[k].retried)
        /\ subRow[i].user = subRow[j].user /\ subRow[i].rec = subRow[j].rec
        /\ subRow[i].at = subRow[j].at)
    => "pending" \notin {subRow[i].status} \cap {subRow[j].status}

\* What was submitted is not offered again, nor taken twice.
SubSound == SubLiveHidden /\ SubSequentialOnce

\* An identical submit never gives a second approvable request within the window:
\* the check and the insert are one transaction (persistExecutionAndSuppressions).
SubmitOnce == \A i, j \in SubRows :
    (i # j /\ subRow[i].user = subRow[j].user /\ subRow[i].rec = subRow[j].rec
        /\ subRow[i].at = subRow[j].at /\ ~ (\E k \in SubRows : subRow[k].retried))
    => {subRow[i].status, subRow[j].status} # {"pending"}
=============================================================================

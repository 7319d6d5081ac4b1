-------------------------------- MODULE FanOut --------------------------------
(* A plan execution that is bought once per account of the plan: the root row  *)
(* fans out, every account gets a row of its own when its purchase ends, and   *)
(* failed rows are retried one by one. The provider honours the client token   *)
(* derived from the lineage key, a sequence of account suffixes here: <<>> for *)
(* a root row, <<a>> for account a. One recommendation is bought per account.  *)
EXTENDS Naturals, Sequences, FiniteSets, SequencesExt

CONSTANTS
    FanAccounts,    \* cloud accounts
    FanMaxRows,     \* bound on the rows of the lineage
    NoScope         \* cloud_account_id is NULL

ASSUME FanAssumption ==
    /\ IsFiniteSet(FanAccounts) /\ NoScope \notin FanAccounts
    /\ FanMaxRows \in Nat /\ Cardinality(FanAccounts) < FanMaxRows

VARIABLES
    fanPlan,        \* plan_accounts of the plan
    fanRow,         \* the rows of the lineage, in the order of insertion
    fanWork,        \* the stage of each account of a drive in progress
    fanToken,       \* lineage keys the provider has seen
    fanMade         \* commitments made in each account
fanVars == <<fanPlan, fanRow, fanWork, fanToken, fanMade>>

FanRows == DOMAIN fanRow
FanIdle == [a \in {} |-> "queued"]
FanEnded == {"bought", "lost", "refused", "skipped"}

\* "by" records the row whose drive inserted this one, 0 for none.
FanRow(key, scope, status, by) ==
    [key |-> key, scope |-> scope, status |-> status, retried |-> FALSE, reaped |-> FALSE,
     by |-> by]

\* A root row, and for some accounts a row of an earlier retry that carried the
\* key of its account but not its scope.
FanInit == \E legacy \in SUBSET FanAccounts :
    /\ fanPlan \in (SUBSET FanAccounts) \ {{}}
    /\ fanRow = <<FanRow(<<>>, NoScope, "pending", 0)>> \o
          SetToSeq({FanRow(<<a>>, NoScope, "pending", 0) : a \in legacy})
    /\ fanToken = {}
    /\ fanMade = [a \in FanAccounts |-> 0]
    /\ fanWork = [i \in 1 .. FanMaxRows |-> FanIdle]

------------------------------------------------------------------------------
\* SetPlanAccounts: the accounts are replaced in one transaction.
FanSetAccounts ==
    /\ fanPlan' \in (SUBSET FanAccounts) \ {{}}
    /\ UNCHANGED <<fanRow, fanWork, fanToken, fanMade>>

\* reattachAccountScope: the account a scopeless row was for, NoScope for a root
\* row; a suffix no account of the plan has is refused.
Reattached(row) ==
    IF row.scope # NoScope THEN {row.scope}
    ELSE IF row.key = <<>> THEN {NoScope}
    ELSE {Last(row.key)} \cap fanPlan

\* claimAndExecute wins the row and executePurchase reads the plan's accounts.
FanDrive(i) ==
    /\ fanRow[i].status = "pending"
    /\ \/ /\ Reattached(fanRow[i]) = {}
          /\ fanRow' = [fanRow EXCEPT ![i].status = "failed"]
          /\ UNCHANGED fanWork
       \/ \E scope \in Reattached(fanRow[i]) :
          /\ fanRow' = [fanRow EXCEPT ![i].status = "running", ![i].scope = scope]
          /\ fanWork' = [fanWork EXCEPT ![i] =
                [a \in IF scope = NoScope THEN fanPlan ELSE {scope} |-> "queued"]]
    /\ UNCHANGED <<fanPlan, fanToken, fanMade>>

\* executeForAccount gives every account of a fan-out a key of its own.
FanAccountKey(i, a) == IF fanRow[i].scope = NoScope THEN Append(fanRow[i].key, a) ELSE fanRow[i].key

\* The purchase call: a new token makes a commitment, a known one returns it.
\* The answer may be lost, which the caller takes for a failure.
FanBuy(i, a) == \E reply \in {"bought", "lost"} :
    /\ a \in DOMAIN fanWork[i] /\ fanWork[i][a] = "queued"
    /\ fanToken' = fanToken \cup {FanAccountKey(i, a)}
    /\ fanMade' = IF FanAccountKey(i, a) \in fanToken THEN fanMade
                                                   ELSE [fanMade EXCEPT ![a] = @ + 1]
    /\ fanWork' = [fanWork EXCEPT ![i][a] = reply]
    /\ UNCHANGED <<fanPlan, fanRow>>

\* No purchase: credentials or the provider refuse, or the context ends before
\* the account gets a slot.
FanNoBuy(i, a) == \E why \in {"refused", "skipped"} :
    /\ a \in DOMAIN fanWork[i] /\ fanWork[i][a] = "queued"
    /\ fanWork' = [fanWork EXCEPT ![i][a] = why]
    /\ UNCHANGED <<fanPlan, fanRow, fanToken, fanMade>>

\* executeForAccount saves the row of its account; a skipped account has none,
\* and nothing is saved for the single account of a scoped row.
FanSaveAccount(i, a) ==
    /\ fanRow[i].scope = NoScope /\ Len(fanRow) < FanMaxRows
    /\ a \in DOMAIN fanWork[i] /\ fanWork[i][a] \in {"bought", "lost", "refused"}
    /\ fanRow' = Append(fanRow, FanRow(FanAccountKey(i, a), a,
                     IF fanWork[i][a] = "bought" THEN "completed" ELSE "failed", i))
    /\ fanWork' = [fanWork EXCEPT ![i][a] = IF @ = "bought" THEN "committed" ELSE "errored"]
    /\ UNCHANGED <<fanPlan, fanToken, fanMade>>

\* Mutant: a drive without a single purchase fails, any other completes.
FanAnyCommits(work) ==
    IF \E a \in DOMAIN work : work[a] \in {"bought", "committed"} THEN "completed" ELSE "failed"

\* executeMultiAccount and finalizeExecution: the outcome of the drive.
FanOutcome(work) ==
    LET committed == \E a \in DOMAIN work : work[a] \in {"bought", "committed"}
        errors == \E a \in DOMAIN work : work[a] \notin {"bought", "committed"}
    IN IF ~errors THEN "completed"
       ELSE IF committed THEN "partially_completed"
       ELSE "failed"

FanFinalize(i) ==
    /\ fanRow[i].status = "running" /\ fanWork[i] # FanIdle
    /\ \A a \in DOMAIN fanWork[i] : fanWork[i][a] \in
          IF fanRow[i].scope = NoScope THEN {"committed", "errored", "skipped"} ELSE FanEnded
    /\ fanRow' = [fanRow EXCEPT ![i].status = FanOutcome(fanWork[i])]
    /\ fanWork' = [fanWork EXCEPT ![i] = FanIdle]
    /\ UNCHANGED <<fanPlan, fanToken, fanMade>>

\* The process dies; the row stays running until the reaper fails it.
FanCrash(i) ==
    /\ fanWork[i] # FanIdle
    /\ fanWork' = [fanWork EXCEPT ![i] = FanIdle]
    /\ UNCHANGED <<fanPlan, fanRow, fanToken, fanMade>>

FanReap(i) ==
    /\ fanRow[i].status = "running" /\ fanWork[i] = FanIdle
    /\ fanRow' = [fanRow EXCEPT ![i].status = "failed", ![i].reaped = TRUE]
    /\ UNCHANGED <<fanPlan, fanWork, fanToken, fanMade>>

\* Mutant: the successor starts a lineage of its own.
FanRetryNewKey(i) ==
    /\ fanRow[i].status = "failed" /\ ~fanRow[i].retried /\ Len(fanRow) < FanMaxRows
    /\ fanRow' = Append([fanRow EXCEPT ![i].retried = TRUE],
                        FanRow(<<>>, fanRow[i].scope, "pending", 0))
    /\ UNCHANGED <<fanPlan, fanWork, fanToken, fanMade>>

\* retryPurchase: one successor per failed row, with its key and its scope.
FanRetry(i) ==
    /\ fanRow[i].status = "failed" /\ ~fanRow[i].retried /\ Len(fanRow) < FanMaxRows
    /\ fanRow' = Append([fanRow EXCEPT ![i].retried = TRUE],
                        FanRow(fanRow[i].key, fanRow[i].scope, "pending", 0))
    /\ UNCHANGED <<fanPlan, fanWork, fanToken, fanMade>>

FanNext ==
    \/ FanSetAccounts
    \/ \E i \in FanRows :
          \/ FanDrive(i) \/ FanFinalize(i) \/ FanCrash(i) \/ FanReap(i) \/ FanRetry(i)
          \/ \E a \in FanAccounts : FanBuy(i, a) \/ FanNoBuy(i, a) \/ FanSaveAccount(i, a)

FanSpec == FanInit /\ [][FanNext]_fanVars

------------------------------------------------------------------------------
\* An account of the plan is bought for once, whatever combination of crashed
\* drives, lost answers, retries of the root and retries of its account rows the
\* lineage goes through, and however the plan's accounts change in between.
FanBuysOnce == \A a \in FanAccounts : fanMade[a] <= 1

\* The outcome saved on a root row agrees with the rows its drive left: completed
\* when every account of the drive has a completed row, failed only when none
\* has, unless the process died and the reaper failed the row.
FanOutcomeHonest == \A i \in FanRows :
    LET made == {fanRow[j].status : j \in {k \in FanRows : fanRow[k].by = i}}
    IN /\ (fanRow[i].status = "completed" /\ fanRow[i].scope = NoScope) => made = {"completed"}
       /\ (fanRow[i].status = "failed" /\ ~fanRow[i].reaped) => "completed" \notin made
       /\ fanRow[i].status = "partially_completed" => "completed" \in made

\* A fan-out killed, re-driven and retried keeps its books: nothing is bought twice
\* and the root row says what its accounts got.
FanKeepsBooks == FanBuysOnce /\ FanOutcomeHonest
=============================================================================

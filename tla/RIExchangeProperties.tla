------------------------ MODULE RIExchangeProperties -------------------------
(***************************************************************************)
(* What the exchange ledger and its daily cap guarantee, and what comments *)
(* of the repository say of them that does not hold.                       *)
(***************************************************************************)
EXTENDS RIExchange

\* Every variable keeps its type.
TypeOK ==
    /\ ledger \in [Rows -> Row]
    /\ today \in 0..LastDay
    /\ proc \in [Procs -> Proc]
    /\ paid \in [RIs -> [amount : Nat, row : Rows \cup {None}, made : BOOLEAN]]

CompletedOn(d) == {r \in Rows : ledger[r].status = "completed" /\ ledger[r].day = d}

\* The payments completed on a day stay within the daily cap, whatever the
\* re-quotes, lost replies, ledger failures and crashes of one executor, and
\* whatever the interleaving of several that find prices as they were quoted
\* (checkDailyCap, chooseEffectiveCap, GetRIExchangeDailySpend).
LedgerWithinCap ==
    \A d \in 0..LastDay :
        MapThenSumSet(LAMBDA r : ledger[r].due, CompletedOn(d)) <= DailyCap

\* A row that was cancelled, rejected or replaced by a newer run has not been
\* executed, and money moved for a row is on the ledger: only a lost reply
\* leaves an executed row as failed (approveRIExchange, auto.go:163-167).
PaidRowOnLedger ==
    \A ri \in RIs : paid[ri].row # None =>
        ledger[paid[ri].row].status \in
            {"processing", "completed"} \cup (IF LostReplies THEN {"failed"} ELSE {})

-----------------------------------------------------------------------------
(* Fairness.  A request or a run is finished or dies; the task is scheduled *)
(* every few hours, and its cancellation does not fail at every run.        *)

Fairness ==
    /\ \A p \in Procs : WF_vars(Step(p) \/ Crash(p))
    /\ \A p \in Reshape : SF_vars(StartRun(p, TRUE))

FairSpec == Spec /\ Fairness

\* A proposed exchange does not wait for ever: it is approved, rejected or
\* cancelled by a later run.
PendingLeaves ==
    \A r \in Rows : ledger[r].status = "pending" ~> ledger[r].status # "pending"

-----------------------------------------------------------------------------
(* What the repository says and the code does not keep.                     *)

\* "prevents a TOCTOU race where two concurrent approvals both read the same
\* daily-spend total [...] and together exceed the daily cap"
\* (store_postgres.go:2841): concurrent approvals stay within the cap, at any price AWS
\* re-quotes and at any time of the day.
ConcurrentApprovalsWithinCap == LedgerWithinCap

\* "Returns an empty string if within cap" (handler_ri_exchange.go:2486): an
\* approval is refused only when the other payments of the day leave no room.
RefusedOnlyOverCap ==
    [][\A p \in Approvers : RefuseOverCap(p) =>
         LET others == {r \in Rows \ {proc[p].row} :
                            ledger[r].status \in Spending /\ ledger[r].day = today}
         IN  MapThenSumSet(LAMBDA r : ledger[r].due, others) + proc[p].due > DailyCap]_vars
=============================================================================

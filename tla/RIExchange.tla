------------------------------ MODULE RIExchange -----------------------------
(***************************************************************************)
(* Exchanges of convertible reserved instances and their daily spending    *)
(* cap.  The scheduled reshape task analyses the account's RIs and either  *)
(* proposes exchanges (manual mode: a pending ri_exchange_history row for  *)
(* each) or executes them (auto mode); approvers execute pending rows.     *)
(*                                                                         *)
(* AWS has no way to reserve money: an executor reads what the ledger says *)
(* has been spent today, quotes, re-quotes, accepts, and writes the ledger *)
(* afterwards.  Each action is the code between two calls that another     *)
(* process can observe, so the cap is checked at one instant, the money    *)
(* moves at another and the ledger learns of it at a third.                *)
(***************************************************************************)
EXTENDS Naturals, FiniteSets, FiniteSetsExt

CONSTANTS
    Rows,            \* ids of the rows the ledger can hold
    RIs,             \* convertible reserved instances of the account
    Approvers,       \* processes serving approve requests
    Reshape,         \* the scheduled task; {} where it is disabled
    Modes,           \* modes the task is configured with, one per start
    Prices,          \* payments AWS may quote
    PerExchangeCap,  \* RIExchangeMaxPerExchangeUSD
    DailyCap,        \* RIExchangeMaxDailyUSD
    Drift,           \* a re-quote may differ from the quote
    LostReplies,     \* the reply to an accepted exchange may be lost
    LastDay,         \* bound on the days that pass
    None

ASSUME ExchangeAssumption ==
    /\ Approvers \cap Reshape = {}
    /\ Modes \subseteq {"manual", "auto"}
    /\ Prices \subseteq Nat
    /\ {PerExchangeCap, DailyCap} \subseteq Nat \ {0}
    /\ {Drift, LostReplies} \subseteq BOOLEAN
    /\ LastDay \in Nat
    /\ None \notin Rows \cup RIs

VARIABLES
    ledger,   \* the ri_exchange_history table
    today,
    proc,     \* what each process is doing
    paid      \* external: the exchange AWS made of each RI

vars == <<ledger, today, proc, paid>>

Procs == Approvers \cup Reshape

-----------------------------------------------------------------------------
(* The ledger.                                                              *)

Statuses == {"absent", "pending", "processing", "completed", "failed", "canceled"}

\* day: that of completed_at, or of updated_at while the row is not completed.
Row == [status : Statuses, ri : RIs \cup {None}, due : Nat, day : 0..LastDay]

NoRow == [status |-> "absent", ri |-> None, due |-> 0, day |-> 0]

NoExchange == [amount |-> 0, row |-> None, made |-> FALSE]
Exchanged(ri) == paid[ri].made

\* Mutant: rows that are being executed are not counted.
SpendingCompletedOnly == {"completed"}

Spending == {"completed", "processing"}

\* GetRIExchangeDailySpend.
DailySpend(d) ==
    MapThenSumSet(LAMBDA r : ledger[r].due,
                  {r \in Rows : ledger[r].status \in Spending /\ ledger[r].day = d})

SetRow(r, row) == ledger' = [ledger EXCEPT ![r] = row]

\* SaveRIExchangeRecord: an insert.
InsertRow(r, status, ri, due) ==
    /\ ledger[r].status = "absent"
    /\ SetRow(r, [status |-> status, ri |-> ri, due |-> due, day |-> today])

\* TransitionRIExchangeStatus.  A pending row expires 24 hours after it was made.
CanLeavePending(r) == ledger[r].status = "pending" /\ today <= ledger[r].day + 1

-----------------------------------------------------------------------------
(* Processes.                                                               *)

\* recs: the task is between two recommendations.  check: the daily spend is
\* about to be read.  execute, record, fail: ExecuteExchange is about to be
\* called, has succeeded, has failed or was refused.
Proc == [pc : {"idle", "recs", "check", "execute", "record", "fail"},
         mode : {"manual", "auto"}, todo : SUBSET RIs,
         row : Rows \cup {None}, ri : RIs \cup {None},
         due : Nat,     \* the payment quoted, then the one accepted
         cap : Nat]     \* MaxPaymentDueUSD

Resting == [pc |-> "idle", mode |-> "manual", todo |-> {}, row |-> None,
            ri |-> None, due |-> 0, cap |-> 0]

At(p, pc) == proc[p].pc = pc
Become(p, job) == proc' = [proc EXCEPT ![p] = job]
Goto(p, pc) == proc' = [proc EXCEPT ![p].pc = pc]
Rest(p) == Become(p, Resting)

-----------------------------------------------------------------------------
(* The scheduled task.  An advisory lock keeps it from overlapping itself.  *)

\* Mutant: a row under execution is cancelled too.
CancelableInFlight == {"pending", "processing"}

\* Mutant: the rows of the other origin, the ladder, which proposes none.
CancelableOtherOrigin == {}

Cancelable == {"pending"}

\* RunAutoExchange: cancel what earlier runs proposed (a failure is logged and
\* the run goes on), then analyse the RIs.
CancelPending ==
    ledger' = [r \in Rows |-> IF ledger[r].status \in Cancelable
                              THEN [ledger[r] EXCEPT !.status = "canceled", !.day = today]
                              ELSE ledger[r]]

StartRun(p, canceling) ==
    /\ At(p, "idle")
    /\ IF canceling THEN CancelPending ELSE UNCHANGED ledger
    /\ \E mode \in Modes, todo \in SUBSET {ri \in RIs : ~Exchanged(ri)} :
         Become(p, [Resting EXCEPT !.pc = "recs", !.mode = mode, !.todo = todo])
    /\ UNCHANGED <<today, paid>>

\* processRecommendation: one recommendation is quoted, within the cap of one
\* exchange; manual mode proposes it (a failed insert is reported), auto mode
\* goes on to execute it.
TakeUp(p, ri) ==
    LET rest == proc[p].todo \ {ri} IN
    /\ At(p, "recs")
    /\ ri \in proc[p].todo
    /\ ~Exchanged(ri)
    /\ \E due \in {q \in Prices : q <= PerExchangeCap} :
         IF proc[p].mode = "manual"
         THEN /\ \/ \E r \in Rows : InsertRow(r, "pending", ri, due)
                 \/ UNCHANGED ledger
              /\ Become(p, [proc[p] EXCEPT !.todo = rest])
         ELSE /\ Become(p, [proc[p] EXCEPT !.pc = "check", !.todo = rest,
                                           !.ri = ri, !.due = due])
              /\ UNCHANGED ledger
    /\ UNCHANGED <<today, paid>>

\* The recommendations that are left are skipped: no target, no offering, no
\* quote, or a quote above the cap of one exchange.
EndRun(p) ==
    /\ At(p, "recs")
    /\ Rest(p)
    /\ UNCHANGED <<ledger, today, paid>>

-----------------------------------------------------------------------------
(* Approvers.                                                               *)

\* approveRIExchange: the row is claimed, pending -> processing.
Approve(p, r) ==
    /\ At(p, "idle")
    /\ CanLeavePending(r)
    /\ SetRow(r, [ledger[r] EXCEPT !.status = "processing", !.day = today])
    /\ Become(p, [Resting EXCEPT !.pc = "check", !.row = r, !.ri = ledger[r].ri,
                                 !.due = ledger[r].due])
    /\ UNCHANGED <<today, paid>>

\* rejectRIExchange.
Reject(r) ==
    /\ CanLeavePending(r)
    /\ SetRow(r, [ledger[r] EXCEPT !.status = "canceled", !.day = today])
    /\ UNCHANGED <<today, proc, paid>>

-----------------------------------------------------------------------------
(* Executing an exchange, for an approver or for the task.                  *)

Smaller(x, y) == IF x < y THEN x ELSE y

\* Mutant: the re-quote is bounded by the cap of one exchange only.
PerExchangeHeadroom(spent) == PerExchangeCap

\* chooseEffectiveCap, handlerChooseEffectiveCap.
Headroom(spent) == Smaller(DailyCap - spent, PerExchangeCap)

\* Mutant: what the day has already cost is left out.
WithinCapAlone(due, spent) == due <= DailyCap

\* checkDailyCap.
WithinCap(due, spent) == spent + due <= DailyCap

\* The spend is read and the cap checked: processAutoExchange, executeApprovedExchange.
Check(p) ==
    LET spent == DailySpend(today) IN
    /\ At(p, "check")
    /\ WithinCap(proc[p].due, spent)
    /\ Become(p, [proc[p] EXCEPT !.pc = "execute", !.cap = Headroom(spent)])
    /\ UNCHANGED <<ledger, today, paid>>

RefuseOverCap(p) ==
    /\ At(p, "check")
    /\ ~WithinCap(proc[p].due, DailySpend(today))
    /\ Goto(p, "fail")
    /\ UNCHANGED <<ledger, today, paid>>

\* The spend, the configuration or the region of the row cannot be read.
CheckFails(p) ==
    /\ At(p, "check")
    /\ Goto(p, "fail")
    /\ UNCHANGED <<ledger, today, paid>>

Requotes(due) == IF Drift THEN Prices ELSE {due}

\* executeWithAPI: the last quote is within MaxPaymentDueUSD and AWS accepts it.
\* AWS replaces the source RI, so it exchanges it once.
Accept(p) ==
    LET ri == proc[p].ri IN
    /\ At(p, "execute")
    /\ ~Exchanged(ri)
    /\ \E amount \in Requotes(proc[p].due) :
         /\ amount <= proc[p].cap
         /\ paid' = [paid EXCEPT ![ri] = [amount |-> amount, row |-> proc[p].row,
                                          made |-> TRUE]]
         /\ \/ Become(p, [proc[p] EXCEPT !.pc = "record", !.due = amount])
            \/ LostReplies /\ Goto(p, "fail")
    /\ UNCHANGED <<ledger, today>>

\* A quote is refused or exceeds the cap, or the RI is gone.
ExchangeFails(p) ==
    /\ At(p, "execute")
    /\ Goto(p, "fail")
    /\ UNCHANGED <<ledger, today, paid>>

NextRec(p) == Become(p, [Resting EXCEPT !.pc = "recs", !.mode = proc[p].mode,
                                        !.todo = proc[p].todo])

\* retryCompleteWithPayment: the row the approver claimed is completed with the
\* amount AWS accepted.  When every attempt fails it stays processing.
RecordApproved(p) ==
    LET r == proc[p].row IN
    /\ At(p, "record")
    /\ p \in Approvers
    /\ \/ SetRow(r, [ledger[r] EXCEPT !.status = "completed", !.due = proc[p].due,
                                      !.day = today])
       \/ UNCHANGED ledger
    /\ Rest(p)
    /\ UNCHANGED <<today, paid>>

\* failExchange, whose own failure is logged.
FailApproved(p) ==
    LET r == proc[p].row IN
    /\ At(p, "fail")
    /\ p \in Approvers
    /\ \/ SetRow(r, [ledger[r] EXCEPT !.status = "failed", !.day = today])
       \/ UNCHANGED ledger
    /\ Rest(p)
    /\ UNCHANGED <<today, paid>>

\* saveLedgerRecord: a completed row is inserted, or the run halts.
RecordAuto(p) ==
    /\ At(p, "record")
    /\ p \in Reshape
    /\ \/ /\ \E r \in Rows : InsertRow(r, "completed", proc[p].ri, proc[p].due)
          /\ NextRec(p)
       \/ /\ UNCHANGED ledger
          /\ Rest(p)
    /\ UNCHANGED <<today, paid>>

\* saveFailedRecord, whose own failure is logged.
FailAuto(p) ==
    /\ At(p, "fail")
    /\ p \in Reshape
    /\ \/ \E r \in Rows : InsertRow(r, "failed", proc[p].ri, proc[p].due)
       \/ UNCHANGED ledger
    /\ NextRec(p)
    /\ UNCHANGED <<today, paid>>

-----------------------------------------------------------------------------
(* Time and failure.                                                        *)

Midnight ==
    /\ today < LastDay
    /\ today' = today + 1
    /\ UNCHANGED <<ledger, proc, paid>>

Crash(p) ==
    /\ ~At(p, "idle")
    /\ Rest(p)
    /\ UNCHANGED <<ledger, today, paid>>

Init ==
    /\ ledger = [r \in Rows |-> NoRow]
    /\ today = 0
    /\ proc = [p \in Procs |-> Resting]
    /\ paid = [ri \in RIs |-> NoExchange]

\* Steps of a process that is at work.
Step(p) ==
    \/ \E ri \in RIs : TakeUp(p, ri)
    \/ EndRun(p)
    \/ Check(p) \/ RefuseOverCap(p) \/ CheckFails(p)
    \/ Accept(p) \/ ExchangeFails(p)
    \/ RecordApproved(p) \/ FailApproved(p)
    \/ RecordAuto(p) \/ FailAuto(p)

Next ==
    \/ \E p \in Reshape, canceling \in BOOLEAN : StartRun(p, canceling)
    \/ \E p \in Approvers, r \in Rows : Approve(p, r)
    \/ \E r \in Rows : Reject(r)
    \/ \E p \in Procs : Step(p) \/ Crash(p)
    \/ Midnight

Spec == Init /\ [][Next]_vars
=============================================================================

------------------------------- MODULE PlanRamp -------------------------------
(* The ramp of one purchase plan: the position a plan has bought up to and the *)
(* date of its next step, kept in one row that handlers read, change in memory *)
(* and write back whole, while the completion of an execution advances it      *)
(* under a row lock. One day is one step interval.                             *)
EXTENDS Naturals, Sequences

CONSTANTS
    RampSteps,      \* RampSchedule.TotalSteps
    RampMaxRows,    \* bound on the executions the plan gets
    RampCallers,    \* API requests that read, change and save the plan
    RampLastDay,    \* bound on the clock
    NoPlan,         \* the plan row is deleted
    Notifier        \* the send_notifications task

ASSUME RampAssumption ==
    /\ RampSteps \in Nat \ {0} /\ RampMaxRows \in Nat /\ RampLastDay \in Nat
    /\ Notifier \notin RampCallers

VARIABLES rampDay, rampPlan, rampRow, rampOwed, rampOp
rampVars == <<rampDay, rampPlan, rampRow, rampOwed, rampOp>>

RampNoDate == 0                                     \* NULL; the clock starts at 1
RampRows == DOMAIN rampRow                      \* rows in the order of insertion
RampIdle == [kind |-> "none"]

\* What PlanRequest.toPurchasePlan builds from a request: a ramp at its start.
RampNewPlan(enabled) ==
    [step |-> 0, start |-> rampDay, next |-> rampDay + 1, enabled |-> enabled, notified |-> RampNoDate]

IsComplete(p) == p.step >= RampSteps
GetNextPurchaseDate(p) == p.start + p.step

RampInit ==
    /\ rampDay = 1
    /\ rampPlan = RampNewPlan(TRUE)
    /\ rampRow = <<>>
    /\ rampOwed = {}
    /\ rampOp = [c \in RampCallers \cup {Notifier} |-> RampIdle]

RampPendingRow(step, date, by) ==
    [step |-> step, date |-> date, status |-> "pending", by |-> by]

\* UpdatePurchasePlan: every column is written; a deleted plan is an error.
RampSave(p) == rampPlan' = IF rampPlan = NoPlan THEN NoPlan ELSE p

------------------------------------------------------------------------------
\* updatePlan (PUT): the row is rebuilt from the request, the ramp with it.
RampPut == \E enabled \in BOOLEAN :
    /\ rampPlan # NoPlan
    /\ rampPlan' = RampNewPlan(enabled)
    /\ UNCHANGED <<rampDay, rampRow, rampOwed, rampOp>>

\* deletePlan: executions keep their rows, detached from the plan.
RampDelete ==
    /\ rampPlan # NoPlan
    /\ rampPlan' = NoPlan
    /\ UNCHANGED <<rampDay, rampRow, rampOwed, rampOp>>

\* deletePlannedPurchase, its first half: the execution is canceled, or an
\* earlier attempt canceled it; the plan is disabled next.
RampCancel(c, r) ==
    /\ rampOp[c] = RampIdle /\ rampPlan # NoPlan
    /\ rampRow[r].status \in {"pending", "canceled"}
    /\ rampRow' = [rampRow EXCEPT ![r].status = "canceled"]
    /\ rampOp' = [rampOp EXCEPT ![c] = [kind |-> "canceled"]]
    /\ UNCHANGED <<rampDay, rampPlan, rampOwed>>

\* The read each of the three handlers saves a changed copy of.
RampRead(c, kind) ==
    /\ rampPlan # NoPlan
    /\ rampOp[c].kind = IF kind = "disable" THEN "canceled" ELSE "none"
    /\ rampOp' = [rampOp EXCEPT ![c] = [kind |-> kind, copy |-> rampPlan]]
    /\ UNCHANGED <<rampDay, rampPlan, rampRow, rampOwed>>

\* patchPlan: any of the patched fields; the schedule is written back as read.
RampPatch(c) == \E enabled \in BOOLEAN :
    /\ rampOp[c].kind = "patch"
    /\ RampSave([rampOp[c].copy EXCEPT !.enabled = enabled])
    /\ rampOp' = [rampOp EXCEPT ![c] = RampIdle]
    /\ UNCHANGED <<rampDay, rampRow, rampOwed>>

\* disablePlan: nothing is written when the copy is already disabled.
RampDisable(c) ==
    /\ rampOp[c].kind = "disable"
    /\ IF rampOp[c].copy.enabled THEN RampSave([rampOp[c].copy EXCEPT !.enabled = FALSE])
                                 ELSE UNCHANGED rampPlan
    /\ rampOp' = [rampOp EXCEPT ![c] = RampIdle]
    /\ UNCHANGED <<rampDay, rampRow, rampOwed>>

\* createPlannedPurchases: n rows numbered from the copy's step, and the
\* copy saved with an earlier next date, in one transaction.
RampPlanRows(c) == \E first \in rampDay .. RampLastDay, n \in 1 .. RampMaxRows :
    LET p == rampOp[c].copy
    IN /\ rampOp[c].kind = "plan" /\ Len(rampRow) + n <= RampMaxRows
       /\ IF rampPlan = NoPlan THEN UNCHANGED <<rampPlan, rampRow>>
          ELSE /\ rampRow' = rampRow \o [i \in 1 .. n |-> RampPendingRow(p.step + i, first + i - 1, c)]
               /\ IF p.next = RampNoDate \/ p.next > first
                  THEN RampSave([p EXCEPT !.next = first]) ELSE UNCHANGED rampPlan
       /\ rampOp' = [rampOp EXCEPT ![c] = RampIdle]
       /\ UNCHANGED <<rampDay, rampOwed>>

------------------------------------------------------------------------------
\* SendUpcomingPurchaseNotifications: the plans are listed, then each that is
\* due is handled from the listed copy. The advisory lock admits one run.
ShouldNotify(p) ==
    /\ p.enabled /\ p.next # RampNoDate /\ p.next >= rampDay
    /\ p.notified # rampDay

RampList ==
    /\ rampOp[Notifier] = RampIdle /\ rampPlan # NoPlan /\ ShouldNotify(rampPlan)
    /\ rampOp' = [rampOp EXCEPT ![Notifier] = [kind |-> "listed", copy |-> rampPlan]]
    /\ UNCHANGED <<rampDay, rampPlan, rampRow, rampOwed>>

\* Mutant: the notifier always makes a row.
RampFindsNone ==
    /\ rampOp[Notifier].kind = "listed"
    /\ rampOp' = [rampOp EXCEPT ![Notifier].kind = "missing"]
    /\ UNCHANGED <<rampDay, rampPlan, rampRow, rampOwed>>

\* getOrCreateExecution: the lookup by plan and date, and the row it may insert.
RampFind ==
    LET exists == \E q \in RampRows : rampRow[q].date = rampOp[Notifier].copy.next
    IN /\ rampOp[Notifier].kind = "listed"
       /\ rampOp' = [rampOp EXCEPT ![Notifier].kind = IF exists THEN "found" ELSE "missing"]
       /\ UNCHANGED <<rampDay, rampPlan, rampRow, rampOwed>>

RampInsert ==
    LET p == rampOp[Notifier].copy
    IN /\ rampOp[Notifier].kind = "missing" /\ Len(rampRow) < RampMaxRows
       /\ IF rampPlan = NoPlan
          THEN rampOp' = [rampOp EXCEPT ![Notifier] = RampIdle] /\ UNCHANGED rampRow
          ELSE /\ rampRow' = Append(rampRow, RampPendingRow(p.step + 1, p.next, Notifier))
               /\ rampOp' = [rampOp EXCEPT ![Notifier].kind = "found"]
       /\ UNCHANGED <<rampDay, rampPlan, rampOwed>>

\* The email is sent, or is not, and then the listed copy is saved.
RampNotify == \E sent \in BOOLEAN :
    /\ rampOp[Notifier].kind = "found"
    /\ IF sent THEN RampSave([rampOp[Notifier].copy EXCEPT !.notified = rampDay])
               ELSE UNCHANGED rampPlan
    /\ rampOp' = [rampOp EXCEPT ![Notifier] = RampIdle]
    /\ UNCHANGED <<rampDay, rampRow, rampOwed>>

------------------------------------------------------------------------------
\* A pending row is executed and its outcome saved; a completed one then owes
\* the plan an advance (updatePlanProgress), which a crash may lose.
RampExecute(r) == \E status \in {"completed", "failed"} :
    /\ rampRow[r].status = "pending"
    /\ rampRow' = [rampRow EXCEPT ![r].status = status]
    /\ rampOwed' = IF status = "completed" THEN rampOwed \cup {r} ELSE rampOwed
    /\ UNCHANGED <<rampDay, rampPlan, rampOp>>

RampCrash(r) ==
    /\ r \in rampOwed
    /\ rampOwed' = rampOwed \ {r}
    /\ UNCHANGED <<rampDay, rampPlan, rampRow, rampOp>>

\* retryPurchase of a failed row: a new row for the same step.
RampRetry(c, r) ==
    /\ rampRow[r].status = "failed" /\ Len(rampRow) < RampMaxRows
    /\ rampRow' = Append(rampRow, RampPendingRow(rampRow[r].step, rampDay, c))
    /\ UNCHANGED <<rampDay, rampPlan, rampOwed, rampOp>>

\* Mutant: any step that completes becomes the position.
PlanAfterAnyStep(p, s) ==
    LET moved == IF IsComplete(p) THEN p ELSE [p EXCEPT !.step = s]
    IN [moved EXCEPT !.next = IF IsComplete(moved) THEN RampNoDate
                              ELSE GetNextPurchaseDate(moved)]

\* CompletePlanStep, under SELECT FOR UPDATE: the plan after step s completed.
\* A step already counted, or one beyond the next, leaves the plan as it is.
PlanAfterStep(p, s) ==
    LET moved == IF IsComplete(p) THEN p ELSE [p EXCEPT !.step = s]
    IN IF ~IsComplete(p) /\ p.step # s - 1 THEN p
       ELSE [moved EXCEPT !.next = IF IsComplete(moved) THEN RampNoDate
                                   ELSE GetNextPurchaseDate(moved)]

CompletePlanStep(r) ==
    /\ r \in rampOwed
    /\ rampOwed' = rampOwed \ {r}
    /\ RampSave(PlanAfterStep(rampPlan, rampRow[r].step))
    /\ UNCHANGED <<rampDay, rampRow, rampOp>>

RampTick ==
    /\ rampDay < RampLastDay /\ rampDay' = rampDay + 1
    /\ UNCHANGED <<rampPlan, rampRow, rampOwed, rampOp>>

RampNext ==
    \/ RampPut \/ RampDelete \/ RampList \/ RampFind \/ RampInsert \/ RampNotify \/ RampTick
    \/ \E c \in RampCallers :
          \/ \E kind \in {"patch", "disable", "plan"} : RampRead(c, kind)
          \/ RampPatch(c) \/ RampDisable(c) \/ RampPlanRows(c)
          \/ \E r \in RampRows : RampCancel(c, r) \/ RampRetry(c, r)
    \/ \E r \in RampRows : RampExecute(r) \/ RampCrash(r) \/ CompletePlanStep(r)

RampSpec == RampInit /\ [][RampNext]_rampVars

------------------------------------------------------------------------------
\* A plan never claims a step that no execution bought: for every step up to its
\* position some row of that step completed. Each completion is counted once and
\* steps are not skipped (CompletePlanStep), and the stale copies saved over the
\* row, or a PUT, can only take the position back.
RampNeverOverstates == rampPlan # NoPlan =>
    \A s \in 1 .. rampPlan.step : \E r \in RampRows :
        rampRow[r].step = s /\ rampRow[r].status = "completed"

\* The notifier makes at most one row of a plan for a date, however often it
\* runs and whatever becomes of its email or of the plan in between.
RampOneNoticeRow == \A q, r \in RampRows :
    (rampRow[q].by = Notifier /\ rampRow[r].by = Notifier
       /\ rampRow[q].date = rampRow[r].date) => q = r

\* The ramp's books are honest: no step is claimed that was not bought, and no
\* date is announced twice, whatever stale copies of the plan are saved.
RampBooksHonest == RampNeverOverstates /\ RampOneNoticeRow

\* A step counted for a plan is not given back: the advance of a completed
\* execution survives the other writers of the row. Only a PUT, which starts the
\* ramp again, may lower the position.
RampAdvanceKept == [][(rampPlan # NoPlan /\ rampPlan' # NoPlan) =>
    (rampPlan'.step >= rampPlan.step \/ RampPut)]_rampVars
=============================================================================

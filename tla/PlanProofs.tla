------------------------------- MODULE PlanProofs -------------------------------
(* Proofs about PlanRamp, FanOut, Submissions, Revocation and Ladder, for every   *)
(* number of steps, rows, concurrent requests and runs.                           *)
EXTENDS PlanRamp, FanOut, Submissions, Revocation, Ladder, SumTheorems,
        SequenceTheorems, FiniteSetTheorems, TLAPS

-----------------------------------------------------------------------------
(* PlanRamp: the position of a plan is backed by completed rows.                  *)

RampPlans == [step : Nat, start : Nat, next : Nat, enabled : BOOLEAN, notified : Nat]
RampWriters == RampCallers \cup {Notifier}
RampRowType ==
    [step : Nat, date : Nat, status : {"pending", "canceled", "completed", "failed"},
     by : RampWriters]
RampCopying == {"patch", "disable", "plan", "listed", "missing", "found"}
RampOps ==
    [kind : {"none", "canceled"}] \cup [kind : RampCopying, copy : RampPlans]

RampShape ==
    /\ rampDay \in Nat
    /\ rampPlan # NoPlan => rampPlan \in RampPlans
    /\ rampRow \in Seq(RampRowType)
    /\ rampOp \in [RampWriters -> RampOps]

\* Every step up to the position of plan p has a row that completed.
RampBacked(p) ==
    \A s \in 1 .. p.step : \E r \in RampRows :
        rampRow[r].step = s /\ rampRow[r].status = "completed"

\* The plan, and every copy of it that may still be saved, claims what was bought.
RampClaims ==
    /\ rampPlan # NoPlan => RampBacked(rampPlan)
    /\ \A c \in RampWriters : rampOp[c].kind \in RampCopying => RampBacked(rampOp[c].copy)

\* What is owed an advance did complete.
RampOwes == \A r \in rampOwed : r \in RampRows /\ rampRow[r].status = "completed"

\* Once the notifier has looked and found no row, it still has none of that date.
RampLooked ==
    rampOp[Notifier].kind = "missing" =>
        \A r \in RampRows : rampRow[r].by = Notifier => rampRow[r].date # rampOp[Notifier].copy.next

RampInv == RampShape /\ RampClaims /\ RampOwes /\ RampLooked /\ RampOneNoticeRow

\* The plan starts at its first step, with no rows.
LEMMA RampStarts == RampInit => RampInv
  BY RampAssumption
     DEF RampInit, RampInv, RampShape, RampPlans, RampNewPlan, RampNoDate, RampWriters, RampOps,
         RampIdle, RampClaims, RampBacked, RampCopying, RampOwes, RampLooked, RampOneNoticeRow,
         RampRows

\* The rows that are there keep what they are about, and what has completed stays so.
RampRowsKept ==
    /\ rampRow' \in Seq(RampRowType)
    /\ RampRows \subseteq RampRows'
    /\ \A r \in RampRows :
        /\ rampRow'[r].step = rampRow[r].step
        /\ rampRow[r].status = "completed" => rampRow'[r].status = "completed"

\* Where a position may come from: the start, the plan, a copy of it, or the row
\* of the next step, which completed.
RampFrom(step) ==
    \/ step = 0
    \/ rampPlan # NoPlan /\ step = rampPlan.step
    \/ \E c \in RampWriters : rampOp[c].kind \in RampCopying /\ step = rampOp[c].copy.step
    \/ /\ rampPlan # NoPlan /\ step = rampPlan.step + 1
       /\ \E r \in RampRows : rampRow[r].step = step /\ rampRow[r].status = "completed"

\* A position that comes from there is backed after the step.
LEMMA RampFromBacked ==
    ASSUME RampShape, RampClaims, RampRowsKept, NEW p, RampFrom(p.step)
    PROVE  \A s \in 1 .. p.step : \E r \in RampRows' :
               rampRow'[r].step = s /\ rampRow'[r].status = "completed"
<1>1. \A s \in 1 .. p.step : \E r \in RampRows :
          rampRow[r].step = s /\ rampRow[r].status = "completed"
  <2>1. CASE p.step = 0
    BY <2>1
  <2>2. CASE rampPlan # NoPlan /\ p.step = rampPlan.step
    BY <2>2 DEF RampClaims, RampBacked
  <2>3. CASE \E c \in RampWriters : rampOp[c].kind \in RampCopying /\ p.step = rampOp[c].copy.step
    BY <2>3 DEF RampClaims, RampBacked
  <2>4. CASE /\ rampPlan # NoPlan /\ p.step = rampPlan.step + 1
             /\ \E r \in RampRows : rampRow[r].step = p.step /\ rampRow[r].status = "completed"
    BY <2>4 DEF RampClaims, RampBacked, RampShape, RampPlans
  <2>5. QED
    BY <2>1, <2>2, <2>3, <2>4 DEF RampFrom
<1>2. QED
  BY <1>1 DEF RampRowsKept, RampRows

\* A step that takes positions from nowhere else, and copies only the plan, keeps
\* the claims backed.
LEMMA RampClaimsKept ==
    ASSUME RampShape, RampClaims, RampRowsKept,
           rampPlan' # NoPlan => RampFrom(rampPlan'.step),
           \A c \in RampWriters : rampOp'[c].kind \in RampCopying =>
               RampFrom(rampOp'[c].copy.step)
    PROVE  RampClaims'
<1>1. ASSUME rampPlan' # NoPlan PROVE RampBacked(rampPlan)'
  <2>1. PICK p : p = rampPlan'
    OBVIOUS
  <2>2. RampFrom(p.step)
    BY <1>1, <2>1 DEF RampFrom
  <2>3. QED
    BY <2>1, <2>2, RampFromBacked DEF RampBacked
<1>2. ASSUME NEW c \in RampWriters, rampOp'[c].kind \in RampCopying
      PROVE  RampBacked(rampOp[c].copy)'
  <2>1. PICK p : p = rampOp'[c].copy
    OBVIOUS
  <2>2. RampFrom(p.step)
    BY <1>2, <2>1 DEF RampFrom
  <2>3. QED
    BY <2>1, <2>2, RampFromBacked DEF RampBacked
<1>3. QED
  BY <1>1, <1>2 DEF RampClaims

\* What a handler holds a copy of is a plan.
LEMMA RampCopyShape ==
    ASSUME RampShape, NEW c \in RampWriters, rampOp[c].kind \in RampCopying
    PROVE  /\ rampOp[c] = [kind |-> rampOp[c].kind, copy |-> rampOp[c].copy]
           /\ rampOp[c].copy \in RampPlans
  BY DEF RampShape, RampOps, RampCopying

\* The columns a handler changes are not the position.
LEMMA RampColumns ==
    ASSUME NEW p \in RampPlans
    PROVE  /\ \A b \in BOOLEAN : /\ [p EXCEPT !.enabled = b] \in RampPlans
                                 /\ [p EXCEPT !.enabled = b].step = p.step
           /\ \A n \in Nat :
                /\ [p EXCEPT !.next = n] \in RampPlans /\ [p EXCEPT !.next = n].step = p.step
                /\ [p EXCEPT !.notified = n] \in RampPlans /\ [p EXCEPT !.notified = n].step = p.step
                /\ [p EXCEPT !.step = n] \in RampPlans /\ [p EXCEPT !.step = n].step = n
  BY DEF RampPlans

\* A step that writes the plan, or takes or drops a copy of it, and leaves the rows.
LEMMA RampPlanStep ==
    ASSUME RampInv, UNCHANGED rampRow, rampOwed' \subseteq rampOwed, rampDay' \in Nat,
           rampPlan' # NoPlan => rampPlan' \in RampPlans /\ RampFrom(rampPlan'.step),
           rampOp' \in [RampWriters -> RampOps],
           \A c \in RampWriters : rampOp'[c].kind \in RampCopying =>
               RampFrom(rampOp'[c].copy.step),
           RampLooked'
    PROVE  RampInv'
<1>1. RampRowsKept
  BY DEF RampRowsKept, RampInv, RampShape, RampRows
<1>2. RampClaims'
  BY <1>1, RampClaimsKept DEF RampInv
<1>3. RampShape' /\ RampOwes' /\ RampOneNoticeRow'
  BY DEF RampInv, RampShape, RampOwes, RampOneNoticeRow, RampRows
<1>4. QED
  BY <1>2, <1>3 DEF RampInv

\* One writer ends its handler, the others keep their copies.
LEMMA RampHandlerStep ==
    ASSUME RampInv, NEW c \in RampWriters, NEW op \in RampOps,
           rampOp' = [rampOp EXCEPT ![c] = op],
           op.kind \in RampCopying => RampFrom(op.copy.step)
    PROVE  /\ rampOp' \in [RampWriters -> RampOps]
           /\ \A d \in RampWriters : rampOp'[d].kind \in RampCopying =>
                  RampFrom(rampOp'[d].copy.step)
<1>1. \A d \in RampWriters : rampOp'[d] = IF d = c THEN op ELSE rampOp[d]
  BY DEF RampInv, RampShape
<1>2. \A d \in RampWriters : rampOp[d].kind \in RampCopying => RampFrom(rampOp[d].copy.step)
  BY DEF RampFrom
<1>3. rampOp' \in [RampWriters -> RampOps]
  BY DEF RampInv, RampShape
<1>4. ASSUME NEW d \in RampWriters, rampOp'[d].kind \in RampCopying
      PROVE  RampFrom(rampOp'[d].copy.step)
  <2>1. PICK q : q = rampOp'[d]
    OBVIOUS
  <2>2. q = op \/ q = rampOp[d]
    BY <2>1, <1>1
  <2>3. RampFrom(q.copy.step)
    BY <1>4, <2>1, <2>2, <1>2
  <2>4. QED
    BY <2>1, <2>3 DEF RampFrom
<1>5. QED
  BY <1>3, <1>4

\* The handlers that write the plan, and the ones that list or look.
LEMMA RampPlanSteps ==
    ASSUME RampInv,
           \/ RampPut \/ RampDelete \/ RampList \/ RampFind \/ RampNotify \/ RampTick
           \/ \E c \in RampCallers :
                 \/ \E kind \in {"patch", "disable", "plan"} : RampRead(c, kind)
                 \/ RampPatch(c) \/ RampDisable(c)
           \/ \E r \in RampRows : RampCrash(r) \/ CompletePlanStep(r)
    PROVE  RampInv'
<1> USE RampAssumption
<1>0. \A c \in RampWriters : rampOp[c].kind \in RampCopying => RampFrom(rampOp[c].copy.step)
  BY DEF RampFrom
<1>a. rampPlan # NoPlan => rampPlan \in RampPlans /\ RampFrom(rampPlan.step)
  BY DEF RampInv, RampShape, RampFrom
<1>b. rampDay \in Nat /\ rampOp \in [RampWriters -> RampOps] /\ Notifier \in RampWriters
  BY DEF RampInv, RampShape, RampWriters
<1>c. \A r \in RampRows : rampRow[r] \in RampRowType
  BY DEF RampInv, RampShape, RampRows
<1>1. CASE RampPut
  <2>1. rampPlan' \in RampPlans /\ rampPlan'.step = 0
    BY <1>1, <1>b DEF RampPut, RampNewPlan, RampPlans, RampNoDate
  <2>2. RampFrom(rampPlan'.step)
    BY <2>1 DEF RampFrom
  <2>3. QED
    BY <1>1, <1>0, <1>b, <2>1, <2>2, RampPlanStep DEF RampPut, RampInv, RampLooked, RampRows
<1>2. CASE RampDelete
  BY <1>2, <1>0, <1>b, RampPlanStep DEF RampDelete, RampInv, RampLooked, RampRows
<1>3. CASE RampTick
  BY <1>3, <1>0, <1>a, <1>b, RampPlanStep DEF RampTick, RampInv, RampLooked, RampRows
<1>4. CASE RampList
  <2> DEFINE op == [kind |-> "listed", copy |-> rampPlan]
  <2>1. op \in RampOps /\ RampFrom(op.copy.step) /\ rampOp' = [rampOp EXCEPT ![Notifier] = op]
    BY <1>4, <1>a DEF RampList, RampOps, RampCopying
  <2>2. rampOp'[Notifier].kind = "listed"
    BY <1>4, <1>b DEF RampList
  <2> HIDE DEF op
  <2>3. QED
    BY <1>4, <1>a, <1>b, <2>1, <2>2, RampPlanStep, RampHandlerStep DEF RampList, RampLooked
<1>5. CASE RampFind
  <2>1. /\ rampOp[Notifier].kind = "listed" /\ UNCHANGED <<rampDay, rampPlan, rampRow, rampOwed>>
        /\ rampOp[Notifier] = [kind |-> "listed", copy |-> rampOp[Notifier].copy]
        /\ rampOp[Notifier].copy \in RampPlans
    BY <1>5, <1>b, RampCopyShape DEF RampFind, RampCopying, RampInv
  <2> DEFINE k == IF \E q \in RampRows : rampRow[q].date = rampOp[Notifier].copy.next
                  THEN "found" ELSE "missing"
  <2> DEFINE op == [kind |-> k, copy |-> rampOp[Notifier].copy]
  <2>2. /\ rampOp' = [rampOp EXCEPT ![Notifier].kind = k]
        /\ k \in {"found", "missing"}
        /\ k = "missing" => \A q \in RampRows : rampRow[q].date # rampOp[Notifier].copy.next
    BY <1>5 DEF RampFind
  <2> HIDE DEF k
  <2>3. /\ op \in RampOps /\ RampFrom(op.copy.step)
        /\ op.copy = rampOp[Notifier].copy /\ op.kind = k
    BY <1>0, <1>b, <2>1, <2>2 DEF RampOps, RampCopying
  <2>4. [rampOp[Notifier] EXCEPT !.kind = k] = op
    BY <2>1
  <2>5. rampOp' = [rampOp EXCEPT ![Notifier] = op]
    BY <2>2, <2>4
  <2> HIDE DEF op
  <2>6. rampOp'[Notifier].kind = k /\ rampOp'[Notifier].copy = rampOp[Notifier].copy
    BY <1>b, <2>3, <2>5
  <2>7. RampLooked'
    BY <2>1, <2>2, <2>6 DEF RampLooked, RampRows
  <2>8. QED
    BY <1>a, <1>b, <2>1, <2>3, <2>5, <2>7, RampPlanStep, RampHandlerStep
<1>6. CASE RampNotify
  <2>1. /\ rampOp[Notifier].copy \in RampPlans /\ RampFrom(rampOp[Notifier].copy.step)
        /\ rampOp' = [rampOp EXCEPT ![Notifier] = RampIdle]
        /\ UNCHANGED <<rampDay, rampRow, rampOwed>>
    BY <1>6, <1>0, <1>b, RampCopyShape DEF RampNotify, RampCopying, RampInv
  <2>2. rampPlan' # NoPlan => rampPlan' \in RampPlans /\ RampFrom(rampPlan'.step)
    <3>1. PICK p : p = [rampOp[Notifier].copy EXCEPT !.notified = rampDay]
      OBVIOUS
    <3>2. p \in RampPlans /\ p.step = rampOp[Notifier].copy.step
      BY <3>1, <2>1, <1>b, RampColumns
    <3>3. rampPlan' \in {p, rampPlan} \/ rampPlan' = NoPlan
      BY <1>6, <3>1 DEF RampNotify, RampSave
    <3>4. RampFrom(p.step)
      BY <2>1, <3>2 DEF RampFrom
    <3>5. QED
      BY <3>2, <3>3, <3>4, <1>a DEF RampFrom
  <2>3. RampIdle \in RampOps /\ RampIdle.kind \notin RampCopying /\ RampIdle.kind # "missing"
    BY DEF RampIdle, RampOps, RampCopying
  <2>4. RampLooked'
    BY <2>1, <2>3, <1>b DEF RampLooked
  <2>5. QED
    BY <1>b, <2>1, <2>2, <2>3, <2>4, RampPlanStep, RampHandlerStep
<1>7. ASSUME NEW c \in RampCallers, NEW kind \in {"patch", "disable", "plan"}, RampRead(c, kind)
      PROVE  RampInv'
  <2> DEFINE op == [kind |-> kind, copy |-> rampPlan]
  <2>1. op \in RampOps /\ RampFrom(op.copy.step) /\ rampOp' = [rampOp EXCEPT ![c] = op]
    BY <1>7, <1>a DEF RampRead, RampOps, RampCopying
  <2>2. rampOp'[Notifier] = rampOp[Notifier] /\ c \in RampWriters
    BY <1>b, <2>1 DEF RampWriters
  <2> HIDE DEF op
  <2>3. RampLooked'
    BY <1>7, <2>2 DEF RampRead, RampLooked, RampInv, RampRows
  <2>4. QED
    BY <1>7, <1>a, <1>b, <2>1, <2>2, <2>3, RampPlanStep, RampHandlerStep DEF RampRead
<1>8. ASSUME NEW c \in RampCallers, RampPatch(c) \/ RampDisable(c) PROVE RampInv'
  <2>1. /\ rampOp[c].copy \in RampPlans /\ RampFrom(rampOp[c].copy.step)
        /\ rampOp' = [rampOp EXCEPT ![c] = RampIdle] /\ c \in RampWriters
        /\ UNCHANGED <<rampDay, rampRow, rampOwed>>
    BY <1>8, <1>0, <1>b, RampCopyShape DEF RampPatch, RampDisable, RampCopying, RampInv, RampWriters
  <2>2. PICK b \in BOOLEAN : \/ rampPlan' = [rampOp[c].copy EXCEPT !.enabled = b]
                             \/ rampPlan' \in {rampPlan, NoPlan}
    BY <1>8 DEF RampPatch, RampDisable, RampSave
  <2>3. rampPlan' # NoPlan => rampPlan' \in RampPlans /\ RampFrom(rampPlan'.step)
    <3>1. PICK p : p = [rampOp[c].copy EXCEPT !.enabled = b]
      OBVIOUS
    <3>2. p \in RampPlans /\ p.step = rampOp[c].copy.step
      BY <3>1, <2>1, RampColumns
    <3>3. RampFrom(p.step)
      BY <2>1, <3>2 DEF RampFrom
    <3>4. QED
      BY <2>2, <3>1, <3>2, <3>3, <1>a DEF RampFrom
  <2>4. RampIdle \in RampOps /\ RampIdle.kind \notin RampCopying
        /\ rampOp'[Notifier] = rampOp[Notifier]
    BY <2>1, <1>b DEF RampIdle, RampOps, RampCopying
  <2>5. RampLooked'
    BY <2>1, <2>4 DEF RampLooked, RampInv, RampRows
  <2>6. QED
    BY <1>b, <2>1, <2>3, <2>4, <2>5, RampPlanStep, RampHandlerStep
<1>9. ASSUME NEW r \in RampRows, RampCrash(r) PROVE RampInv'
  BY <1>9, <1>0, <1>a, <1>b, RampPlanStep DEF RampCrash, RampInv, RampLooked, RampRows
<1>10. ASSUME NEW r \in RampRows, CompletePlanStep(r) PROVE RampInv'
  <2>1. /\ rampRow[r].status = "completed" /\ rampRow[r].step \in Nat
        /\ UNCHANGED <<rampDay, rampRow, rampOp>> /\ rampOwed' \subseteq rampOwed
    BY <1>10, <1>c DEF CompletePlanStep, RampInv, RampOwes, RampRowType
  <2>2. rampPlan' # NoPlan => rampPlan' \in RampPlans /\ RampFrom(rampPlan'.step)
    <3> SUFFICES ASSUME rampPlan' # NoPlan
                 PROVE  rampPlan' \in RampPlans /\ RampFrom(rampPlan'.step)
      OBVIOUS
    <3>1. rampPlan # NoPlan /\ rampPlan \in RampPlans
          /\ rampPlan' = PlanAfterStep(rampPlan, rampRow[r].step)
      BY <1>10, <1>a DEF CompletePlanStep, RampSave
    <3>2. rampPlan.step \in Nat
      BY <3>1 DEF RampPlans
    <3>3. CASE IsComplete(rampPlan)
      <4>1. PICK p \in RampPlans : p = rampPlan
        BY <3>1
      <4>2. rampPlan' = [p EXCEPT !.next = 0]
        BY <3>1, <3>3, <4>1 DEF PlanAfterStep, RampNoDate
      <4>3. [p EXCEPT !.next = 0] \in RampPlans /\ [p EXCEPT !.next = 0].step = p.step
        BY <4>1 DEF RampPlans
      <4>4. rampPlan' \in RampPlans /\ rampPlan'.step = rampPlan.step
        BY ONLY <4>1, <4>2, <4>3
      <4>5. QED
        BY <3>1, <4>4 DEF RampFrom
    <3>4. CASE ~IsComplete(rampPlan) /\ rampPlan.step # rampRow[r].step - 1
      BY <3>1, <3>4, <1>a DEF PlanAfterStep
    <3>5. CASE ~IsComplete(rampPlan) /\ rampPlan.step = rampRow[r].step - 1
      <4>1. PICK moved : moved = [rampPlan EXCEPT !.step = rampRow[r].step]
        OBVIOUS
      <4>2. moved \in RampPlans /\ moved.step = rampRow[r].step
        BY <4>1, <3>1, <2>1, RampColumns
      <4>3. PICK n : n = IF IsComplete(moved) THEN RampNoDate ELSE GetNextPurchaseDate(moved)
        OBVIOUS
      <4>4. n \in Nat
        BY <4>2, <4>3 DEF GetNextPurchaseDate, RampPlans, RampNoDate
      <4>5. rampPlan' = [moved EXCEPT !.next = n]
        BY <3>1, <3>5, <4>1, <4>3 DEF PlanAfterStep
      <4>6. rampPlan' \in RampPlans /\ rampPlan'.step = rampRow[r].step
        BY <4>2, <4>4, <4>5, RampColumns
      <4>7. rampPlan'.step = rampPlan.step + 1
        BY <2>1, <3>2, <3>5, <4>6
      <4>8. QED
        BY <2>1, <3>1, <4>6, <4>7 DEF RampFrom
    <3>6. QED
      BY <3>3, <3>4, <3>5
  <2>3. RampLooked'
    BY <2>1 DEF RampInv, RampLooked, RampRows
  <2>4. QED
    BY <1>0, <1>b, <2>1, <2>2, <2>3, RampPlanStep
<1>11. QED
  BY <1>1, <1>2, <1>3, <1>4, <1>5, <1>6, <1>7, <1>8, <1>9, <1>10

\* A step that writes the rows: the notifier adds a row only after it looked.
LEMMA RampRowStep ==
    ASSUME RampInv, RampRowsKept, UNCHANGED rampDay,
           \A r \in rampOwed' : r \in RampRows' /\ rampRow'[r].status = "completed",
           rampPlan' # NoPlan => rampPlan' \in RampPlans /\ RampFrom(rampPlan'.step),
           rampOp' \in [RampWriters -> RampOps],
           \A c \in RampWriters : rampOp'[c].kind \in RampCopying =>
               RampFrom(rampOp'[c].copy.step),
           \A r \in RampRows : rampRow'[r].by = rampRow[r].by /\ rampRow'[r].date = rampRow[r].date,
           \/ /\ rampOp'[Notifier] = rampOp[Notifier]
              /\ \A r \in RampRows' \ RampRows : rampRow'[r].by # Notifier
           \/ /\ rampOp'[Notifier].kind = "found" /\ rampOp[Notifier].kind = "missing"
              /\ RampRows' = RampRows \cup {Len(rampRow) + 1}
              /\ rampRow'[Len(rampRow) + 1].date = rampOp[Notifier].copy.next
    PROVE  RampInv'
<1>1. RampClaims'
  BY RampClaimsKept DEF RampInv
<1>2. RampShape'
  BY DEF RampInv, RampShape, RampRowsKept
<1>3. RampOwes'
  BY DEF RampOwes, RampRows
<1>4. RampRows \subseteq RampRows'
  BY DEF RampRowsKept
<1>5. CASE /\ rampOp'[Notifier] = rampOp[Notifier]
           /\ \A r \in RampRows' \ RampRows : rampRow'[r].by # Notifier
  <2>1. RampLooked'
    BY <1>4, <1>5 DEF RampInv, RampLooked, RampRows
  <2>2. RampOneNoticeRow'
    BY <1>4, <1>5 DEF RampInv, RampOneNoticeRow, RampRows
  <2>3. QED
    BY <1>1, <1>2, <1>3, <2>1, <2>2 DEF RampInv
<1>6. CASE /\ rampOp'[Notifier].kind = "found" /\ rampOp[Notifier].kind = "missing"
           /\ RampRows' = RampRows \cup {Len(rampRow) + 1}
           /\ rampRow'[Len(rampRow) + 1].date = rampOp[Notifier].copy.next
  <2>1. RampLooked'
    BY <1>6 DEF RampLooked
  <2>2. RampOneNoticeRow'
    BY <1>4, <1>6 DEF RampInv, RampOneNoticeRow, RampLooked, RampRows
  <2>3. QED
    BY <1>1, <1>2, <1>3, <2>1, <2>2 DEF RampInv
<1>7. QED
  BY <1>5, <1>6

\* A row that is appended, and one whose status changes, leave the others.
LEMMA RampAppends ==
    ASSUME RampInv, NEW row \in RampRowType, rampRow' = Append(rampRow, row)
    PROVE  /\ RampRowsKept
           /\ RampRows' = RampRows \cup {Len(rampRow) + 1}
           /\ rampRow'[Len(rampRow) + 1] = row
           /\ \A r \in RampRows : rampRow'[r] = rampRow[r]
<1>1. rampRow \in Seq(RampRowType)
  BY DEF RampInv, RampShape
<1>2. /\ rampRow' \in Seq(RampRowType) /\ Len(rampRow') = Len(rampRow) + 1
      /\ rampRow'[Len(rampRow) + 1] = row
      /\ \A r \in 1 .. Len(rampRow) : rampRow'[r] = rampRow[r]
  BY <1>1
<1>3. QED
  BY <1>1, <1>2 DEF RampRowsKept, RampRows

LEMMA RampMarks ==
    ASSUME RampInv, NEW r \in RampRows,
           NEW status \in {"pending", "canceled", "completed", "failed"},
           rampRow[r].status # "completed",
           rampRow' = [rampRow EXCEPT ![r].status = status]
    PROVE  /\ RampRowsKept /\ RampRows' = RampRows
           /\ rampRow'[r].status = status
           /\ \A q \in RampRows : /\ rampRow'[q].by = rampRow[q].by
                                  /\ rampRow'[q].date = rampRow[q].date
                                  /\ q # r => rampRow'[q].status = rampRow[q].status
<1>1. rampRow \in Seq(RampRowType) /\ r \in DOMAIN rampRow
  BY DEF RampInv, RampShape, RampRows
<1>2. /\ [rampRow[r] EXCEPT !.status = status] \in RampRowType
      /\ [rampRow[r] EXCEPT !.status = status].status = status
      /\ [rampRow[r] EXCEPT !.status = status].step = rampRow[r].step
      /\ [rampRow[r] EXCEPT !.status = status].by = rampRow[r].by
      /\ [rampRow[r] EXCEPT !.status = status].date = rampRow[r].date
  <2>1. PICK row \in RampRowType : row = rampRow[r]
    BY <1>1
  <2>2. [row EXCEPT !.status = status] \in RampRowType
    BY DEF RampRowType
  <2>3. /\ [row EXCEPT !.status = status].status = status
        /\ [row EXCEPT !.status = status].step = row.step
        /\ [row EXCEPT !.status = status].by = row.by
        /\ [row EXCEPT !.status = status].date = row.date
    BY DEF RampRowType
  <2>4. QED
    BY <2>1, <2>2, <2>3
<1>3. rampRow' \in Seq(RampRowType) /\ DOMAIN rampRow' = DOMAIN rampRow
  BY <1>1, <1>2
<1>4. rampRow'[r] = [rampRow[r] EXCEPT !.status = status]
      /\ \A q \in RampRows \ {r} : rampRow'[q] = rampRow[q]
  BY <1>1 DEF RampRows
<1>5. QED
  BY <1>2, <1>3, <1>4 DEF RampRowsKept, RampRows

\* The handlers that insert rows, and what becomes of a row.
LEMMA RampRowSteps ==
    ASSUME RampInv,
           \/ RampInsert
           \/ \E c \in RampCallers :
                 \/ RampPlanRows(c)
                 \/ \E r \in RampRows : RampCancel(c, r) \/ RampRetry(c, r)
           \/ \E r \in RampRows : RampExecute(r)
    PROVE  RampInv'
<1> USE RampAssumption
<1>1. \A c \in RampWriters : rampOp[c].kind \in RampCopying => RampFrom(rampOp[c].copy.step)
  BY DEF RampFrom
<1>2. rampPlan # NoPlan => rampPlan \in RampPlans /\ RampFrom(rampPlan.step)
  BY DEF RampInv, RampShape, RampFrom
<1>3. /\ rampDay \in Nat /\ rampOp \in [RampWriters -> RampOps] /\ Notifier \in RampWriters
      /\ rampRow \in Seq(RampRowType)
      /\ \A r \in RampRows : rampRow[r] \in RampRowType
  BY DEF RampInv, RampShape, RampWriters, RampRows
<1>4. \A r \in rampOwed : r \in RampRows /\ rampRow[r].status = "completed"
  BY DEF RampInv, RampOwes
<1>5. CASE RampInsert
  <2>1. /\ rampOp[Notifier].kind = "missing"
        /\ rampOp[Notifier] = [kind |-> "missing", copy |-> rampOp[Notifier].copy]
        /\ rampOp[Notifier].copy \in RampPlans
        /\ UNCHANGED <<rampDay, rampPlan, rampOwed>>
    BY <1>5, <1>3, RampCopyShape DEF RampInsert, RampCopying, RampInv
  <2>2. CASE rampPlan = NoPlan
    <3>1. rampOp' = [rampOp EXCEPT ![Notifier] = RampIdle] /\ UNCHANGED rampRow
      BY <1>5, <2>2 DEF RampInsert
    <3>2. RampIdle \in RampOps /\ RampIdle.kind \notin RampCopying /\ RampIdle.kind # "missing"
      BY DEF RampIdle, RampOps, RampCopying
    <3>3. RampLooked'
      BY <1>3, <3>1, <3>2 DEF RampLooked
    <3>4. QED
      BY <1>2, <1>3, <2>1, <3>1, <3>2, <3>3, RampPlanStep, RampHandlerStep
  <2>3. CASE rampPlan # NoPlan
    <3> DEFINE p == rampOp[Notifier].copy
               row == RampPendingRow(p.step + 1, p.next, Notifier)
               op == [kind |-> "found", copy |-> p]
    <3>1. rampRow' = Append(rampRow, row) /\ rampOp' = [rampOp EXCEPT ![Notifier].kind = "found"]
      BY <1>5, <2>3 DEF RampInsert
    <3>2. row \in RampRowType /\ row.date = p.next
      BY <1>3, <2>1 DEF RampPendingRow, RampRowType, RampPlans
    <3>3. [rampOp[Notifier] EXCEPT !.kind = "found"] = op
      BY <2>1
    <3>4. rampOp' = [rampOp EXCEPT ![Notifier] = op]
      BY ONLY <3>1, <3>3
    <3>5. op \in RampOps /\ op.kind = "found" /\ RampFrom(op.copy.step)
      <4>1. p \in RampPlans /\ RampFrom(p.step)
        BY <1>1, <1>3, <2>1 DEF RampCopying
      <4>2. op = [kind |-> "found", copy |-> p]
        BY <1>1, <2>1
      <4>3. QED
        BY ONLY <4>1, <4>2 DEF RampOps, RampCopying
    <3> HIDE DEF row, op
    <3>6. rampOp'[Notifier].kind = "found"
      BY <1>3, <3>4, <3>5
    <3>7. /\ RampRowsKept /\ RampRows' = RampRows \cup {Len(rampRow) + 1}
          /\ rampRow'[Len(rampRow) + 1].date = p.next
          /\ \A r \in RampRows : rampRow'[r] = rampRow[r]
      BY <3>1, <3>2, RampAppends
    <3>8. /\ rampOp' \in [RampWriters -> RampOps]
          /\ \A c \in RampWriters : rampOp'[c].kind \in RampCopying =>
                 RampFrom(rampOp'[c].copy.step)
      BY <1>3, <3>4, <3>5, RampHandlerStep
    <3>9. \A r \in rampOwed' : r \in RampRows' /\ rampRow'[r].status = "completed"
      BY <1>4, <2>1, <3>7
    <3>10. QED
      BY <1>2, <2>1, <3>6, <3>7, <3>8, <3>9, RampRowStep
  <2>4. QED
    BY <2>2, <2>3
<1>6. ASSUME NEW c \in RampCallers, NEW r \in RampRows, RampCancel(c, r)
      PROVE  RampInv'
  <2>1. /\ rampRow[r].status # "completed" /\ c \in RampWriters
        /\ rampRow' = [rampRow EXCEPT ![r].status = "canceled"]
        /\ rampOp' = [rampOp EXCEPT ![c] = [kind |-> "canceled"]]
        /\ UNCHANGED <<rampDay, rampPlan, rampOwed>>
    BY <1>6 DEF RampCancel, RampWriters
  <2> DEFINE op == [kind |-> "canceled"]
  <2>2. op \in RampOps /\ op.kind \notin RampCopying
    BY DEF RampOps, RampCopying
  <2>3. rampOp' = [rampOp EXCEPT ![c] = op] /\ rampOp'[Notifier] = rampOp[Notifier]
    BY <1>3, <2>1
  <2> HIDE DEF op
  <2>4. /\ RampRowsKept /\ RampRows' = RampRows
        /\ \A q \in RampRows : /\ rampRow'[q].by = rampRow[q].by
                               /\ rampRow'[q].date = rampRow[q].date
    BY <2>1, RampMarks
  <2>5. \A q \in rampOwed' : q \in RampRows' /\ rampRow'[q].status = "completed"
    BY <1>4, <2>1, <2>4 DEF RampRowsKept
  <2>6. /\ rampOp' \in [RampWriters -> RampOps]
        /\ \A d \in RampWriters : rampOp'[d].kind \in RampCopying =>
               RampFrom(rampOp'[d].copy.step)
    BY <2>1, <2>2, <2>3, RampHandlerStep
  <2>7. QED
    BY <1>2, <2>1, <2>3, <2>4, <2>5, <2>6, RampRowStep
<1>7. ASSUME NEW c \in RampCallers, NEW r \in RampRows, RampRetry(c, r)
      PROVE  RampInv'
  <2> DEFINE row == RampPendingRow(rampRow[r].step, rampDay, c)
  <2>1. rampRow' = Append(rampRow, row) /\ UNCHANGED <<rampDay, rampPlan, rampOwed, rampOp>>
    BY <1>7 DEF RampRetry
  <2>2. row \in RampRowType /\ row.by # Notifier
    BY <1>3 DEF RampPendingRow, RampRowType, RampWriters
  <2> HIDE DEF row
  <2>3. /\ RampRowsKept /\ RampRows' = RampRows \cup {Len(rampRow) + 1}
        /\ rampRow'[Len(rampRow) + 1] = row
        /\ \A q \in RampRows : rampRow'[q] = rampRow[q]
    BY <2>1, <2>2, RampAppends
  <2>4. \A q \in rampOwed' : q \in RampRows' /\ rampRow'[q].status = "completed"
    BY <1>4, <2>1, <2>3
  <2>5. \A q \in RampRows' \ RampRows : rampRow'[q].by # Notifier
    BY <2>2, <2>3
  <2>6. QED
    BY <1>1, <1>2, <1>3, <2>1, <2>3, <2>4, <2>5, RampRowStep
<1>8. ASSUME NEW r \in RampRows, RampExecute(r) PROVE RampInv'
  <2>1. PICK status \in {"completed", "failed"} :
          /\ rampRow[r].status = "pending"
          /\ rampRow' = [rampRow EXCEPT ![r].status = status]
          /\ rampOwed' = IF status = "completed" THEN rampOwed \cup {r} ELSE rampOwed
          /\ UNCHANGED <<rampDay, rampPlan, rampOp>>
    BY <1>8 DEF RampExecute
  <2>2. QED
    <3>1. /\ RampRowsKept /\ RampRows' = RampRows /\ rampRow'[r].status = status
          /\ \A q \in RampRows : /\ rampRow'[q].by = rampRow[q].by
                                 /\ rampRow'[q].date = rampRow[q].date
      BY <2>1, RampMarks
    <3>2. \A q \in rampOwed' : q \in RampRows' /\ rampRow'[q].status = "completed"
      BY <1>4, <2>1, <3>1 DEF RampRowsKept
    <3>3. QED
      BY <1>1, <1>2, <1>3, <2>1, <3>1, <3>2, RampRowStep
<1>9. ASSUME NEW c \in RampCallers, RampPlanRows(c) PROVE RampInv'
  <2>1. PICK first \in rampDay .. RampLastDay, n \in 1 .. RampMaxRows :
          /\ rampOp[c].kind = "plan"
          /\ IF rampPlan = NoPlan THEN UNCHANGED <<rampPlan, rampRow>>
             ELSE /\ rampRow' = rampRow \o [i \in 1 .. n |->
                                   RampPendingRow(rampOp[c].copy.step + i, first + i - 1, c)]
                  /\ IF rampOp[c].copy.next = RampNoDate \/ rampOp[c].copy.next > first
                     THEN RampSave([rampOp[c].copy EXCEPT !.next = first]) ELSE UNCHANGED rampPlan
          /\ rampOp' = [rampOp EXCEPT ![c] = RampIdle]
          /\ UNCHANGED <<rampDay, rampOwed>>
    BY <1>9 DEF RampPlanRows
  <2>2. c \in RampWriters /\ c # Notifier /\ rampOp[c].copy \in RampPlans
        /\ RampFrom(rampOp[c].copy.step)
    BY <1>1, <2>1, RampCopyShape DEF RampWriters, RampCopying, RampInv
  <2>3. first \in Nat /\ n \in Nat /\ rampOp[c].copy.step \in Nat
    BY <1>3, <2>2 DEF RampPlans
  <2>4. /\ RampIdle \in RampOps /\ RampIdle.kind \notin RampCopying
        /\ rampOp'[Notifier] = rampOp[Notifier]
    BY <1>3, <2>1, <2>2 DEF RampIdle, RampOps, RampCopying
  <2>5. rampPlan' # NoPlan => rampPlan' \in RampPlans /\ RampFrom(rampPlan'.step)
    <3>1. PICK p : p = [rampOp[c].copy EXCEPT !.next = first]
      OBVIOUS
    <3>2. p \in RampPlans /\ p.step = rampOp[c].copy.step
      BY <3>1, <2>2, <2>3, RampColumns
    <3>3. RampFrom(p.step)
      BY <2>2, <3>2 DEF RampFrom
    <3>4. rampPlan' \in {p, rampPlan}
      BY <2>1, <3>1 DEF RampSave
    <3>5. QED
      BY <3>2, <3>3, <3>4, <1>2 DEF RampFrom
  <2>6. CASE rampPlan = NoPlan
    <3>1. RampLooked'
      BY <2>1, <2>4, <2>6 DEF RampLooked, RampInv, RampRows
    <3>2. QED
      BY <1>3, <2>1, <2>2, <2>4, <2>5, <2>6, <3>1, RampPlanStep, RampHandlerStep
  <2>7. CASE rampPlan # NoPlan
    <3> DEFINE new == [i \in 1 .. n |->
                          RampPendingRow(rampOp[c].copy.step + i, first + i - 1, c)]
    <3>1. \A i \in 1 .. n : new[i] \in RampRowType /\ new[i].by = c
      BY <1>3, <2>2, <2>3 DEF RampPendingRow, RampRowType
    <3>2. new \in Seq(RampRowType) /\ Len(new) = n
      BY <2>3, <3>1
    <3>3. rampRow' = rampRow \o new
      BY <2>1, <2>7
    <3> HIDE DEF new
    <3>4. /\ rampRow' \in Seq(RampRowType) /\ Len(rampRow') = Len(rampRow) + n
          /\ \A r \in 1 .. Len(rampRow) : rampRow'[r] = rampRow[r]
          /\ \A r \in Len(rampRow) + 1 .. Len(rampRow) + n : rampRow'[r] = new[r - Len(rampRow)]
      <4> DEFINE old == rampRow
                 appended == old \o new
      <4>1. old \in Seq(RampRowType) /\ Len(old) \in Nat
        BY <1>3
      <4> HIDE DEF old
      <4>2. /\ appended \in Seq(RampRowType) /\ Len(appended) = Len(old) + n
            /\ \A r \in 1 .. Len(old) + n :
                  appended[r] = IF r <= Len(old) THEN old[r] ELSE new[r - Len(old)]
        BY <3>2, <4>1, ConcatProperties
      <4> HIDE DEF appended
      <4>3. /\ \A r \in 1 .. Len(old) : appended[r] = old[r]
            /\ \A r \in Len(old) + 1 .. Len(old) + n : appended[r] = new[r - Len(old)]
        <5>1. ASSUME NEW r \in 1 .. Len(old) PROVE appended[r] = old[r]
          <6>1. r \in 1 .. Len(old) + n /\ r <= Len(old)
            BY <2>3, <4>1
          <6>2. QED
            BY <4>2, <6>1
        <5>2. ASSUME NEW r \in Len(old) + 1 .. Len(old) + n
              PROVE  appended[r] = new[r - Len(old)]
          <6>1. r \in 1 .. Len(old) + n /\ ~ r <= Len(old)
            BY <2>3, <4>1
          <6>2. QED
            BY <4>2, <6>1
        <5>3. QED
          BY <5>1, <5>2
      <4>4. rampRow' = appended
        BY <3>3 DEF appended, old
      <4>5. old = rampRow
        BY DEF old
      <4>6. QED
        BY ONLY <4>2, <4>3, <4>4, <4>5
    <3>5. RampRowsKept /\ \A r \in RampRows : rampRow'[r] = rampRow[r]
      <4>1. Len(rampRow) \in Nat /\ Len(rampRow') = Len(rampRow) + n
        BY <1>3, <3>4
      <4>2. RampRows \subseteq RampRows'
        BY ONLY <2>3, <4>1 DEF RampRows
      <4>3. \A r \in RampRows : rampRow'[r] = rampRow[r]
        BY ONLY <3>4 DEF RampRows
      <4>4. QED
        BY ONLY <3>4, <4>2, <4>3 DEF RampRowsKept
    <3>6. \A r \in RampRows' \ RampRows : rampRow'[r].by # Notifier
      <4> SUFFICES ASSUME NEW r \in RampRows' \ RampRows PROVE rampRow'[r].by # Notifier
        OBVIOUS
      <4>1. r \in Len(rampRow) + 1 .. Len(rampRow) + n
        BY <1>3, <2>3, <3>4 DEF RampRows
      <4>2. rampRow'[r] = new[r - Len(rampRow)] /\ r - Len(rampRow) \in 1 .. n
        BY <1>3, <2>3, <3>4, <4>1
      <4>3. QED
        BY <2>2, <3>1, <4>2
    <3>7. QED
      BY <1>4, <2>1, <2>2, <2>4, <2>5, <3>5, <3>6, RampRowStep, RampHandlerStep DEF RampRowsKept
  <2>8. QED
    BY <2>6, <2>7
<1>10. QED
  BY <1>5, <1>6, <1>7, <1>8, <1>9

\* A plan never claims a step that no execution completed, and the notifier makes one
\* row for a date (CompletePlanStep, getOrCreateExecution), whatever stale copies of
\* the plan its handlers save: for any number of steps, rows and concurrent requests.
THEOREM RampHonest == RampSpec => []RampBooksHonest
<1>1. RampInv /\ [RampNext]_rampVars => RampInv'
  <2> SUFFICES ASSUME RampInv, [RampNext]_rampVars PROVE RampInv'
    OBVIOUS
  <2>1. CASE UNCHANGED rampVars
    BY <2>1 DEF rampVars, RampInv, RampShape, RampClaims, RampBacked, RampOwes, RampLooked,
                RampOneNoticeRow, RampRows
  <2>2. QED
    BY <2>1, RampPlanSteps, RampRowSteps DEF RampNext
<1>2. RampInv => RampBooksHonest
  BY DEF RampInv, RampClaims, RampBacked, RampBooksHonest, RampNeverOverstates
<1>3. QED
  BY RampStarts, <1>1, <1>2, PTL DEF RampSpec

-----------------------------------------------------------------------------
(* FanOut: an account is bought for once, and the root row says what its accounts *)
(* got.                                                                           *)

FanStages == {"queued", "bought", "lost", "refused", "skipped", "committed", "errored"}
FanStatuses == {"pending", "running", "completed", "partially_completed", "failed"}
FanRowType ==
    [key : {<<>>} \cup {<<a>> : a \in FanAccounts}, scope : FanAccounts \cup {NoScope},
     status : FanStatuses, retried : BOOLEAN, reaped : BOOLEAN, by : Nat]
FanWorks == UNION {[S -> FanStages] : S \in SUBSET FanAccounts}

FanShape ==
    /\ fanPlan \subseteq FanAccounts /\ fanPlan # {}
    /\ fanRow \in Seq(FanRowType) /\ Len(fanRow) <= FanMaxRows
    /\ fanWork \in [1 .. FanMaxRows -> FanWorks]
    /\ fanMade \in [FanAccounts -> {0, 1}]

\* A row that has a scope is one of that account's key; a root row has neither.
FanScoped == \A i \in FanRows :
    /\ fanRow[i].key = <<>> => fanRow[i].scope = NoScope
    /\ fanRow[i].scope # NoScope => fanRow[i].key = <<fanRow[i].scope>>

\* A drive in progress is of a running row: of a root row for its accounts, of any
\* other for its own account alone.
FanAtWork == \A i \in 1 .. FanMaxRows : DOMAIN fanWork[i] # {} =>
    /\ i \in FanRows /\ fanRow[i].status = "running"
    /\ fanRow[i].scope = NoScope => fanRow[i].key = <<>>
    /\ fanRow[i].scope # NoScope => DOMAIN fanWork[i] = {fanRow[i].scope}

\* A commitment of an account was made with the token of its key, once.
FanTokens == \A a \in FanAccounts : fanMade[a] = 1 <=> <<a>> \in fanToken

\* The rows a drive leaves are final, and the row driven is a root row.
FanChildren == \A j \in FanRows : fanRow[j].by # 0 =>
    /\ fanRow[j].status \in {"completed", "failed"}
    /\ fanRow[j].by \in FanRows
    /\ fanRow[fanRow[j].by].scope = NoScope
    /\ fanRow[fanRow[j].by].status # "pending"

\* The rows whose drives have left a completed row, and a failed one.
FanDone == {i \in FanRows : \E j \in FanRows : fanRow[j].by = i /\ fanRow[j].status = "completed"}
FanUndone == {i \in FanRows : \E j \in FanRows : fanRow[j].by = i /\ fanRow[j].status = "failed"}

\* While a drive is in progress, the rows it left are those of the accounts that
\* it is done with.
FanLeaves == \A i \in 1 .. FanMaxRows : DOMAIN fanWork[i] # {} =>
    /\ i \in FanDone <=> \E a \in DOMAIN fanWork[i] : fanWork[i][a] = "committed"
    /\ i \in FanUndone => \E a \in DOMAIN fanWork[i] : fanWork[i][a] = "errored"

\* The outcome of a row that was driven to its end.
FanEnds == \A i \in FanRows :
    /\ fanRow[i].status = "completed" /\ fanRow[i].scope = NoScope =>
          i \in FanDone \ FanUndone
    /\ fanRow[i].status = "failed" /\ ~fanRow[i].reaped => i \notin FanDone
    /\ fanRow[i].status = "partially_completed" => i \in FanDone

FanInv ==
    FanShape /\ FanScoped /\ FanAtWork /\ FanTokens /\ FanChildren /\ FanLeaves /\ FanEnds

\* A sequence of the members of a finite set has them as its values.
LEMMA FanSequenced ==
    ASSUME NEW S, IsFiniteSet(S)
    PROVE  SetToSeq(S) \in [1 .. Cardinality(S) -> S]
<1>1. ExistsBijection(1 .. Cardinality(S), S)
  BY FS_CardinalityType
<1>2. PICK f : f \in [1 .. Cardinality(S) -> S] /\ IsInjective(f)
  BY <1>1 DEF ExistsBijection, Bijection, Injection, IsInjective
<1>3. QED
  BY <1>2 DEF SetToSeq

\* The lineage starts with a root row and a few scopeless ones, all pending.
LEMMA FanStarts == FanInit => FanInv
<1> SUFFICES ASSUME FanInit PROVE FanInv
  OBVIOUS
<1> USE FanAssumption
<1>1. PICK legacy \in SUBSET FanAccounts :
        fanRow = <<FanRow(<<>>, NoScope, "pending", 0)>> \o
                   SetToSeq({FanRow(<<a>>, NoScope, "pending", 0) : a \in legacy})
  BY DEF FanInit
<1> DEFINE S == {FanRow(<<a>>, NoScope, "pending", 0) : a \in legacy}
           root == FanRow(<<>>, NoScope, "pending", 0)
<1>2. IsFiniteSet(legacy) /\ Cardinality(legacy) <= Cardinality(FanAccounts)
      /\ Cardinality(legacy) \in Nat /\ Cardinality(FanAccounts) \in Nat
  BY FS_Subset, FS_CardinalityType
<1>3. IsFiniteSet(S) /\ Cardinality(S) <= Cardinality(legacy) /\ Cardinality(S) \in Nat
  <2> DEFINE f == [a \in legacy |-> FanRow(<<a>>, NoScope, "pending", 0)]
  <2>1. f \in Surjection(legacy, S)
    BY DEF Surjection
  <2>2. QED
    BY <1>2, <2>1, FS_Surjection, FS_CardinalityType
<1>4. PICK n \in Nat : n < FanMaxRows
        /\ \E q \in [1 .. n -> S] : fanRow = <<root>> \o q
  <2>1. SetToSeq(S) \in [1 .. Cardinality(S) -> S] /\ fanRow = <<root>> \o SetToSeq(S)
    BY <1>1, <1>3, FanSequenced
  <2>2. Cardinality(S) < FanMaxRows
    BY <1>2, <1>3
  <2> HIDE DEF S, root
  <2>3. QED
    BY <1>3, <2>1, <2>2
<1>5. PICK q \in [1 .. n -> S] : fanRow = <<root>> \o q
  BY <1>4
<1>6. \A r \in S \cup {root} :
        r \in FanRowType /\ r.scope = NoScope /\ r.status = "pending" /\ r.by = 0
  <2>1. ASSUME NEW k \in {<<>>} \cup {<<a>> : a \in FanAccounts}
        PROVE  /\ FanRow(k, NoScope, "pending", 0) \in FanRowType
               /\ FanRow(k, NoScope, "pending", 0).scope = NoScope
               /\ FanRow(k, NoScope, "pending", 0).status = "pending"
               /\ FanRow(k, NoScope, "pending", 0).by = 0
    BY <2>1 DEF FanRow, FanRowType, FanStatuses
  <2>2. \A r \in S \cup {root} : \E k \in {<<>>} \cup {<<a>> : a \in FanAccounts} :
            r = FanRow(k, NoScope, "pending", 0)
    OBVIOUS
  <2> HIDE DEF S, root
  <2>3. QED
    BY <2>1, <2>2
<1> HIDE DEF S, root
<1>7. /\ fanRow \in Seq(FanRowType) /\ Len(fanRow) = n + 1
      /\ \A i \in FanRows : fanRow[i] \in S \cup {root}
  <2>1. q \in Seq(FanRowType) /\ Len(q) = n
    BY <1>6, <1>5
  <2>2. <<root>> \in Seq(FanRowType) /\ Len(<<root>>) = 1
    BY <1>6
  <2>3. QED
    BY <1>5, <2>1, <2>2 DEF FanRows
<1>8. FanShape
  <2>1. FanIdle \in [{} -> FanStages]
    BY DEF FanIdle
  <2>2. FanIdle \in FanWorks
    BY <2>1 DEF FanWorks
  <2>3. QED
    BY <1>4, <1>7, <2>2 DEF FanInit, FanShape
<1>9. \A i \in 1 .. FanMaxRows : DOMAIN fanWork[i] = {}
  BY DEF FanInit, FanIdle
<1>10. \A i \in FanRows :
          fanRow[i].scope = NoScope /\ fanRow[i].status = "pending" /\ fanRow[i].by = 0
  BY <1>6, <1>7
<1>11. FanScoped /\ FanChildren /\ FanEnds
  BY <1>10 DEF FanScoped, FanChildren, FanEnds
<1>12. FanAtWork /\ FanLeaves
  BY <1>9 DEF FanAtWork, FanLeaves
<1>13. FanTokens
  BY DEF FanInit, FanTokens
<1>14. QED
  BY <1>8, <1>11, <1>12, <1>13 DEF FanInv

\* The columns of one row that a step writes, and the other rows.
LEMMA FanMarks ==
    ASSUME FanShape, NEW i \in FanRows, NEW row \in FanRowType,
           fanRow' = [fanRow EXCEPT ![i] = row]
    PROVE  /\ fanRow' \in Seq(FanRowType) /\ Len(fanRow') = Len(fanRow)
           /\ FanRows' = FanRows
           /\ fanRow'[i] = row
           /\ \A j \in FanRows \ {i} : fanRow'[j] = fanRow[j]
  BY DEF FanShape, FanRows

\* A row at the end of the lineage.
LEMMA FanAppends ==
    ASSUME FanShape, NEW row \in FanRowType, NEW q \in Seq(FanRowType), Len(q) = Len(fanRow),
           fanRow' = Append(q, row)
    PROVE  /\ fanRow' \in Seq(FanRowType) /\ Len(fanRow') = Len(fanRow) + 1
           /\ FanRows' = FanRows \cup {Len(fanRow) + 1} /\ Len(fanRow) + 1 \notin FanRows
           /\ fanRow'[Len(fanRow) + 1] = row
           /\ \A j \in FanRows : fanRow'[j] = q[j]
  BY DEF FanShape, FanRows

\* A drive is idle when it has no accounts.
LEMMA FanIdles ==
    ASSUME NEW w \in FanWorks
    PROVE  w = FanIdle <=> DOMAIN w = {}
  BY DEF FanWorks, FanIdle

\* The stage of one account of a drive changes.
LEMMA FanStageSet ==
    ASSUME FanShape, NEW i \in 1 .. FanMaxRows, NEW a \in DOMAIN fanWork[i], NEW v \in FanStages,
           fanWork' = [fanWork EXCEPT ![i][a] = v]
    PROVE  /\ fanWork' \in [1 .. FanMaxRows -> FanWorks]
           /\ DOMAIN fanWork'[i] = DOMAIN fanWork[i]
           /\ fanWork'[i][a] = v
           /\ \A b \in DOMAIN fanWork[i] \ {a} : fanWork'[i][b] = fanWork[i][b]
           /\ \A j \in (1 .. FanMaxRows) \ {i} : fanWork'[j] = fanWork[j]
<1>1. PICK S \in SUBSET FanAccounts : fanWork[i] \in [S -> FanStages]
  BY DEF FanShape, FanWorks
<1>2. fanWork'[i] = [fanWork[i] EXCEPT ![a] = v]
  BY DEF FanShape
<1>3. fanWork'[i] \in [S -> FanStages] /\ fanWork'[i] \in FanWorks
  BY <1>1, <1>2 DEF FanWorks
<1>4. QED
  BY <1>1, <1>2, <1>3 DEF FanShape

\* A drive begins or ends.
LEMMA FanWorkSet ==
    ASSUME FanShape, NEW i \in 1 .. FanMaxRows, NEW w \in FanWorks,
           fanWork' = [fanWork EXCEPT ![i] = w]
    PROVE  /\ fanWork' \in [1 .. FanMaxRows -> FanWorks]
           /\ fanWork'[i] = w
           /\ \A j \in (1 .. FanMaxRows) \ {i} : fanWork'[j] = fanWork[j]
  BY DEF FanShape

\* What one row of the lineage says, and where it came from.
LEMMA FanRowFacts ==
    ASSUME FanInv, NEW i \in FanRows
    PROVE  /\ fanRow[i] \in FanRowType /\ i \in 1 .. FanMaxRows /\ i # 0
           /\ fanWork[i] \in FanWorks
           /\ fanWork[i] = FanIdle <=> DOMAIN fanWork[i] = {}
<1>1. i \in 1 .. Len(fanRow) /\ fanRow[i] \in FanRowType /\ Len(fanRow) \in Nat
  BY DEF FanInv, FanShape, FanRows
<1>2. i \in 1 .. FanMaxRows /\ i # 0
  BY <1>1, FanAssumption DEF FanInv, FanShape
<1>3. PICK w \in FanWorks : w = fanWork[i]
  BY <1>2 DEF FanInv, FanShape
<1>4. QED
  BY <1>1, <1>2, <1>3, FanIdles

\* A step that writes columns of one row, and not the status of a final one, leaves
\* what each drive left behind.
LEMMA FanMarkStep ==
    ASSUME FanInv, NEW i \in FanRows, NEW row \in FanRowType,
           fanRow' = [fanRow EXCEPT ![i] = row],
           row.key = fanRow[i].key, row.by = fanRow[i].by,
           \/ row.status = fanRow[i].status
           \/ fanRow[i].status \in {"pending", "running"} /\ row.status # "pending",
           \/ row.scope = fanRow[i].scope
           \/ fanRow[i].status = "pending" /\ row.key = <<row.scope>>
    PROVE  /\ fanRow' \in Seq(FanRowType) /\ Len(fanRow') = Len(fanRow)
           /\ FanRows' = FanRows
           /\ fanRow'[i] = row
           /\ \A j \in FanRows \ {i} : fanRow'[j] = fanRow[j]
           /\ FanScoped' /\ FanChildren'
           /\ FanDone' = FanDone /\ FanUndone' = FanUndone
<1>1. /\ fanRow' \in Seq(FanRowType) /\ Len(fanRow') = Len(fanRow)
      /\ FanRows' = FanRows /\ fanRow'[i] = row
      /\ \A j \in FanRows \ {i} : fanRow'[j] = fanRow[j]
  BY FanMarks DEF FanInv
<1>2. FanScoped'
  <2>1. \A j \in FanRows : j # i => /\ fanRow'[j].key = <<>> => fanRow'[j].scope = NoScope
                                    /\ fanRow'[j].scope # NoScope => fanRow'[j].key = <<fanRow'[j].scope>>
    BY <1>1 DEF FanInv, FanScoped
  <2>2. /\ row.key = <<>> => row.scope = NoScope
        /\ row.scope # NoScope => row.key = <<row.scope>>
    <3>1. <<row.scope>> # <<>>
      OBVIOUS
    <3>2. QED
      BY <3>1 DEF FanInv, FanScoped
  <2>3. QED
    BY <1>1, <2>1, <2>2 DEF FanScoped
<1>3. \A j \in FanRows : /\ fanRow'[j].by = fanRow[j].by
                         /\ fanRow[j].by # 0 => fanRow'[j].status = fanRow[j].status
  BY <1>1 DEF FanInv, FanChildren
<1>4. \A j \in FanRows : fanRow[j].by # 0 => fanRow[j].by # i \/ fanRow[i].status # "pending"
  BY DEF FanInv, FanChildren
<1>5. FanChildren'
  BY <1>1, <1>3, <1>4 DEF FanInv, FanChildren
<1>6. \A j \in FanRows : j # 0
  BY FanRowFacts
<1>7. FanDone' = FanDone /\ FanUndone' = FanUndone
  BY <1>1, <1>3, <1>6 DEF FanDone, FanUndone
<1>8. QED
  BY <1>1, <1>2, <1>5, <1>7

\* A pending row is driven.
LEMMA FanDriveStep ==
    ASSUME FanInv, NEW i \in FanRows, FanDrive(i)
    PROVE  FanInv'
<1> USE FanAssumption
<1>1. /\ fanRow[i].status = "pending" /\ UNCHANGED <<fanPlan, fanToken, fanMade>>
      /\ fanRow[i] \in FanRowType /\ i \in 1 .. FanMaxRows /\ DOMAIN fanWork[i] = {}
  BY FanRowFacts DEF FanDrive, FanInv, FanAtWork
<1>2. i \notin FanDone /\ i \notin FanUndone
  BY <1>1, FanRowFacts DEF FanInv, FanChildren, FanDone, FanUndone
<1>3. CASE /\ fanRow' = [fanRow EXCEPT ![i].status = "failed"]
           /\ UNCHANGED fanWork
  <2> DEFINE row == [fanRow[i] EXCEPT !.status = "failed"]
  <2>1. /\ row \in FanRowType /\ row.key = fanRow[i].key /\ row.by = fanRow[i].by
        /\ row.scope = fanRow[i].scope /\ row.status = "failed"
    BY <1>1 DEF FanRowType, FanStatuses
  <2>2. fanRow' = [fanRow EXCEPT ![i] = row]
    BY <1>3
  <2> HIDE DEF row
  <2>3. /\ fanRow' \in Seq(FanRowType) /\ Len(fanRow') = Len(fanRow) /\ FanRows' = FanRows
        /\ fanRow'[i] = row
        /\ \A j \in FanRows \ {i} : fanRow'[j] = fanRow[j]
        /\ FanScoped' /\ FanChildren' /\ FanDone' = FanDone /\ FanUndone' = FanUndone
    BY <1>1, <2>1, <2>2, FanMarkStep
  <2>4. FanShape' /\ FanTokens'
    BY <1>1, <1>3, <2>3 DEF FanInv, FanShape, FanTokens
  <2>5. FanAtWork'
    BY <1>1, <1>3, <2>3 DEF FanInv, FanAtWork
  <2>6. FanLeaves'
    BY <1>1, <1>3, <2>3 DEF FanInv, FanLeaves
  <2>7. FanEnds'
    BY <1>2, <2>1, <2>3 DEF FanInv, FanEnds
  <2>8. QED
    BY <2>3, <2>4, <2>5, <2>6, <2>7 DEF FanInv
<1>4. ASSUME NEW scope \in Reattached(fanRow[i]),
             fanRow' = [fanRow EXCEPT ![i].status = "running", ![i].scope = scope],
             fanWork' = [fanWork EXCEPT ![i] =
                [a \in IF scope = NoScope THEN fanPlan ELSE {scope} |-> "queued"]]
      PROVE  FanInv'
  <2>1. /\ scope \in FanAccounts \cup {NoScope}
        /\ scope = NoScope => fanRow[i].key = <<>> /\ fanRow[i].scope = NoScope
        /\ scope # NoScope => fanRow[i].key = <<scope>>
    <3>1. CASE fanRow[i].scope # NoScope
      <4>1. scope = fanRow[i].scope
        BY <1>4, <3>1 DEF Reattached
      <4>2. QED
        BY <1>1, <3>1, <4>1 DEF FanInv, FanScoped, FanRowType
    <3>2. CASE fanRow[i].scope = NoScope /\ fanRow[i].key = <<>>
      BY <1>4, <3>2 DEF Reattached
    <3>3. CASE fanRow[i].scope = NoScope /\ fanRow[i].key # <<>>
      <4>1. PICK a \in FanAccounts : fanRow[i].key = <<a>>
        BY <1>1, <3>3 DEF FanRowType
      <4>2. Last(fanRow[i].key) = a
        BY <4>1 DEF Last
      <4>3. scope = a
        BY <1>4, <3>3, <4>2 DEF Reattached
      <4>4. QED
        BY <4>1, <4>3
    <3>4. QED
      BY <3>1, <3>2, <3>3
  <2> DEFINE D == IF scope = NoScope THEN fanPlan ELSE {scope}
             w == [a \in D |-> "queued"]
  <2>2. D # {} /\ D \subseteq FanAccounts /\ w \in [D -> FanStages]
        /\ DOMAIN w = D /\ \A a \in D : w[a] = "queued"
    BY <2>1 DEF FanInv, FanShape, FanStages
  <2> HIDE DEF w
  <2>3. w \in FanWorks
    BY <2>2 DEF FanWorks
  <2>4. fanWork' = [fanWork EXCEPT ![i] = w]
    BY <1>4 DEF w
  <2>5. fanWork' \in [1 .. FanMaxRows -> FanWorks] /\ fanWork'[i] = w
        /\ \A j \in (1 .. FanMaxRows) \ {i} : fanWork'[j] = fanWork[j]
    BY <1>1, <2>3, <2>4, FanWorkSet DEF FanInv
  <2> DEFINE row == [fanRow[i] EXCEPT !.status = "running", !.scope = scope]
  <2>6. /\ row \in FanRowType /\ row.key = fanRow[i].key /\ row.by = fanRow[i].by
        /\ row.scope = scope /\ row.status = "running"
    BY <1>1, <2>1 DEF FanRowType, FanStatuses
  <2>7. fanRow' = [fanRow EXCEPT ![i] = row]
    BY <1>4
  <2> HIDE DEF row
  <2>8. row.scope = fanRow[i].scope \/ row.key = <<row.scope>>
    BY <2>1, <2>6
  <2>9. /\ fanRow' \in Seq(FanRowType) /\ Len(fanRow') = Len(fanRow) /\ FanRows' = FanRows
        /\ fanRow'[i] = row
        /\ \A j \in FanRows \ {i} : fanRow'[j] = fanRow[j]
        /\ FanScoped' /\ FanChildren' /\ FanDone' = FanDone /\ FanUndone' = FanUndone
    BY <1>1, <2>6, <2>7, <2>8, FanMarkStep
  <2>10. FanShape' /\ FanTokens'
    BY <1>1, <2>5, <2>9 DEF FanInv, FanShape, FanTokens
  <2>11. FanAtWork'
    BY <1>1, <2>1, <2>2, <2>5, <2>6, <2>9 DEF FanInv, FanAtWork
  <2>12. FanLeaves'
    BY <1>1, <1>2, <2>2, <2>5, <2>9 DEF FanInv, FanLeaves
  <2>13. FanEnds'
    BY <1>2, <2>6, <2>9 DEF FanInv, FanEnds
  <2>14. QED
    BY <2>9, <2>10, <2>11, <2>12, <2>13 DEF FanInv
<1>5. QED
  BY <1>3, <1>4 DEF FanDrive

\* The key of an account of a drive is the account's own.
LEMMA FanKey ==
    ASSUME FanInv, NEW i \in FanRows, NEW a \in DOMAIN fanWork[i]
    PROVE  FanAccountKey(i, a) = <<a>> /\ a \in FanAccounts
<1>1. i \in 1 .. FanMaxRows /\ fanRow[i] \in FanRowType
  BY FanRowFacts
<1>2. a \in FanAccounts
  BY <1>1 DEF FanInv, FanShape, FanWorks
<1>3. CASE fanRow[i].scope = NoScope
  <2>1. fanRow[i].key = <<>>
    BY <1>1, <1>3 DEF FanInv, FanAtWork
  <2>2. Append(<<>>, a) = <<a>>
    OBVIOUS
  <2>3. QED
    BY <1>2, <1>3, <2>1, <2>2 DEF FanAccountKey
<1>4. CASE fanRow[i].scope # NoScope
  <2>1. a = fanRow[i].scope /\ fanRow[i].key = <<fanRow[i].scope>>
    BY <1>1, <1>4 DEF FanInv, FanAtWork, FanScoped
  <2>2. QED
    BY <1>2, <1>4, <2>1 DEF FanAccountKey
<1>5. QED
  BY <1>3, <1>4

\* The provider and the drive of one account: the rows stay.
LEMMA FanCallStep ==
    ASSUME FanInv, NEW i \in FanRows, NEW a \in FanAccounts, FanBuy(i, a) \/ FanNoBuy(i, a)
    PROVE  FanInv'
<1>1. i \in 1 .. FanMaxRows /\ a \in DOMAIN fanWork[i] /\ fanWork[i][a] = "queued"
      /\ UNCHANGED <<fanPlan, fanRow>>
  BY FanRowFacts DEF FanBuy, FanNoBuy
<1>2. PICK v \in {"bought", "lost", "refused", "skipped"} : fanWork' = [fanWork EXCEPT ![i][a] = v]
  BY DEF FanBuy, FanNoBuy
<1>3. /\ fanWork' \in [1 .. FanMaxRows -> FanWorks]
      /\ DOMAIN fanWork'[i] = DOMAIN fanWork[i]
      /\ fanWork'[i][a] = v
      /\ \A b \in DOMAIN fanWork[i] \ {a} : fanWork'[i][b] = fanWork[i][b]
      /\ \A j \in (1 .. FanMaxRows) \ {i} : fanWork'[j] = fanWork[j]
  BY <1>1, <1>2, FanStageSet DEF FanInv, FanStages
<1>4. FanTokens' /\ fanMade' \in [FanAccounts -> {0, 1}]
  <2>1. CASE FanNoBuy(i, a)
    BY <2>1 DEF FanNoBuy, FanInv, FanTokens, FanShape
  <2>2. CASE FanBuy(i, a)
    <3>1. FanAccountKey(i, a) = <<a>>
      BY <1>1, FanKey
    <3>2. /\ fanToken' = fanToken \cup {<<a>>}
          /\ fanMade' = IF <<a>> \in fanToken THEN fanMade ELSE [fanMade EXCEPT ![a] = @ + 1]
      BY <2>2, <3>1 DEF FanBuy
    <3>3. fanMade \in [FanAccounts -> {0, 1}] /\ (fanMade[a] = 1 <=> <<a>> \in fanToken)
      BY DEF FanInv, FanShape, FanTokens
    <3>4. \A b \in FanAccounts : <<b>> = <<a>> => b = a
      OBVIOUS
    <3>5. CASE <<a>> \in fanToken
      BY <3>2, <3>3, <3>5 DEF FanInv, FanTokens
    <3>6. CASE <<a>> \notin fanToken
      <4>1. fanMade[a] = 0 /\ fanMade' = [fanMade EXCEPT ![a] = fanMade[a] + 1]
        BY <3>2, <3>3, <3>6
      <4>2. fanMade' \in [FanAccounts -> {0, 1}] /\ fanMade'[a] = 1
            /\ \A b \in FanAccounts \ {a} : fanMade'[b] = fanMade[b]
        BY <3>3, <4>1
      <4>3. QED
        BY <3>2, <3>4, <4>2 DEF FanInv, FanTokens
    <3>7. QED
      BY <3>5, <3>6
  <2>3. QED
    BY <2>1, <2>2
<1>5. FanDone' = FanDone /\ FanUndone' = FanUndone /\ FanRows' = FanRows
  BY <1>1 DEF FanDone, FanUndone, FanRows
<1>6. FanLeaves'
  <2>1. (\E b \in DOMAIN fanWork'[i] : fanWork'[i][b] = "committed")
          <=> (\E b \in DOMAIN fanWork[i] : fanWork[i][b] = "committed")
    BY <1>1, <1>3
  <2>2. (\E b \in DOMAIN fanWork'[i] : fanWork'[i][b] = "errored")
          <=> (\E b \in DOMAIN fanWork[i] : fanWork[i][b] = "errored")
    BY <1>1, <1>3
  <2>3. QED
    BY <1>3, <1>5, <2>1, <2>2 DEF FanInv, FanLeaves
<1>7. FanAtWork' /\ FanScoped' /\ FanChildren' /\ FanEnds'
  BY <1>1, <1>3, <1>5 DEF FanInv, FanAtWork, FanScoped, FanChildren, FanEnds
<1>8. QED
  BY <1>1, <1>3, <1>4, <1>6, <1>7 DEF FanInv, FanShape

\* An account of a drive is done with: its row goes to the end of the lineage.
LEMMA FanSaveStep ==
    ASSUME FanInv, NEW i \in FanRows, NEW a \in FanAccounts, FanSaveAccount(i, a)
    PROVE  FanInv'
<1> USE FanAssumption
<1>1. /\ i \in 1 .. FanMaxRows /\ i # 0 /\ i \in Nat /\ fanRow[i] \in FanRowType
      /\ fanRow[i].scope = NoScope /\ Len(fanRow) < FanMaxRows
      /\ a \in DOMAIN fanWork[i] /\ fanWork[i][a] \in {"bought", "lost", "refused"}
      /\ fanRow[i].status = "running" /\ FanAccountKey(i, a) = <<a>>
      /\ UNCHANGED <<fanPlan, fanToken, fanMade>>
  BY FanRowFacts, FanKey DEF FanSaveAccount, FanInv, FanAtWork
<1> DEFINE ok == fanWork[i][a] = "bought"
           row == FanRow(<<a>>, a, IF ok THEN "completed" ELSE "failed", i)
           n == Len(fanRow) + 1
<1>2. /\ fanRow' = Append(fanRow, row)
      /\ fanWork' = [fanWork EXCEPT ![i][a] = IF ok THEN "committed" ELSE "errored"]
  BY <1>1 DEF FanSaveAccount
<1>3. /\ row \in FanRowType /\ row.key = <<a>> /\ row.scope = a /\ row.by = i
      /\ row.status = IF ok THEN "completed" ELSE "failed"
  BY <1>1 DEF FanRow, FanRowType, FanStatuses
<1> HIDE DEF row
<1>4. /\ fanRow' \in Seq(FanRowType) /\ Len(fanRow') = n
      /\ FanRows' = FanRows \cup {n} /\ n \notin FanRows
      /\ fanRow'[n] = row
      /\ \A j \in FanRows : fanRow'[j] = fanRow[j]
  BY <1>2, <1>3, FanAppends DEF FanInv, FanShape
<1>5. /\ fanWork' \in [1 .. FanMaxRows -> FanWorks]
      /\ DOMAIN fanWork'[i] = DOMAIN fanWork[i]
      /\ fanWork'[i][a] = IF ok THEN "committed" ELSE "errored"
      /\ \A b \in DOMAIN fanWork[i] \ {a} : fanWork'[i][b] = fanWork[i][b]
      /\ \A j \in (1 .. FanMaxRows) \ {i} : fanWork'[j] = fanWork[j]
  BY <1>1, <1>2, FanStageSet DEF FanInv, FanStages
<1>6. n \in 1 .. FanMaxRows /\ Len(fanRow) \in Nat
  BY <1>1 DEF FanInv, FanShape
<1> HIDE DEF n
<1>7. FanShape' /\ FanTokens'
  BY <1>1, <1>4, <1>5, <1>6 DEF FanInv, FanShape, FanTokens, n
<1>8. FanScoped' /\ FanAtWork'
  <2>1. a # NoScope /\ <<a>> # <<>>
    OBVIOUS
  <2>2. FanScoped'
    BY <1>3, <1>4, <2>1 DEF FanInv, FanScoped
  <2>3. FanAtWork'
    BY <1>1, <1>3, <1>4, <1>5 DEF FanInv, FanAtWork
  <2>4. QED
    BY <2>2, <2>3
<1>9. FanChildren'
  <2> SUFFICES ASSUME NEW j \in FanRows', fanRow'[j].by # 0
               PROVE  /\ fanRow'[j].status \in {"completed", "failed"}
                      /\ fanRow'[j].by \in FanRows'
                      /\ fanRow'[fanRow'[j].by].scope = NoScope
                      /\ fanRow'[fanRow'[j].by].status # "pending"
    BY DEF FanChildren
  <2>1. CASE j \in FanRows
    <3>1. fanRow'[j] = fanRow[j] /\ fanRow[j].by \in FanRows
      BY <1>4, <2>1 DEF FanInv, FanChildren
    <3>2. fanRow'[fanRow[j].by] = fanRow[fanRow[j].by]
      BY <1>4, <3>1
    <3>3. QED
      BY <1>4, <2>1, <3>1, <3>2 DEF FanInv, FanChildren
  <2>2. CASE j = n
    <3>1. fanRow'[j].by = i /\ fanRow'[i] = fanRow[i] /\ i \in FanRows'
      BY <1>1, <1>3, <1>4, <2>2
    <3>2. fanRow'[j].status \in {"completed", "failed"}
      BY <1>3, <1>4, <2>2
    <3>3. QED
      BY <1>1, <3>1, <3>2 DEF FanInv, FanAtWork
  <2>3. QED
    BY <1>4, <2>1, <2>2
<1>10. /\ FanDone' = IF ok THEN FanDone \cup {i} ELSE FanDone
       /\ FanUndone' = IF ok THEN FanUndone ELSE FanUndone \cup {i}
  <2>1. n # i /\ \A j \in FanRows : fanRow[j].by # n
    BY <1>4, <1>6 DEF FanInv, FanChildren, n
  <2>2. QED
    BY <1>3, <1>4, <2>1 DEF FanDone, FanUndone
<1>11. FanLeaves'
  <2>1. \A j \in 1 .. FanMaxRows : j # i =>
          /\ fanWork'[j] = fanWork[j]
          /\ j \in FanDone' <=> j \in FanDone
          /\ j \in FanUndone' <=> j \in FanUndone
    BY <1>5, <1>10
  <2>2. /\ i \in FanDone' <=> \E b \in DOMAIN fanWork'[i] : fanWork'[i][b] = "committed"
        /\ i \in FanUndone' => \E b \in DOMAIN fanWork'[i] : fanWork'[i][b] = "errored"
    <3>1. /\ i \in FanDone <=> \E b \in DOMAIN fanWork[i] : fanWork[i][b] = "committed"
          /\ i \in FanUndone => \E b \in DOMAIN fanWork[i] : fanWork[i][b] = "errored"
      BY <1>1 DEF FanInv, FanLeaves
    <3>2. QED
      BY <1>1, <1>5, <1>10, <3>1
  <2>3. QED
    BY <2>1, <2>2 DEF FanInv, FanLeaves
<1>12. FanEnds'
  <2>1. n \notin FanDone' /\ n # i
    <3>1. FanDone \subseteq FanRows
      BY DEF FanDone
    <3>2. QED
      BY <1>4, <1>10, <3>1
  <2>2. \A j \in FanRows : j # i => /\ j \in FanDone' <=> j \in FanDone
                                    /\ j \in FanUndone' <=> j \in FanUndone
    BY <1>10
  <2>3. QED
    BY <1>1, <1>3, <1>4, <2>1, <2>2 DEF FanInv, FanEnds
<1>13. QED
  BY <1>7, <1>8, <1>9, <1>11, <1>12 DEF FanInv

\* A drive ends with the outcome that its accounts add up to.
LEMMA FanFinalizeStep ==
    ASSUME FanInv, NEW i \in FanRows, FanFinalize(i)
    PROVE  FanInv'
<1>1. /\ fanRow[i].status = "running" /\ fanRow[i] \in FanRowType /\ i \in 1 .. FanMaxRows
      /\ DOMAIN fanWork[i] # {} /\ UNCHANGED <<fanPlan, fanToken, fanMade>>
      /\ \A a \in DOMAIN fanWork[i] : fanWork[i][a] \in
            IF fanRow[i].scope = NoScope THEN {"committed", "errored", "skipped"} ELSE FanEnded
  BY FanRowFacts DEF FanFinalize
<1>2. PICK status : status = FanOutcome(fanWork[i])
  OBVIOUS
<1>3. status \in {"completed", "partially_completed", "failed"}
  BY <1>2 DEF FanOutcome
<1> DEFINE row == [fanRow[i] EXCEPT !.status = status]
<1>4. /\ row \in FanRowType /\ row.key = fanRow[i].key /\ row.by = fanRow[i].by
      /\ row.scope = fanRow[i].scope /\ row.status = status /\ row.reaped = fanRow[i].reaped
  BY <1>1, <1>3 DEF FanRowType, FanStatuses
<1>5. fanRow' = [fanRow EXCEPT ![i] = row] /\ fanWork' = [fanWork EXCEPT ![i] = FanIdle]
  BY <1>2 DEF FanFinalize
<1> HIDE DEF row
<1>6. /\ fanRow' \in Seq(FanRowType) /\ Len(fanRow') = Len(fanRow) /\ FanRows' = FanRows
      /\ fanRow'[i] = row
      /\ \A j \in FanRows \ {i} : fanRow'[j] = fanRow[j]
      /\ FanScoped' /\ FanChildren' /\ FanDone' = FanDone /\ FanUndone' = FanUndone
  BY <1>1, <1>3, <1>4, <1>5, FanMarkStep
<1>7. FanIdle \in FanWorks /\ DOMAIN FanIdle = {}
  BY DEF FanIdle, FanWorks
<1>8. /\ fanWork' \in [1 .. FanMaxRows -> FanWorks] /\ DOMAIN fanWork'[i] = {}
      /\ \A j \in (1 .. FanMaxRows) \ {i} : fanWork'[j] = fanWork[j]
  BY <1>1, <1>5, <1>7, FanWorkSet DEF FanInv
<1>9. FanShape' /\ FanTokens'
  BY <1>1, <1>6, <1>8 DEF FanInv, FanShape, FanTokens
<1>10. FanAtWork'
  BY <1>6, <1>8 DEF FanInv, FanAtWork
<1>11. FanLeaves'
  BY <1>6, <1>8 DEF FanInv, FanLeaves
<1>12. /\ i \in FanDone <=> \E a \in DOMAIN fanWork[i] : fanWork[i][a] = "committed"
       /\ i \in FanUndone => \E a \in DOMAIN fanWork[i] : fanWork[i][a] = "errored"
  BY <1>1 DEF FanInv, FanLeaves
<1>13. /\ status = "completed" /\ fanRow[i].scope = NoScope => i \in FanDone \ FanUndone
       /\ status = "failed" => i \notin FanDone
       /\ status = "partially_completed" => i \in FanDone
  <2>1. /\ status = "completed" => \A a \in DOMAIN fanWork[i] : fanWork[i][a] \in {"bought", "committed"}
        /\ status = "failed" => \A a \in DOMAIN fanWork[i] : fanWork[i][a] \notin {"bought", "committed"}
        /\ status = "partially_completed" =>
              /\ \E a \in DOMAIN fanWork[i] : fanWork[i][a] \in {"bought", "committed"}
              /\ \E a \in DOMAIN fanWork[i] : fanWork[i][a] \notin {"bought", "committed"}
    BY <1>2 DEF FanOutcome
  <2>2. CASE fanRow[i].scope = NoScope
    BY <1>1, <1>12, <2>1, <2>2
  <2>3. CASE fanRow[i].scope # NoScope
    <3>1. DOMAIN fanWork[i] = {fanRow[i].scope}
      BY <1>1, <2>3 DEF FanInv, FanAtWork
    <3>2. \A a \in DOMAIN fanWork[i] : fanWork[i][a] # "committed"
      BY <1>1, <2>3 DEF FanEnded
    <3>3. QED
      BY <1>12, <2>1, <2>3, <3>1, <3>2
  <2>4. QED
    BY <2>2, <2>3
<1>14. FanEnds'
  BY <1>4, <1>6, <1>13 DEF FanInv, FanEnds
<1>15. QED
  BY <1>6, <1>9, <1>10, <1>11, <1>14 DEF FanInv

\* The process dies.
LEMMA FanCrashStep ==
    ASSUME FanInv, NEW i \in FanRows, FanCrash(i)
    PROVE  FanInv'
<1>1. FanIdle \in FanWorks /\ DOMAIN FanIdle = {}
  BY DEF FanIdle, FanWorks
<1>2. UNCHANGED <<fanPlan, fanRow, fanToken, fanMade>> /\ i \in 1 .. FanMaxRows
  BY FanRowFacts DEF FanCrash
<1>3. /\ fanWork' \in [1 .. FanMaxRows -> FanWorks] /\ DOMAIN fanWork'[i] = {}
      /\ \A j \in (1 .. FanMaxRows) \ {i} : fanWork'[j] = fanWork[j]
  BY <1>1, <1>2, FanWorkSet DEF FanInv, FanCrash
<1>4. FanDone' = FanDone /\ FanUndone' = FanUndone /\ FanRows' = FanRows
  BY <1>2 DEF FanDone, FanUndone, FanRows
<1>5. FanShape' /\ FanTokens' /\ FanScoped' /\ FanChildren' /\ FanEnds'
  BY <1>2, <1>3, <1>4 DEF FanInv, FanShape, FanTokens, FanScoped, FanChildren, FanEnds
<1>6. FanAtWork' /\ FanLeaves'
  BY <1>2, <1>3, <1>4 DEF FanInv, FanAtWork, FanLeaves
<1>7. QED
  BY <1>5, <1>6 DEF FanInv

\* The reaper fails a row that no drive is at work on.
LEMMA FanReapStep ==
    ASSUME FanInv, NEW i \in FanRows, FanReap(i)
    PROVE  FanInv'
<1>1. /\ fanRow[i].status = "running" /\ fanRow[i] \in FanRowType /\ i \in 1 .. FanMaxRows
      /\ DOMAIN fanWork[i] = {} /\ UNCHANGED <<fanPlan, fanWork, fanToken, fanMade>>
  BY FanRowFacts DEF FanReap
<1> DEFINE row == [fanRow[i] EXCEPT !.status = "failed", !.reaped = TRUE]
<1>2. /\ row \in FanRowType /\ row.key = fanRow[i].key /\ row.by = fanRow[i].by
      /\ row.scope = fanRow[i].scope /\ row.status = "failed" /\ row.reaped
  BY <1>1 DEF FanRowType, FanStatuses
<1>3. fanRow' = [fanRow EXCEPT ![i] = row]
  BY DEF FanReap
<1> HIDE DEF row
<1>4. /\ fanRow' \in Seq(FanRowType) /\ Len(fanRow') = Len(fanRow) /\ FanRows' = FanRows
      /\ fanRow'[i] = row
      /\ \A j \in FanRows \ {i} : fanRow'[j] = fanRow[j]
      /\ FanScoped' /\ FanChildren' /\ FanDone' = FanDone /\ FanUndone' = FanUndone
  BY <1>1, <1>2, <1>3, FanMarkStep
<1>5. FanShape' /\ FanTokens'
  BY <1>1, <1>4 DEF FanInv, FanShape, FanTokens
<1>6. FanAtWork' /\ FanLeaves'
  BY <1>1, <1>4 DEF FanInv, FanAtWork, FanLeaves
<1>7. FanEnds'
  BY <1>2, <1>4 DEF FanInv, FanEnds
<1>8. QED
  BY <1>4, <1>5, <1>6, <1>7 DEF FanInv

\* A failed row is marked and its successor goes to the end of the lineage.
LEMMA FanRetryStep ==
    ASSUME FanInv, NEW i \in FanRows, FanRetry(i)
    PROVE  FanInv'
<1> USE FanAssumption
<1>1. /\ fanRow[i].status = "failed" /\ fanRow[i] \in FanRowType /\ i \in 1 .. FanMaxRows
      /\ Len(fanRow) < FanMaxRows /\ UNCHANGED <<fanPlan, fanWork, fanToken, fanMade>>
  BY FanRowFacts DEF FanRetry
<1> DEFINE mark == [fanRow[i] EXCEPT !.retried = TRUE]
           q == [fanRow EXCEPT ![i] = mark]
           row == FanRow(fanRow[i].key, fanRow[i].scope, "pending", 0)
           n == Len(fanRow) + 1
<1>2. /\ mark \in FanRowType /\ mark.key = fanRow[i].key /\ mark.by = fanRow[i].by
      /\ mark.scope = fanRow[i].scope /\ mark.status = fanRow[i].status
      /\ mark.reaped = fanRow[i].reaped
  BY <1>1 DEF FanRowType
<1>3. /\ row \in FanRowType /\ row.key = fanRow[i].key /\ row.by = 0
      /\ row.scope = fanRow[i].scope /\ row.status = "pending"
  BY <1>1 DEF FanRow, FanRowType, FanStatuses
<1>4. fanRow' = Append([fanRow EXCEPT ![i] = mark], row)
  BY DEF FanRetry
<1> HIDE DEF mark, row
<1>5. /\ q \in Seq(FanRowType) /\ Len(q) = Len(fanRow) /\ q[i] = mark
      /\ \A j \in FanRows \ {i} : q[j] = fanRow[j]
  BY <1>2 DEF FanInv, FanShape, FanRows
<1>6. /\ fanRow' \in Seq(FanRowType) /\ Len(fanRow') = n
      /\ FanRows' = FanRows \cup {n} /\ n \notin FanRows
      /\ fanRow'[n] = row
      /\ \A j \in FanRows : fanRow'[j] = q[j]
  BY <1>3, <1>4, <1>5, FanAppends DEF FanInv
<1>7. n \in 1 .. FanMaxRows /\ Len(fanRow) \in Nat
  BY <1>1 DEF FanInv, FanShape
<1> HIDE DEF q, n
<1>8. /\ fanRow'[n].key = fanRow[i].key /\ fanRow'[n].scope = fanRow[i].scope
      /\ fanRow'[n].status = "pending" /\ fanRow'[n].by = 0
      /\ \A j \in FanRows : /\ fanRow'[j].key = fanRow[j].key
                            /\ fanRow'[j].scope = fanRow[j].scope
                            /\ fanRow'[j].status = fanRow[j].status
                            /\ fanRow'[j].reaped = fanRow[j].reaped
                            /\ fanRow'[j].by = fanRow[j].by
  BY <1>2, <1>3, <1>5, <1>6
<1>9. FanShape' /\ FanTokens'
  BY <1>1, <1>6, <1>7 DEF FanInv, FanShape, FanTokens, n
<1>10. FanScoped' /\ FanChildren'
  <2>1. FanScoped'
    BY <1>6, <1>8 DEF FanInv, FanScoped
  <2>2. FanChildren'
    BY <1>6, <1>8 DEF FanInv, FanChildren
  <2>3. QED
    BY <2>1, <2>2
<1>11. FanDone' = FanDone /\ FanUndone' = FanUndone
  <2>1. n # 0 /\ (\A j \in FanRows : j # 0 /\ fanRow[j].by # n)
    BY <1>6, <1>7, FanRowFacts DEF FanInv, FanChildren
  <2>2. QED
    BY <1>6, <1>8, <2>1 DEF FanDone, FanUndone
<1>12. FanAtWork' /\ FanLeaves'
  BY <1>1, <1>6, <1>8, <1>11 DEF FanInv, FanAtWork, FanLeaves
<1>13. FanEnds'
  <2>1. FanDone \subseteq FanRows
    BY DEF FanDone
  <2>2. QED
    BY <1>6, <1>8, <1>11, <2>1 DEF FanInv, FanEnds
<1>14. QED
  BY <1>9, <1>10, <1>12, <1>13 DEF FanInv

\* The accounts of the plan change, or nothing does.
LEMMA FanPlanStep ==
    ASSUME FanInv, FanSetAccounts \/ UNCHANGED fanVars
    PROVE  FanInv'
<1>1. UNCHANGED <<fanRow, fanWork, fanToken, fanMade>>
      /\ fanPlan' \subseteq FanAccounts /\ fanPlan' # {}
  BY DEF FanInv, FanShape, FanSetAccounts, fanVars
<1>2. FanDone' = FanDone /\ FanUndone' = FanUndone /\ FanRows' = FanRows
  BY <1>1 DEF FanDone, FanUndone, FanRows
<1>3. QED
  BY <1>1, <1>2 DEF FanInv, FanShape, FanTokens, FanScoped, FanChildren, FanEnds, FanAtWork,
                    FanLeaves

\* A fan-out that is killed, driven again and retried, with the accounts of its plan
\* changing in between, buys once for an account and saves on the root row the
\* outcome its account rows have (executeMultiAccount, reattachAccountScope,
\* retryPurchase), for any number of accounts and rows.
THEOREM FanHonest == FanSpec => []FanKeepsBooks
<1>1. FanInit => FanInv
  BY FanStarts
<1>2. FanInv /\ [FanNext]_fanVars => FanInv'
  <2> SUFFICES ASSUME FanInv, [FanNext]_fanVars PROVE FanInv'
    OBVIOUS
  <2>1. CASE FanSetAccounts \/ UNCHANGED fanVars
    BY <2>1, FanPlanStep
  <2>2. ASSUME NEW i \in FanRows,
               FanDrive(i) \/ FanFinalize(i) \/ FanCrash(i) \/ FanReap(i) \/ FanRetry(i)
        PROVE  FanInv'
    BY <2>2, FanDriveStep, FanFinalizeStep, FanCrashStep, FanReapStep, FanRetryStep
  <2>3. ASSUME NEW i \in FanRows, NEW a \in FanAccounts,
               FanBuy(i, a) \/ FanNoBuy(i, a) \/ FanSaveAccount(i, a)
        PROVE  FanInv'
    BY <2>3, FanCallStep, FanSaveStep
  <2>4. QED
    BY <2>1, <2>2, <2>3 DEF FanNext
<1>3. FanInv => FanKeepsBooks
  <2> SUFFICES ASSUME FanInv PROVE FanKeepsBooks
    OBVIOUS
  <2>1. FanBuysOnce
    BY DEF FanInv, FanShape, FanBuysOnce
  <2>2. \A j \in FanRows : fanRow[j].by # 0 => fanRow[j].status \in {"completed", "failed"}
    BY DEF FanInv, FanChildren
  <2>3. ASSUME NEW i \in FanRows
        PROVE  LET made == {fanRow[j].status : j \in {k \in FanRows : fanRow[k].by = i}}
               IN /\ made \subseteq {"completed", "failed"}
                  /\ i \in FanDone <=> "completed" \in made
                  /\ i \in FanUndone <=> "failed" \in made
    BY <2>2, FanRowFacts DEF FanDone, FanUndone
  <2>4. FanOutcomeHonest
    BY <2>3 DEF FanInv, FanEnds, FanOutcomeHonest
  <2>5. QED
    BY <2>1, <2>4 DEF FanKeepsBooks
<1>4. QED
  BY <1>1, <1>2, <1>3, PTL DEF FanSpec

-----------------------------------------------------------------------------
(* Submissions: what was submitted is neither offered again nor taken twice.   *)

SubRowType ==
    [user : SubUsers, rec : SubRecs, at : Nat, seen : Nat, retried : BOOLEAN,
     status : {"pending", "completed", "failed", "expired", "canceled"}]
SubTxType ==
    {SubIdle} \cup [stage : {"read", "insert"}, user : SubUsers, rec : SubRecs,
                    rows : SUBSET Nat, seen : Nat]

SubShape ==
    /\ subNow \in Nat
    /\ subRow \in Seq(SubRowType) /\ Len(subRow) <= SubMaxRows
    /\ subTx \in [SubCallers -> SubTxType]
    /\ IsFiniteSet(subSup)
SubDated == \A i \in SubRows : subRow[i].at <= subNow

\* A request that is pending or completed keeps the suppression it wrote.
SubKept == \A i \in SubRows :
    subRow[i].status \in SubLive /\ SubGrace # 0 =>
       [exec |-> i, rec |-> subRow[i].rec, expires |-> subRow[i].at + SubGrace] \in subSup

\* A transaction has read every pending row that its snapshot shows; once it may
\* insert, none of them is a duplicate.
SubReading == \A c \in SubCallers : subTx[c] # SubIdle =>
    /\ subTx[c].seen <= Len(subRow)
    /\ \A i \in SubRows : i <= subTx[c].seen /\ i \notin subTx[c].rows =>
          subRow[i].status # "pending"
    /\ \A i \in SubRows :
          (/\ subTx[c].stage = "insert" /\ i <= subTx[c].seen
           /\ subRow[i].user = subTx[c].user /\ subRow[i].rec = subTx[c].rec)
          => subRow[i].status # "pending" \/ subRow[i].at < subNow

\* A row that a retry did not write was no duplicate of a row its transaction saw.
SubUnretried == ~ (\E k \in SubRows : subRow[k].retried)
SubWritten == SubUnretried =>
    \A i, j \in SubRows :
       (/\ i < j /\ i <= subRow[j].seen
        /\ subRow[i].user = subRow[j].user /\ subRow[i].rec = subRow[j].rec
        /\ subRow[i].at = subRow[j].at)
       => subRow[i].status # "pending"

SubInv == SubShape /\ SubDated /\ SubKept /\ SubReading /\ SubWritten

\* What one row says.
LEMMA SubRowFacts ==
    ASSUME SubInv, NEW i \in SubRows
    PROVE  /\ subRow[i] \in SubRowType /\ i \in Nat /\ i <= Len(subRow) /\ Len(subRow) \in Nat
           /\ subRow[i].at \in Nat /\ subNow \in Nat /\ subRow[i].at <= subNow
           /\ subRow[i].seen \in Nat
<1>1. subRow[i] \in SubRowType /\ i \in Nat /\ i <= Len(subRow) /\ Len(subRow) \in Nat
  BY DEF SubInv, SubShape, SubRows
<1>2. QED
  BY <1>1 DEF SubInv, SubShape, SubDated, SubRowType

\* The clock and the check: no row is written.
LEMMA SubReadStep ==
    ASSUME SubInv,
           \/ SubTick
           \/ \E c \in SubCallers :
                 \/ \E user \in SubUsers, rec \in SubRecs : SubRead(c, user, rec)
                 \/ SubCheck(c)
           \/ UNCHANGED subVars
    PROVE  SubInv'
<1> USE SubAssumption
<1>1. CASE SubTick
  <2>1. UNCHANGED <<subRow, subSup, subTx>> /\ subNow \in Nat /\ subNow' = subNow + 1
        /\ SubRows' = SubRows
    BY <1>1 DEF SubTick, SubInv, SubShape, SubRows
  <2>2. \A i \in SubRows : subRow[i].at \in Nat /\ subRow[i].at <= subNow
    BY SubRowFacts
  <2>3. SubShape' /\ SubDated'
    BY <2>1, <2>2 DEF SubInv, SubShape, SubDated
  <2>4. SubKept' /\ SubWritten'
    BY <2>1 DEF SubInv, SubKept, SubWritten, SubUnretried
  <2>5. SubReading'
    BY <2>1, <2>2 DEF SubInv, SubReading
  <2>6. QED
    BY <2>3, <2>4, <2>5 DEF SubInv
<1>2. ASSUME NEW c \in SubCallers, NEW user \in SubUsers, NEW rec \in SubRecs,
             SubRead(c, user, rec)
      PROVE  SubInv'
  <2> DEFINE tx == [stage |-> "read", user |-> user, rec |-> rec, rows |-> SubPendingRows,
                    seen |-> Len(subRow)]
  <2>1. UNCHANGED <<subNow, subRow, subSup>> /\ subTx' = [subTx EXCEPT ![c] = tx]
        /\ SubRows' = SubRows
    BY <1>2 DEF SubRead, SubRows
  <2>2. /\ tx \in SubTxType /\ tx.stage = "read" /\ tx.rows = SubPendingRows
        /\ tx.seen = Len(subRow) /\ Len(subRow) \in Nat
    BY DEF SubInv, SubShape, SubTxType, SubPendingRows, SubRows
  <2> HIDE DEF tx
  <2>3. SubShape' /\ SubDated' /\ SubKept' /\ SubWritten'
    BY <2>1, <2>2 DEF SubInv, SubShape, SubDated, SubKept, SubWritten, SubUnretried
  <2>4. SubReading'
    BY <2>1, <2>2 DEF SubInv, SubShape, SubReading, SubPendingRows
  <2>5. QED
    BY <2>3, <2>4 DEF SubInv
<1>3. ASSUME NEW c \in SubCallers, SubCheck(c) PROVE SubInv'
  <2>1. UNCHANGED <<subNow, subRow, subSup>> /\ SubRows' = SubRows /\ subTx[c].stage = "read"
    BY <1>3 DEF SubCheck, SubRows
  <2>2. subTx[c] \in SubTxType /\ subTx[c] # SubIdle
    BY <2>1 DEF SubInv, SubShape, SubIdle
  <2>3. CASE subTx' = [subTx EXCEPT ![c] = SubIdle]
    BY <2>1, <2>3 DEF SubInv, SubShape, SubDated, SubKept, SubWritten, SubUnretried, SubReading,
                      SubTxType
  <2>4. CASE /\ subTx' = [subTx EXCEPT ![c] = [@ EXCEPT !.stage = "insert"]]
             /\ ~ \E i \in subTx[c].rows : SubDuplicate(i, subTx[c].user, subTx[c].rec)
    <3> DEFINE tx == [subTx[c] EXCEPT !.stage = "insert"]
    <3>1. /\ tx \in SubTxType /\ tx.stage = "insert" /\ tx.rows = subTx[c].rows
          /\ tx.seen = subTx[c].seen /\ tx.user = subTx[c].user /\ tx.rec = subTx[c].rec
      BY <2>2 DEF SubTxType
    <3>2. subTx' = [subTx EXCEPT ![c] = tx]
      BY <2>4
    <3> HIDE DEF tx
    <3>3. SubShape' /\ SubDated' /\ SubKept' /\ SubWritten'
      BY <2>1, <3>1, <3>2 DEF SubInv, SubShape, SubDated, SubKept, SubWritten, SubUnretried
    <3>4. ASSUME NEW i \in SubRows, i <= tx.seen,
                 subRow[i].user = tx.user, subRow[i].rec = tx.rec
          PROVE  subRow[i].status # "pending" \/ subRow[i].at < subNow
      <4>1. subRow[i].at \in Nat /\ subNow \in Nat
        BY SubRowFacts
      <4>2. i \notin subTx[c].rows => subRow[i].status # "pending"
        BY <2>2, <3>1, <3>4 DEF SubInv, SubReading
      <4>3. i \in subTx[c].rows => ~SubDuplicate(i, subTx[c].user, subTx[c].rec)
        BY <2>4
      <4>4. QED
        BY <3>1, <3>4, <4>1, <4>2, <4>3 DEF SubDuplicate
    <3>5. /\ tx.seen <= Len(subRow)
          /\ \A i \in SubRows : i <= tx.seen /\ i \notin tx.rows => subRow[i].status # "pending"
      BY <2>2, <3>1 DEF SubInv, SubReading
    <3>6. SubReading'
      BY <2>1, <3>2, <3>4, <3>5 DEF SubInv, SubShape, SubReading
    <3>7. QED
      BY <3>3, <3>6 DEF SubInv
  <2>5. QED
    BY <1>3, <2>3, <2>4 DEF SubCheck
<1>4. CASE UNCHANGED subVars
  BY <1>4 DEF subVars, SubInv, SubShape, SubDated, SubKept, SubWritten, SubUnretried, SubReading,
              SubRows
<1>5. QED
  BY <1>1, <1>2, <1>3, <1>4

\* A pending row leaves; a suppression goes with its own row only.
LEMMA SubLeaveStep ==
    ASSUME SubInv, NEW i \in SubRows,
           NEW status \in {"completed", "failed", "expired", "canceled"}, SubLeave(i, status),
           \/ UNCHANGED subSup
           \/ status = "canceled" /\ subSup' = {s \in subSup : s.exec # i}
    PROVE  SubInv'
<1> DEFINE row == [subRow[i] EXCEPT !.status = status]
<1>1. /\ subRow[i].status = "pending" /\ subRow[i] \in SubRowType
      /\ UNCHANGED <<subNow, subTx>> /\ subRow' = [subRow EXCEPT ![i] = row]
  BY DEF SubLeave, SubInv, SubShape, SubRows
<1>2. /\ row \in SubRowType /\ row.user = subRow[i].user /\ row.rec = subRow[i].rec
      /\ row.at = subRow[i].at /\ row.seen = subRow[i].seen /\ row.status = status
      /\ row.retried <=> subRow[i].retried
  BY <1>1 DEF SubRowType
<1> HIDE DEF row
<1>3. /\ subRow' \in Seq(SubRowType) /\ Len(subRow') = Len(subRow) /\ SubRows' = SubRows
      /\ subRow'[i] = row /\ \A j \in SubRows \ {i} : subRow'[j] = subRow[j]
  BY <1>1, <1>2 DEF SubInv, SubShape, SubRows
<1>4. \A j \in SubRows : /\ subRow'[j].user = subRow[j].user /\ subRow'[j].rec = subRow[j].rec
                         /\ subRow'[j].at = subRow[j].at /\ subRow'[j].seen = subRow[j].seen
                         /\ subRow'[j].status = "pending" => subRow[j].status = "pending"
  BY <1>1, <1>2, <1>3
<1>5. IsFiniteSet(subSup')
  <2>1. subSup' \subseteq subSup
    OBVIOUS
  <2>2. QED
    BY <2>1, FS_Subset DEF SubInv, SubShape
<1>6. SubShape' /\ SubDated'
  BY <1>1, <1>3, <1>4, <1>5 DEF SubInv, SubShape, SubDated
<1>7. SubKept'
  <2>1. ASSUME NEW j \in SubRows, subRow'[j].status \in SubLive, SubGrace # 0
        PROVE  [exec |-> j, rec |-> subRow[j].rec, expires |-> subRow[j].at + SubGrace] \in subSup'
    <3>1. subRow[j].status \in SubLive
      BY <1>1, <1>2, <1>3, <2>1 DEF SubLive
    <3>2. [exec |-> j, rec |-> subRow[j].rec, expires |-> subRow[j].at + SubGrace] \in subSup
      BY <2>1, <3>1 DEF SubInv, SubKept
    <3>3. j = i => status # "canceled"
      BY <1>2, <1>3, <2>1 DEF SubLive
    <3>4. QED
      BY <3>2, <3>3
  <2>2. QED
    BY <1>3, <1>4, <2>1 DEF SubKept
<1>8. SubReading'
  BY <1>1, <1>3, <1>4 DEF SubInv, SubReading
<1>9. SubWritten'
  <2>1. \A j \in SubRows : subRow'[j].retried <=> subRow[j].retried
    BY <1>2, <1>3
  <2>2. SubUnretried' => SubUnretried
    BY <1>3, <2>1 DEF SubUnretried
  <2>3. QED
    BY <1>3, <1>4, <2>2 DEF SubInv, SubWritten
<1>10. QED
  BY <1>6, <1>7, <1>8, <1>9 DEF SubInv

\* A row at the end of the executions.
LEMMA SubAppends ==
    ASSUME SubShape, NEW row \in SubRowType, NEW q \in Seq(SubRowType), Len(q) = Len(subRow),
           subRow' = Append(q, row)
    PROVE  /\ subRow' \in Seq(SubRowType) /\ Len(subRow') = Len(subRow) + 1
           /\ Len(subRow) \in Nat
           /\ SubRows' = SubRows \cup {Len(subRow) + 1} /\ Len(subRow) + 1 \notin SubRows
           /\ subRow'[Len(subRow) + 1] = row
           /\ \A j \in SubRows : subRow'[j] = q[j]
  BY DEF SubShape, SubRows

\* A request is inserted with its suppressions.
LEMMA SubInsertStep ==
    ASSUME SubInv, NEW c \in SubCallers, SubInsert(c)
    PROVE  SubInv'
<1> USE SubAssumption
<1> DEFINE n == Len(subRow) + 1
           row == SubPendingRequest(subTx[c].user, subTx[c].rec, subTx[c].seen)
<1>1. /\ subTx[c].stage = "insert" /\ Len(subRow) < SubMaxRows /\ subNow' = subNow
      /\ subTx' = [subTx EXCEPT ![c] = SubIdle]
  BY DEF SubInsert
<1>2. /\ subRow' = Append(subRow, row)
      /\ subSup' = subSup \cup SubSuppressions(n, subTx[c].rec)
  BY DEF SubInsert
<1>3. /\ subTx[c] # SubIdle /\ subTx[c].user \in SubUsers /\ subTx[c].rec \in SubRecs
      /\ subTx[c].seen \in Nat
  BY <1>1 DEF SubInv, SubShape, SubTxType, SubIdle
<1>4. /\ row \in SubRowType /\ row.user = subTx[c].user /\ row.rec = subTx[c].rec
      /\ row.at = subNow /\ row.seen = subTx[c].seen /\ row.status = "pending"
  BY <1>3 DEF SubPendingRequest, SubRowType, SubInv, SubShape
<1> HIDE DEF row
<1>5. /\ subRow' \in Seq(SubRowType) /\ Len(subRow') = n /\ Len(subRow) \in Nat
      /\ SubRows' = SubRows \cup {n} /\ n \notin SubRows
      /\ subRow'[n] = row /\ \A j \in SubRows : subRow'[j] = subRow[j]
  BY <1>2, <1>4 DEF SubInv, SubShape, SubRows
<1>6. /\ n \in Nat /\ n <= SubMaxRows /\ Len(subRow) < n
      /\ \A j \in SubRows : j <= Len(subRow) /\ j \in Nat /\ j < n
  BY <1>1, <1>5, SubRowFacts DEF SubInv, SubShape
<1> HIDE DEF n
<1>7. IsFiniteSet(subSup')
  <2>1. IsFiniteSet(SubSuppressions(n, subTx[c].rec))
    BY FS_EmptySet, FS_Singleton DEF SubSuppressions
  <2>2. QED
    BY <1>2, <2>1, FS_Union DEF SubInv, SubShape
<1>8. SubShape' /\ SubDated'
  <2>1. subTx' \in [SubCallers -> SubTxType]
    BY <1>1 DEF SubInv, SubShape, SubTxType
  <2>2. SubShape'
    BY <1>1, <1>5, <1>6, <1>7, <2>1 DEF SubInv, SubShape
  <2>3. subNow \in Nat /\ \A j \in SubRows : subRow[j].at <= subNow
    BY DEF SubInv, SubShape, SubDated
  <2>4. SubDated'
    BY <1>1, <1>4, <1>5, <2>3 DEF SubDated
  <2>5. QED
    BY <2>2, <2>4
<1>9. SubKept'
  <2>1. SubGrace # 0 => [exec |-> n, rec |-> subRow'[n].rec,
                         expires |-> subRow'[n].at + SubGrace] \in subSup'
    BY <1>2, <1>4, <1>5 DEF SubSuppressions
  <2>2. subSup \subseteq subSup'
    BY <1>2
  <2>3. QED
    BY <1>5, <2>1, <2>2 DEF SubInv, SubKept
<1>10. SubReading'
  <2>1. ASSUME NEW d \in SubCallers, subTx'[d] # SubIdle
        PROVE  subTx'[d] = subTx[d] /\ subTx[d].seen \in Nat
    BY <1>1, <2>1 DEF SubInv, SubShape, SubTxType
  <2>2. ASSUME NEW d \in SubCallers, subTx[d] # SubIdle
        PROVE  /\ subTx[d].seen <= Len(subRow)
               /\ subTx[d].seen <= Len(subRow')
               /\ ~ n <= subTx[d].seen
    BY <1>5, <1>6, <2>2 DEF SubInv, SubReading, SubShape, SubTxType
  <2>3. QED
    BY <1>1, <1>5, <2>1, <2>2 DEF SubInv, SubReading
<1>11. SubWritten'
  <2>1. ASSUME NEW i \in SubRows, i <= subTx[c].seen,
               subRow[i].user = subTx[c].user, subRow[i].rec = subTx[c].rec, subRow[i].at = subNow
        PROVE  subRow[i].status # "pending"
    BY <1>1, <1>3, <2>1 DEF SubInv, SubReading, SubShape
  <2>2. SubUnretried' => SubUnretried
    BY <1>5 DEF SubUnretried
  <2>3. \A j \in SubRows : ~ n < j
    BY <1>6
  <2>4. QED
    BY <1>4, <1>5, <2>1, <2>2, <2>3 DEF SubInv, SubWritten
<1>12. QED
  BY <1>8, <1>9, <1>10, <1>11 DEF SubInv

\* A failed row is retried: its successor has suppressions of its own.
LEMMA SubRetryStep ==
    ASSUME SubInv, NEW i \in SubRows, SubRetry(i)
    PROVE  SubInv'
<1> USE SubAssumption
<1> DEFINE n == Len(subRow) + 1
           mark == [subRow[i] EXCEPT !.retried = TRUE]
           q == [subRow EXCEPT ![i] = mark]
           row == SubPendingRequest(subRow[i].user, subRow[i].rec, Len(subRow))
<1>1. Len(subRow) < SubMaxRows /\ subNow' = subNow /\ subTx' = subTx
  BY DEF SubRetry
<1>2. /\ subRow' = Append(q, row) /\ subRow[i] \in SubRowType
      /\ subSup' = subSup \cup SubSuppressions(n, subRow[i].rec)
  BY DEF SubRetry, SubInv, SubShape, SubRows
<1>3. /\ mark \in SubRowType /\ mark.user = subRow[i].user /\ mark.rec = subRow[i].rec
      /\ mark.at = subRow[i].at /\ mark.seen = subRow[i].seen
      /\ mark.status = subRow[i].status /\ mark.retried
  BY <1>2 DEF SubRowType
<1>4. /\ row \in SubRowType /\ row.rec = subRow[i].rec /\ row.at = subNow
  BY <1>2 DEF SubPendingRequest, SubRowType, SubInv, SubShape
<1> HIDE DEF row, mark
<1>5. /\ q \in Seq(SubRowType) /\ Len(q) = Len(subRow) /\ q[i] = mark
      /\ \A j \in SubRows \ {i} : q[j] = subRow[j]
  BY <1>3 DEF SubInv, SubShape, SubRows
<1> HIDE DEF q
<1>6. /\ subRow' \in Seq(SubRowType) /\ Len(subRow') = n /\ Len(subRow) \in Nat
      /\ SubRows' = SubRows \cup {n} /\ n \notin SubRows
      /\ subRow'[n] = row /\ \A j \in SubRows : subRow'[j] = q[j]
  BY <1>2, <1>4, <1>5, SubAppends DEF SubInv
<1>7. n \in Nat /\ n <= SubMaxRows /\ Len(subRow) < n
  BY <1>1, <1>6 DEF SubInv, SubShape
<1> HIDE DEF n
<1>8. \A j \in SubRows : /\ subRow'[j].user = subRow[j].user /\ subRow'[j].rec = subRow[j].rec
                         /\ subRow'[j].at = subRow[j].at /\ subRow'[j].seen = subRow[j].seen
                         /\ subRow'[j].status = subRow[j].status
  BY <1>3, <1>5, <1>6, SubRowFacts
<1>9. IsFiniteSet(subSup')
  <2>1. IsFiniteSet(SubSuppressions(n, subRow[i].rec))
    BY FS_EmptySet, FS_Singleton DEF SubSuppressions
  <2>2. QED
    BY <1>2, <2>1, FS_Union DEF SubInv, SubShape
<1>10. SubShape' /\ SubDated'
  <2>1. SubShape'
    BY <1>1, <1>6, <1>9, <1>7 DEF SubInv, SubShape
  <2>2. subNow \in Nat /\ \A j \in SubRows : subRow[j].at <= subNow
    BY DEF SubInv, SubShape, SubDated
  <2>3. SubDated'
    BY <1>1, <1>4, <1>6, <1>8, <2>2 DEF SubDated
  <2>4. QED
    BY <2>1, <2>3
<1>11. SubKept'
  <2>1. SubGrace # 0 => [exec |-> n, rec |-> subRow'[n].rec,
                         expires |-> subRow'[n].at + SubGrace] \in subSup'
    BY <1>2, <1>4, <1>6 DEF SubSuppressions
  <2>2. subSup \subseteq subSup'
    BY <1>2
  <2>3. QED
    BY <1>6, <1>8, <2>1, <2>2 DEF SubInv, SubKept
<1>12. SubReading'
  <2>1. ASSUME NEW d \in SubCallers, subTx[d] # SubIdle
        PROVE  subTx[d].seen <= Len(subRow') /\ ~ n <= subTx[d].seen
    BY <1>6, <1>7, <2>1 DEF SubInv, SubReading, SubShape, SubTxType
  <2>2. QED
    BY <1>1, <1>6, <1>8, <2>1 DEF SubInv, SubReading
<1>13. SubWritten'
  <2>1. subRow'[i].retried /\ i \in SubRows'
    BY <1>3, <1>5, <1>6
  <2>2. QED
    BY <2>1 DEF SubWritten, SubUnretried
<1>14. QED
  BY <1>10, <1>11, <1>12, <1>13 DEF SubInv

\* The rows of a recommendation that are live and recent, and the suppressions that
\* take them off.
LEMMA SubHides ==
    ASSUME SubInv, NEW rec \in SubRecs
    PROVE  SubShown(rec, SubMaxRows) + Cardinality({i \in SubRows : subRow[i].rec = rec
             /\ subRow[i].status \in SubLive /\ subRow[i].at + SubGrace > subNow}) <= SubMaxRows
<1> USE SubAssumption
<1> DEFINE live == {i \in SubRows : subRow[i].rec = rec /\ subRow[i].status \in SubLive
                                    /\ subRow[i].at + SubGrace > subNow}
           sup == {s \in subSup : s.rec = rec /\ s.expires > subNow}
           own == [i \in live |-> [exec |-> i, rec |-> subRow[i].rec,
                                   expires |-> subRow[i].at + SubGrace]]
<1>1. IsFiniteSet(sup) /\ Cardinality(sup) \in Nat
  BY FS_Subset, FS_CardinalityType DEF SubInv, SubShape
<1>2. Len(subRow) \in Nat /\ SubRows = 1 .. Len(subRow) /\ Len(subRow) <= SubMaxRows
  BY DEF SubInv, SubShape, SubRows
<1>3. IsFiniteSet(SubRows) /\ Cardinality(SubRows) = Len(subRow)
  <2>1. PICK k \in Nat : k = Len(subRow)
    BY <1>2
  <2>2. IsFiniteSet(1 .. k) /\ Cardinality(1 .. k) = IF 1 > k THEN 0 ELSE k - 1 + 1
    BY FS_Interval
  <2>3. QED
    BY <1>2, <2>1, <2>2
<1>4. /\ IsFiniteSet(live) /\ Cardinality(live) \in Nat
      /\ Cardinality(live) <= Len(subRow)
  BY <1>3, FS_Subset, FS_CardinalityType
<1>5. \A i \in live : own[i] \in sup /\ own[i].exec = i
  <2>1. \A i \in SubRows : subRow[i].at \in Nat /\ subRow[i].at <= subNow /\ subNow \in Nat
    BY SubRowFacts
  <2>2. \A i \in live : SubGrace # 0
    BY <2>1
  <2>3. QED
    BY <2>2 DEF SubInv, SubKept
<1>6. own \in [live -> sup] /\ \A i, j \in live : own[i] = own[j] => i = j
  <2>1. own \in [live -> sup]
    BY <1>5
  <2>2. QED
    BY <1>5, <2>1
<1>7. own \in Injection(live, sup)
  BY <1>6 DEF Injection, IsInjective
<1>8. Cardinality(live) <= Cardinality(sup)
  BY <1>1, <1>7, FS_Injection DEF ExistsInjection
<1>9. Cardinality(sup) = SubSuppressed(rec)
  BY DEF SubSuppressed
<1> HIDE DEF live, sup
<1>10. SubShown(rec, SubMaxRows) + Cardinality(live) <= SubMaxRows
  BY <1>1, <1>2, <1>4, <1>8, <1>9 DEF SubShown
<1>11. QED
  BY <1>10 DEF live

\* What a user submitted is taken off what is offered for as long as it is live,
\* and a submit that starts after the same one committed is collapsed onto it
\* (persistExecutionAndSuppressions, applySuppressions), for any number of users,
\* recommendations and concurrent requests.
THEOREM SubmitSound == SubSpec => []SubSound
<1>1. SubInit => SubInv
  <2> SUFFICES ASSUME SubInit PROVE SubInv
    OBVIOUS
  <2>1. subRow = <<>> /\ SubRows = {} /\ Len(subRow) = 0 /\ subRow \in Seq(SubRowType)
    BY DEF SubInit, SubRows
  <2>2. IsFiniteSet(subSup)
    BY FS_EmptySet DEF SubInit
  <2>3. QED
    BY <2>1, <2>2, SubAssumption DEF SubInit, SubInv, SubShape, SubDated, SubKept, SubReading,
                                     SubWritten, SubTxType
<1>2. SubInv /\ [SubNext]_subVars => SubInv'
  <2> SUFFICES ASSUME SubInv, [SubNext]_subVars PROVE SubInv'
    OBVIOUS
  <2>1. ASSUME NEW c \in SubCallers, SubInsert(c) PROVE SubInv'
    BY <2>1, SubInsertStep
  <2>2. ASSUME NEW i \in SubRows, SubRetry(i) PROVE SubInv'
    BY <2>2, SubRetryStep
  <2>3. ASSUME NEW i \in SubRows, SubCancel(i) \/ SubCancelPlanned(i) PROVE SubInv'
    BY <2>3, SubLeaveStep DEF SubCancel, SubCancelPlanned
  <2>4. ASSUME NEW i \in SubRows, NEW status \in {"completed", "failed", "expired"},
               SubEnd(i, status)
        PROVE  SubInv'
    BY <2>4, SubLeaveStep DEF SubEnd
  <2>5. QED
    BY <2>1, <2>2, <2>3, <2>4, SubReadStep DEF SubNext
<1>3. SubInv => SubSound
  <2> SUFFICES ASSUME SubInv PROVE SubSound
    OBVIOUS
  <2>1. SubLiveHidden
    BY SubHides DEF SubLiveHidden
  <2>2. SubSequentialOnce
    BY DEF SubInv, SubWritten, SubUnretried, SubSequentialOnce
  <2>3. QED
    BY <2>1, <2>2 DEF SubSound
<1>4. QED
  BY <1>1, <1>2, <1>3, PTL DEF SubSpec

-----------------------------------------------------------------------------
(* Revocation: the refund of a purchase can be found.                          *)

RevStages == {"idle", "read", "quoted", "flipped", "returned", "rejected"}

RevShape ==
    /\ revRow = [revoked |-> revRow.revoked, inFlight |-> revRow.inFlight]
    /\ revReq \in [RevCallers -> [stage : RevStages]]
    /\ revPosts \in [all : Nat, late : Nat]

\* Requests run one at a time.
RevAlone == \A c, d \in RevCallers : RevBusy(c) /\ RevBusy(d) => c = d

\* From the flip to the answer the flag is up; no request still on its way to the
\* Return call, nor one that was refused, finds the reservation taken back.
RevFlagged ==
    \A c \in RevCallers :
        /\ revReq[c].stage \in {"flipped", "returned"} => revRow.inFlight
        /\ revReq[c].stage \in {"read", "quoted", "flipped", "rejected"} => ~revReturned

\* What holds until something else goes wrong.
RevFaultless == revFault = {} =>
    /\ RevAlone
    /\ RevFlagged
    /\ revReturned => revRow.revoked \/ revRow.inFlight
    /\ revPosts.late = 0

RevInv == RevShape /\ RevFaultless

\* Nobody has asked for the return yet.
LEMMA RevStarts == RevInit => RevInv
  BY DEF RevInit, RevInv, RevShape, RevFaultless, RevAlone, RevFlagged, RevBusy, RevIdle,
         RevStages

\* A step of a request keeps the fields of its record.
LEMMA RevStepShape ==
    ASSUME RevShape, NEW c \in RevCallers, NEW s \in RevStages, RevStep(c, s)
    PROVE  /\ revReq' \in [RevCallers -> [stage : RevStages]]
           /\ revReq'[c].stage = s
           /\ \A d \in RevCallers \ {c} : revReq'[d] = revReq[d]
  BY DEF RevShape, RevStep

\* A write to one field of the row leaves the other.
LEMMA RevRowShape ==
    ASSUME RevShape
    PROVE  \A b \in BOOLEAN :
                /\ [revRow EXCEPT !.inFlight = b] = [revoked |-> revRow.revoked, inFlight |-> b]
                /\ [revRow EXCEPT !.revoked = b] = [revoked |-> b, inFlight |-> revRow.inFlight]
  BY DEF RevShape

\* Each step of the requests, of the sweep and of Azure keeps the invariant: a new
\* fault voids what follows it, an old one stays.
LEMMA RevStays == RevInv /\ [RevNext]_revVars => RevInv'
<1> SUFFICES ASSUME RevInv, [RevNext]_revVars PROVE RevInv'
  OBVIOUS
<1> USE DEF RevInv
<1>1. CASE UNCHANGED revVars
  BY <1>1 DEF revVars, RevShape, RevFaultless, RevAlone, RevFlagged, RevBusy
<1>2. CASE RevSweepList \/ RevSweepMark \/ RevSweepFail \/ RevWindowCloses
  BY <1>2 DEF RevSweepList, RevSweepMark, RevSweepFail, RevWindowCloses, RevMarked,
              RevShape, RevFaultless, RevAlone, RevFlagged, RevBusy
<1>3. ASSUME NEW c \in RevCallers,
             RevRead(c) \/ RevQuote(c) \/ RevFlip(c) \/ RevReturn(c)
               \/ RevReject(c) \/ RevPersist(c) \/ RevCrash(c)
      PROVE  RevInv'
  <2> USE DEF RevShape, RevFaultless, RevAlone, RevFlagged, RevBusy, RevStages
  <2>1. CASE RevRead(c)
    <3>1. revReq[c].stage = "idle" /\ RevStep(c, "read")
      BY <2>1 DEF RevRead, RevIdle
    <3>2. revFault' = {} => revFault = {} /\ \A d \in RevCallers : ~RevBusy(d)
      BY <2>1 DEF RevRead
    <3>3. QED
      BY <2>1, <3>1, <3>2, RevStepShape DEF RevRead
  <2>2. CASE RevQuote(c)
    BY <2>2, RevStepShape DEF RevQuote
  <2>3. CASE RevFlip(c)
    <3>1. revReq[c].stage = "quoted" /\ RevStep(c, "flipped")
          /\ UNCHANGED <<revReturned, revPosts>>
      BY <2>3 DEF RevFlip
    <3>2. \/ revRow' = [revoked |-> revRow.revoked, inFlight |-> TRUE] /\ UNCHANGED revFault
          \/ revFault' # {} /\ UNCHANGED revRow
      BY <2>3, RevRowShape DEF RevFlip
    <3>3. RevShape'
      BY <3>1, <3>2, RevStepShape
    <3>4. RevFaultless'
      BY <3>1, <3>2, RevStepShape
    <3>5. QED
      BY <3>3, <3>4
  <2>4. CASE RevReturn(c)
    <3>1. /\ revReq[c].stage = "flipped" /\ UNCHANGED revRow
          /\ revPosts' = [all |-> revPosts.all + 1,
                          late |-> revPosts.late + IF revReturned THEN 1 ELSE 0]
          /\ \/ /\ revReturned' = TRUE
                /\ \/ RevStep(c, "returned") /\ UNCHANGED revFault
                   \/ RevStep(c, "rejected") /\ revFault' # {}
             \/ RevStep(c, "rejected") /\ UNCHANGED <<revReturned, revFault>>
      BY <2>4 DEF RevReturn
    <3>2. RevShape'
      BY <3>1, RevStepShape
    <3>3. RevFaultless'
      BY <3>1, RevStepShape
    <3>4. QED
      BY <3>2, <3>3
  <2>5. CASE RevReject(c)
    <3>1. /\ revReq[c].stage = "rejected" /\ RevStep(c, "idle")
          /\ UNCHANGED <<revReturned, revPosts, revFault>>
          /\ revRow' = revRow \/ revRow' = [revoked |-> revRow.revoked, inFlight |-> FALSE]
      BY <2>5, RevRowShape DEF RevReject
    <3>2. RevShape'
      BY <3>1, RevStepShape
    <3>3. RevFaultless'
      BY <3>1, RevStepShape
    <3>4. QED
      BY <3>2, <3>3
  <2>6. CASE RevPersist(c)
    BY <2>6, RevStepShape DEF RevPersist, RevMarked
  <2>7. CASE RevCrash(c)
    BY <2>7, RevStepShape DEF RevCrash
  <2>8. QED
    BY <1>3, <2>1, <2>2, <2>3, <2>4, <2>5, <2>6, <2>7
<1>4. QED
  BY <1>1, <1>2, <1>3 DEF RevNext

\* A refund can always be traced from its row, and no later request asks for it
\* again (loadAndRevokePurchaseHistory, executeAzureReturn, the sweep): for any
\* number of requests, unless two faults meet.
THEOREM RefundSound == RevSpec => []RevRefundSound
<1>1. RevInv => RevRefundSound
  BY DEF RevInv, RevFaultless, RevRefundSound, RevRefundTraceable, RevNotResubmitted
<1>2. QED
  BY RevStarts, RevStays, <1>1, PTL DEF RevSpec

-----------------------------------------------------------------------------
(* Ladder: what is scheduled stays within what the configuration allows.          *)

\* A run under way: at the gate, about to read, or with what it has read.
LadRunType ==
    {LadIdle}
    \cup [stage : {"gate", "read"}, cfg : LadConfigs, age : {0, 1}]
    \cup [stage : {"save"}, cfg : LadConfigs, age : {0, 1}, low : LadFloors \cup {LadUnknown},
          net : LadHeld, idle : BOOLEAN, inFlight : Nat]
LadShape ==
    /\ ladCfg \in LadConfigs
    /\ ladEnv \in [low : LadFloors \cup {LadUnknown}, net : LadHeld, idle : BOOLEAN]
    /\ ladSched \in [LadLayers -> Nat]
    /\ ladAge \in 0 .. LadAgeless
    /\ ladRun \in [LadRunners -> LadRunType]

\* The run is past the gate.
LadPast(r) == LadBusy(r) /\ ladRun[r].stage \in {"read", "save"}

\* Until the lock is lost: whoever runs holds it, is past the gate only when the
\* window of its cadence is over, and plans with what is scheduled.
LadAlone == \A r \in LadRunners : LadBusy(r) => ladLock = {r}
LadWaited ==
    \A r \in LadRunners : LadPast(r) =>
        CadenceTicks(ladRun[r].cfg.cadence) <= ladAge - ladRun[r].age
LadNetted ==
    \A r \in LadRunners : LadBusy(r) /\ ladRun[r].stage = "save" =>
        ladRun[r].inFlight = LadTotal(ladSched)

LadInv == LadShape /\ (~ladLost => LadAlone /\ LadWaited /\ LadNetted)

\* The sum over the two layers.
LEMMA LadTotalIs ==
    ASSUME NEW amounts \in [LadLayers -> Nat]
    PROVE  /\ LadTotal(amounts) = amounts[Buffer] + amounts[Flex]
           /\ LadTotal(amounts) \in Nat
<1> DEFINE S == LadLayers
<1>1. /\ DOMAIN amounts = S /\ \A l \in S : amounts[l] \in Nat
      /\ Buffer \in S /\ Flex \in S \ {Buffer} /\ (S \ {Buffer}) \ {Flex} = {}
  BY DEF LadLayers, Buffer, Flex
<1>2. IsFiniteSet(S) /\ IsFiniteSet(S \ {Buffer}) /\ IsFiniteSet({})
  BY FS_EmptySet, FS_AddElement, FS_Subset DEF LadLayers
<1> HIDE DEF S
<1>3. LadTotal(amounts) = Total(amounts, S)
  <2> DEFINE g == CHOOSE g : SumsUp(amounts, S, g)
  <2>1. \E k : SumsUp(amounts, S, k)
    BY <1>1, <1>2, SumsExist
  <2>2. SumsUp(amounts, S, g)
    BY <2>1
  <2>3. FoldFunctionOnSet(+, 0, amounts, S) = g[S]
    BY Zenon DEF FoldFunctionOnSet, MapThenFoldSet, SumsUp, Pick
  <2> HIDE DEF g
  <2>4. Total(amounts, S) = g[S]
    BY <1>1, <1>2, <2>2, TotalIs
  <2>5. LadTotal(amounts) = FoldFunctionOnSet(+, 0, amounts, S)
    BY <1>1 DEF LadTotal, FoldFunction
  <2>6. QED
    BY <2>3, <2>4, <2>5
<1>4. Total(amounts, S) = amounts[Buffer] + Total(amounts, S \ {Buffer})
  BY <1>1, <1>2, TotalRemove
<1>5. Total(amounts, S \ {Buffer}) = amounts[Flex] + Total(amounts, (S \ {Buffer}) \ {Flex})
  BY <1>1, <1>2, TotalRemove
<1>6. Total(amounts, (S \ {Buffer}) \ {Flex}) = 0
  BY <1>1, <1>2, TotalStep
<1>7. amounts[Buffer] \in Nat /\ amounts[Flex] \in Nat
  BY <1>1
<1>8. QED
  BY <1>3, <1>4, <1>5, <1>6, <1>7

\* A configuration that was saved is valid.
LEMMA LadConfig ==
    ASSUME NEW cfg \in LadConfigs
    PROVE  /\ cfg.target \in Nat /\ cfg.buffer \in Nat /\ cfg.cap \in Nat /\ cfg.buffer < 100
           /\ cfg.ramp \in Seq([afterDays : Nat, percent : Nat])
           /\ Len(cfg.ramp) \in Nat \ {0} /\ cfg.ramp[1] \in [afterDays : Nat, percent : Nat]
<1>1. /\ cfg.target \in Nat /\ cfg.buffer \in Nat /\ cfg.cap \in Nat /\ cfg.buffer < 100
      /\ cfg.ramp \in Seq([afterDays : Nat, percent : Nat]) /\ cfg.ramp # <<>>
  BY LadAssumption
<1> DEFINE ramp == cfg.ramp
           step == [afterDays : Nat, percent : Nat]
<1>2. Len(ramp) \in Nat \ {0} /\ ramp[1] \in step
  <2> HIDE DEF step
  <2>1. ramp \in Seq(step) /\ ramp # <<>>
    BY <1>1 DEF step
  <2> HIDE DEF ramp
  <2>2. Len(ramp) \in Nat /\ Len(ramp) # 0
    BY <2>1, EmptySeq
  <2>3. QED
    BY <2>1, <2>2
<1>3. QED
  BY <1>1, <1>2

\* What is missing is shared between the layers.
LEMMA LadSplitSum ==
    ASSUME NEW cfg \in LadConfigs, NEW gap \in Nat
    PROVE  /\ LadSplit(cfg, gap) \in [LadLayers -> Nat]
           /\ LadTotal(LadSplit(cfg, gap)) = gap
<1> DEFINE b == (gap * cfg.buffer) \div 100
           split == LadSplit(cfg, gap)
<1>1. b \in Nat /\ b <= gap
  <2> DEFINE p == cfg.buffer
  <2>1. p \in Nat /\ p <= 100
    BY LadConfig
  <2> HIDE DEF p
  <2>2. (gap * p) \div 100 \in Nat /\ (gap * p) \div 100 <= gap
    <3>1. \A q \in Nat \ {0} : p <= q => (gap * p) \div q \in Nat /\ (gap * p) \div q <= gap
      BY <2>1, ShareOf
    <3>2. QED
      BY <3>1, <2>1
  <2>3. QED
    BY <2>2 DEF p
<1> HIDE DEF b
<1>2. split = [l \in LadLayers |-> IF l = Buffer THEN b ELSE gap - b]
  BY DEF LadSplit, b
<1>3. split \in [LadLayers -> Nat]
  BY <1>1, <1>2
<1>4. split[Buffer] = b /\ split[Flex] = gap - b
  BY <1>2 DEF LadLayers, Buffer, Flex
<1>5. QED
  BY <1>1, <1>3, <1>4, LadTotalIs

\* Scaled to the cap they stay below it, and below what they were.
LEMMA LadCappedSum ==
    ASSUME NEW cfg \in LadConfigs, NEW amounts \in [LadLayers -> Nat]
    PROVE  /\ LadCapped(cfg, amounts) \in [LadLayers -> Nat]
           /\ LadTotal(LadCapped(cfg, amounts)) <= LadTotal(amounts)
           /\ cfg.cap # 0 => LadTotal(LadCapped(cfg, amounts)) <= cfg.cap
<1> DEFINE total == LadTotal(amounts)
           cap == cfg.cap
           share(l) == (amounts[l] * cap) \div total
<1>1. total = amounts[Buffer] + amounts[Flex] /\ total \in Nat /\ cap \in Nat
  BY LadTotalIs, LadConfig
<1>2. CASE cap = 0 \/ total <= cap
  BY <1>1, <1>2 DEF LadCapped
<1>3. CASE ~(cap = 0 \/ total <= cap)
  <2>1. LadCapped(cfg, amounts) = [l \in LadLayers |-> share(l)]
    BY <1>3 DEF LadCapped
  <2>2. total \in Nat \ {0} /\ cap < total
    BY <1>1, <1>3
  <2>3. amounts[Buffer] \in Nat /\ amounts[Flex] \in Nat
    BY DEF LadLayers
  <2>4. \A l \in LadLayers : amounts[l] \in Nat
    OBVIOUS
  <2>5. \A l \in LadLayers : share(l) \in Nat
    BY <1>1, <2>2, <2>4, ShareOf
  <2>6. /\ share(Buffer) \in Nat /\ total * share(Buffer) <= amounts[Buffer] * cap
        /\ share(Flex) \in Nat /\ total * share(Flex) <= amounts[Flex] * cap
    BY <1>1, <2>2, <2>3, ShareOf
  <2> DEFINE x == share(Buffer)
             y == share(Flex)
             capped == [l \in LadLayers |-> share(l)]
  <2>7. capped \in [LadLayers -> Nat] /\ capped[Buffer] = x /\ capped[Flex] = y
    <3> HIDE DEF total, cap, x, y, share
    <3>1. QED
      BY <2>5 DEF LadLayers, x, y
  <2>8. LadTotal(capped) = x + y
    BY <2>7, LadTotalIs
  <2>9. x + y <= cap
    <3> DEFINE a == amounts[Buffer]
               c == amounts[Flex]
    <3>1. total * x <= a * cap /\ total * y <= c * cap /\ x \in Nat /\ y \in Nat
      BY <2>6
    <3> HIDE DEF x, y, total, cap, a, c
    <3>2. a \in Nat /\ c \in Nat /\ total = a + c /\ cap \in Nat /\ total \in Nat \ {0}
      BY <1>1, <2>2, <2>3 DEF a, c
    <3>3. total * (x + y) <= total * cap
      <4>1. total * (x + y) = total * x + total * y
        BY <3>1, <3>2
      <4>2. total * cap = a * cap + c * cap
        BY <3>2
      <4>3. total * x \in Nat /\ total * y \in Nat /\ a * cap \in Nat /\ c * cap \in Nat
        BY <3>1, <3>2
      <4>4. QED
        BY <3>1, <4>1, <4>2, <4>3
    <3>4. ~(x + y > cap)
      <4>1. SUFFICES ASSUME x + y >= cap + 1 PROVE FALSE
        BY <3>1, <3>2
      <4>2. total * (x + y) >= total * (cap + 1)
        BY <3>1, <3>2, <4>1
      <4>3. total * (cap + 1) = total * cap + total
        BY <3>2
      <4>4. total * (x + y) \in Nat /\ total * cap \in Nat
        BY <3>1, <3>2
      <4>5. QED
        BY <3>2, <3>3, <4>2, <4>3, <4>4
    <3>5. QED
      BY <3>1, <3>2, <3>4
  <2>10. QED
    <3> HIDE DEF x, y, total, share
    <3>1. LadCapped(cfg, amounts) = capped
      BY <2>1
    <3>2. x \in Nat /\ y \in Nat
      BY <2>6 DEF x, y
    <3> HIDE DEF capped, cap
    <3>3. LadTotal(capped) <= cap /\ LadTotal(capped) <= total
      BY <1>1, <2>2, <2>8, <2>9, <3>2
    <3>4. QED
      BY <2>7, <3>1, <3>3 DEF total, cap
<1>4. QED
  BY <1>2, <1>3

\* What is left out is left out as a whole.
LEMMA LadFewerSum ==
    ASSUME NEW amounts \in [LadLayers -> Nat], NEW kept \in [LadLayers -> Nat],
           \A l \in LadLayers : kept[l] <= amounts[l]
    PROVE  LadTotal(kept) <= LadTotal(amounts)
<1>1. /\ kept[Buffer] \in Nat /\ kept[Buffer] <= amounts[Buffer] /\ amounts[Buffer] \in Nat
      /\ kept[Flex] \in Nat /\ kept[Flex] <= amounts[Flex] /\ amounts[Flex] \in Nat
  BY DEF LadLayers
<1>2. /\ LadTotal(kept) = kept[Buffer] + kept[Flex]
      /\ LadTotal(amounts) = amounts[Buffer] + amounts[Flex]
  BY LadTotalIs
<1>3. QED
  BY <1>1, <1>2

\* Deferring purchases lowers what is planned.
LEMMA LadKeptFewer ==
    ASSUME NEW in, NEW amounts \in [LadLayers -> Nat]
    PROVE  /\ LadKept(in, amounts) \in [LadLayers -> Nat]
           /\ LadTotal(LadKept(in, amounts)) <= LadTotal(amounts)
<1>1. /\ LadKept(in, amounts) \in [LadLayers -> Nat]
      /\ \A l \in LadLayers : LadKept(in, amounts)[l] <= amounts[l]
  BY DEF LadKept
<1>2. QED
  BY <1>1, LadFewerSum

\* The first step of a ramp is a part of the amount.
LEMMA LadFirstStep ==
    ASSUME NEW cfg \in LadConfigs, NEW amount \in Nat
    PROVE  LadTranches(cfg.ramp, amount) \in 0 .. amount
<1> DEFINE ramp == cfg.ramp
           up == LadStepSum(ramp, amount)
           last == Len(ramp)
           step(f, i) == f[i - 1] + LadLesser((amount * ramp[i].percent) \div 100, amount - f[i - 1])
           value(f, i) == IF i = 0 THEN 0 ELSE IF i = last THEN amount ELSE step(f, i)
           Upto(f, n) == f = [i \in 0 .. n |-> value(f, i)]
           Q == {n \in Nat : \E f : Upto(f, n)}
<1>1. last \in Nat \ {0} /\ ramp[1] \in [afterDays : Nat, percent : Nat]
  BY LadConfig
<1>2. last \in Q
  <2> HIDE DEF last, step
  <2>1. 0 \in Q
    <3> DEFINE f == [i \in 0 .. 0 |-> 0]
    <3>1. f = [i \in 0 .. 0 |-> value(f, i)]
      OBVIOUS
    <3>2. QED
      BY <3>1
  <2>2. ASSUME NEW n \in Nat, n \in Q PROVE n + 1 \in Q
    <3>1. PICK f : Upto(f, n)
      BY <2>2
    <3> DEFINE h == [i \in 0 .. n + 1 |-> IF i = n + 1 THEN value(f, i) ELSE f[i]]
    <3>2. ASSUME NEW i \in 0 .. n + 1 PROVE h[i] = value(h, i)
      <4>1. CASE i = 0
        BY <3>1, <4>1
      <4>2. CASE i # 0
        <5>1. i - 1 \in 0 .. n /\ i - 1 \in 0 .. n + 1 /\ i - 1 # n + 1
          BY <4>2
        <5>2. h[i - 1] = f[i - 1]
          BY <5>1
        <5>3. value(h, i) = value(f, i)
          BY <5>2 DEF step
        <5>4. h[i] = value(f, i)
          <6>1. CASE i = n + 1
            BY <6>1
          <6>2. CASE i # n + 1
            <7>1. i \in 0 .. n
              BY <6>2
            <7>2. f[i] = value(f, i)
              BY <3>1, <7>1
            <7>3. QED
              BY <6>2, <7>2
          <6>3. QED
            BY <6>1, <6>2
        <5>5. QED
          BY <5>3, <5>4
      <4>3. QED
        BY <4>1, <4>2
    <3>3. h = [i \in 0 .. n + 1 |-> h[i]]
      OBVIOUS
    <3>4. Upto(h, n + 1)
      <4> HIDE DEF h
      <4>1. QED
        BY <3>2, <3>3
    <3>5. n + 1 \in Nat /\ \E e : Upto(e, n + 1)
      <4> HIDE DEF h, Upto
      <4>1. QED
        BY <3>4
    <3>6. QED
      <4> HIDE DEF Upto
      <4>1. QED
        BY <3>5
  <2>3. QED
    <3> HIDE DEF Q
    <3>1. last \in Nat
      BY <1>1
    <3>2. QED
      BY <2>1, <2>2, <3>1, NatAll
<1> DEFINE g == CHOOSE g : Upto(g, last)
<1>3. up = g
  BY Zenon DEF LadStepSum
<1>4. Upto(g, last)
  BY <1>2
<1> HIDE DEF g, up
<1>5. up[1] \in 0 .. amount
  <2>1. 0 \in 0 .. last /\ 1 \in 0 .. last
    BY <1>1
  <2>2. up[0] = 0 /\ up[1] = IF 1 = last THEN amount ELSE step(up, 1)
    BY <1>3, <1>4, <2>1
  <2>3. (amount * ramp[1].percent) \div 100 \in Nat
    BY <1>1, ShareOf
  <2>4. step(up, 1) \in 0 .. amount
    BY <2>2, <2>3 DEF LadLesser
  <2>5. QED
    BY <2>2, <2>4
<1>6. QED
  BY <1>5 DEF LadTranches, up

\* What a run may plan: at most what is missing, and at most its cap.
LEMMA LadAllocated ==
    ASSUME NEW in, in.cfg \in LadConfigs, in.low \in LadFloors \cup {LadUnknown},
           in.net \in Nat, in.inFlight \in Nat
    PROVE  /\ Allocate(in) \in [LadLayers -> Nat]
           /\ in.cfg.cap # 0 => LadTotal(Allocate(in)) <= in.cfg.cap
           /\ \/ Allocate(in) = [l \in LadLayers |-> 0]
              \/ /\ in.low \in LadFloors /\ LadGap(in) \in Nat
                 /\ LadTotal(Allocate(in)) <= LadGap(in)
<1> DEFINE none == [l \in LadLayers |-> 0]
           cfg == in.cfg
<1>1. cfg.cap \in Nat /\ cfg.target \in Nat
  BY LadConfig
<1>2. none \in [LadLayers -> Nat] /\ LadTotal(none) = 0
  <2>1. none \in [LadLayers -> Nat] /\ none[Buffer] = 0 /\ none[Flex] = 0
    BY DEF LadLayers
  <2>2. QED
    BY <2>1, LadTotalIs
<1>3. CASE in.low = LadUnknown \/ LadGap(in) <= 1
  <2>1. Allocate(in) = none
    BY <1>3 DEF Allocate
  <2> HIDE DEF none
  <2>2. QED
    BY <1>1, <1>2, <2>1 DEF none
<1>4. CASE ~(in.low = LadUnknown \/ LadGap(in) <= 1)
  <2>1. in.low \in LadFloors /\ in.low \in Nat
    BY <1>4, LadAssumption
  <2>2. LadGap(in) \in Nat
    <3> DEFINE t == LadTarget(cfg, in.low)
    <3>1. t \in Nat
      BY <1>1, <2>1, ShareOf DEF LadTarget
    <3> HIDE DEF t
    <3>2. LadGap(in) = LadLesser(t, in.low) - in.net - in.inFlight
      BY DEF LadGap, t
    <3>3. LadGap(in) \in Int
      BY <2>1, <3>1, <3>2 DEF LadLesser
    <3>4. QED
      BY <1>4, <3>3
  <2> DEFINE gap == LadGap(in)
             split == LadSplit(cfg, gap)
             capped == LadCapped(cfg, split)
             kept == LadKept(in, capped)
  <2>3. Allocate(in) = kept
    BY <1>4 DEF Allocate
  <2> HIDE DEF gap
  <2>4. split \in [LadLayers -> Nat] /\ LadTotal(split) = gap
    BY <2>2, LadSplitSum DEF gap
  <2> HIDE DEF split
  <2>5. /\ capped \in [LadLayers -> Nat] /\ LadTotal(capped) <= LadTotal(split)
        /\ cfg.cap # 0 => LadTotal(capped) <= cfg.cap
    BY <2>4, LadCappedSum
  <2> HIDE DEF capped
  <2>6. kept \in [LadLayers -> Nat] /\ LadTotal(kept) <= LadTotal(capped)
    BY <2>5, LadKeptFewer
  <2> HIDE DEF kept
  <2>7. LadTotal(kept) \in Nat /\ LadTotal(capped) \in Nat /\ LadTotal(split) \in Nat
    BY <2>4, <2>5, <2>6, LadTotalIs
  <2>8. LadTotal(kept) <= gap /\ (cfg.cap # 0 => LadTotal(kept) <= cfg.cap)
    BY <1>1, <2>2, <2>4, <2>5, <2>6, <2>7 DEF gap
  <2>9. QED
    BY <2>1, <2>2, <2>3, <2>6, <2>8 DEF gap
<1>5. QED
  BY <1>3, <1>4

\* What a run schedules is part of what it planned.
LEMMA LadScheduled ==
    ASSUME LadShape, NEW r \in LadRunners, LadBusy(r), ladRun[r].stage = "save"
    PROVE  /\ ladRun[r].cfg \in LadConfigs /\ ladRun[r].net \in Nat
           /\ ladRun[r].low \in LadFloors \cup {LadUnknown} /\ ladRun[r].inFlight \in Nat
           /\ LadAdded(r) \in [LadLayers -> Nat]
           /\ ladRun[r].cfg.cap # 0 => LadTotal(LadAdded(r)) <= ladRun[r].cfg.cap
           /\ \/ LadAdded(r) = [l \in LadLayers |-> 0]
              \/ /\ ladRun[r].low \in LadFloors /\ LadGap(ladRun[r]) \in Nat
                 /\ LadTotal(LadAdded(r)) <= LadGap(ladRun[r])
<1> DEFINE in == ladRun[r]
           plan == Allocate(in)
           added == LadAdded(r)
<1>1. /\ in.cfg \in LadConfigs /\ in.net \in Nat
      /\ in.low \in LadFloors \cup {LadUnknown} /\ in.inFlight \in Nat
  BY LadAssumption DEF LadShape, LadRunType, LadBusy, LadIdle
<1>2. added = [l \in LadLayers |-> LadTranches(in.cfg.ramp, plan[l])]
  BY DEF LadAdded
<1> HIDE DEF in, added
<1>3. /\ plan \in [LadLayers -> Nat]
      /\ in.cfg.cap # 0 => LadTotal(plan) <= in.cfg.cap
      /\ \/ plan = [l \in LadLayers |-> 0]
         \/ in.low \in LadFloors /\ LadGap(in) \in Nat /\ LadTotal(plan) <= LadGap(in)
  BY <1>1, LadAllocated
<1> HIDE DEF plan
<1>4. ASSUME NEW l \in LadLayers PROVE added[l] \in 0 .. plan[l] /\ plan[l] \in Nat
  <2>1. plan[l] \in Nat
    BY <1>3
  <2>2. LadTranches(in.cfg.ramp, plan[l]) \in 0 .. plan[l]
    BY <1>1, <2>1, LadFirstStep
  <2>3. QED
    BY <1>2, <2>1, <2>2
<1>5. added \in [LadLayers -> Nat] /\ \A l \in LadLayers : added[l] <= plan[l]
  <2>1. \A l \in LadLayers : added[l] \in Nat /\ added[l] <= plan[l]
    BY <1>4
  <2>2. QED
    BY <1>2, <2>1
<1>6. LadTotal(added) <= LadTotal(plan)
  BY <1>3, <1>5, LadFewerSum
<1>7. LadTotal(added) \in Nat /\ LadTotal(plan) \in Nat /\ in.cfg.cap \in Nat
  BY <1>1, <1>3, <1>5, LadTotalIs, LadConfig
<1>8. plan = [l \in LadLayers |-> 0] => added = [l \in LadLayers |-> 0]
  <2>1. SUFFICES ASSUME plan = [l \in LadLayers |-> 0] PROVE \A l \in LadLayers : added[l] = 0
    BY <1>5
  <2>2. QED
    BY <1>4, <2>1
<1>9. QED
  BY <1>1, <1>3, <1>5, <1>6, <1>7, <1>8 DEF in, added

\* A cadence ends before a run is too old to be told from none.
LEMMA LadTicks ==
    ASSUME NEW cadence
    PROVE  CadenceTicks(cadence) \in 2 .. LadAgeless - 1
BY DEF CadenceTicks, LadAgeless

\* Nobody runs at the start.
LEMMA LadInitInv == LadInit => LadInv
<1> SUFFICES ASSUME LadInit PROVE LadInv
  OBVIOUS
<1>1. LadShape
  BY LadAssumption DEF LadInit, LadShape, LadRunType, LadAgeless
<1>2. \A r \in LadRunners : ~LadBusy(r)
  BY DEF LadInit, LadBusy
<1>3. QED
  BY <1>1, <1>2 DEF LadInv, LadAlone, LadWaited, LadNetted, LadPast

\* A run that ends leaves nobody running, until the lock is lost.
LEMMA LadEnded ==
    ASSUME LadInv, NEW r \in LadRunners, LadBusy(r), LadEnd(r), UNCHANGED ladLost
    PROVE  /\ ladRun' \in [LadRunners -> LadRunType]
           /\ ~ladLost' => LadAlone' /\ LadWaited' /\ LadNetted'
<1>1. ladRun' \in [LadRunners -> LadRunType]
  BY DEF LadInv, LadShape, LadEnd, LadRunType
<1>2. ASSUME ~ladLost', NEW s \in LadRunners, LadBusy(s)' PROVE FALSE
  <2>1. ladLock = {r}
    BY <1>2 DEF LadInv, LadAlone
  <2>2. s # r /\ LadBusy(s)
    BY <1>2 DEF LadInv, LadShape, LadEnd, LadBusy
  <2>3. ladLock = {s}
    BY <1>2, <2>2 DEF LadInv, LadAlone
  <2>4. QED
    BY <2>1, <2>2, <2>3
<1>3. QED
  BY <1>1, <1>2 DEF LadAlone, LadWaited, LadNetted, LadPast

\* A run that enters its next stage keeps its configuration and its start.
LEMMA LadMoved ==
    ASSUME LadInv, NEW r \in LadRunners, LadBusy(r),
           NEW run \in LadRunType, run # LadIdle,
           ladRun' = [ladRun EXCEPT ![r] = run],
           UNCHANGED <<ladLock, ladCfg, ladEnv, ladSched, ladAge, ladLost>>,
           run.stage \in {"read", "save"} =>
              CadenceTicks(run.cfg.cadence) <= ladAge - run.age,
           run.stage = "save" => run.inFlight = LadTotal(ladSched)
    PROVE  LadInv'
<1>1. LadShape'
  BY DEF LadInv, LadShape
<1>2. /\ ladRun'[r] = run
      /\ \A s \in LadRunners \ {r} : ladRun'[s] = ladRun[s]
  BY DEF LadInv, LadShape
<1>3. ASSUME ~ladLost' PROVE LadAlone' /\ LadWaited' /\ LadNetted'
  <2>1. LadAlone /\ LadWaited /\ LadNetted
    BY <1>3 DEF LadInv
  <2>2. \A s \in LadRunners : LadBusy(s)' => LadBusy(s)
    BY <1>2 DEF LadBusy
  <2>3. LadAlone'
    BY <2>1, <2>2 DEF LadAlone
  <2>4. LadWaited'
    BY <1>2, <2>1 DEF LadWaited, LadPast, LadBusy
  <2>5. LadNetted'
    BY <1>2, <2>1 DEF LadNetted, LadBusy
  <2>6. QED
    BY <2>3, <2>4, <2>5
<1>4. QED
  BY <1>1, <1>3 DEF LadInv

\* Every step keeps the invariant.
LEMMA LadNextInv == LadInv /\ [LadNext]_ladVars => LadInv'
<1> SUFFICES ASSUME LadInv, [LadNext]_ladVars PROVE LadInv'
  OBVIOUS
<1>0. LadShape
  BY DEF LadInv
<1>1. CASE UNCHANGED ladVars
  BY <1>1 DEF ladVars, LadInv, LadShape, LadAlone, LadWaited, LadNetted, LadPast, LadBusy
<1>2. CASE LadLoseLock
  BY <1>0, <1>2 DEF LadLoseLock, LadInv, LadShape
<1>3. CASE LadEdit \/ LadDrift
  BY <1>0, <1>3 DEF LadEdit, LadDrift, LadInv, LadShape, LadAlone, LadWaited, LadNetted, LadPast,
     LadBusy
<1>4. CASE LadTick
  <2>1. ladAge' = LadLesser(ladAge + 1, LadAgeless) /\ ladAge' \in 0 .. LadAgeless
    BY <1>0, <1>4 DEF LadTick, LadLesser, LadShape, LadAgeless
  <2>2. ASSUME NEW r \in LadRunners
        PROVE  /\ ladRun'[r] \in LadRunType /\ LadBusy(r)' = LadBusy(r)
               /\ LadBusy(r) => /\ ladRun[r].age = 0 /\ ladRun'[r].age = 1
                                /\ ladRun'[r].stage = ladRun[r].stage
                                /\ ladRun'[r].cfg = ladRun[r].cfg
               /\ LadBusy(r) /\ ladRun[r].stage = "save" =>
                     ladRun'[r].inFlight = ladRun[r].inFlight
    <3>1. CASE ~LadBusy(r)
      BY <1>4, <3>1 DEF LadTick, LadBusy, LadRunType
    <3>2. CASE LadBusy(r)
      <4>1. ladRun'[r] = [ladRun[r] EXCEPT !.age = 1] /\ ladRun[r].age = 0
        BY <1>4, <3>2 DEF LadTick
      <4>2. ladRun[r] \in LadRunType /\ ladRun[r] # LadIdle
        BY <1>0, <3>2 DEF LadShape, LadBusy
      <4>3. CASE ladRun[r] \in [stage : {"gate", "read"}, cfg : LadConfigs, age : {0, 1}]
        BY <3>2, <4>1, <4>3 DEF LadRunType, LadBusy, LadIdle
      <4>4. CASE ladRun[r] \in [stage : {"save"}, cfg : LadConfigs, age : {0, 1},
                     low : LadFloors \cup {LadUnknown}, net : LadHeld, idle : BOOLEAN, inFlight : Nat]
        BY <3>2, <4>1, <4>4 DEF LadRunType, LadBusy, LadIdle
      <4>5. QED
        BY <4>2, <4>3, <4>4 DEF LadRunType
    <3>3. QED
      BY <3>1, <3>2
  <2>3. LadShape'
    <3>1. ladRun' = [r \in LadRunners |-> ladRun'[r]]
      BY <1>4 DEF LadTick
    <3>2. ladRun' \in [LadRunners -> LadRunType]
      BY <2>2, <3>1
    <3>3. QED
      BY <1>0, <1>4, <2>1, <3>2 DEF LadTick, LadShape
  <2>4. ASSUME ~ladLost' PROVE LadAlone' /\ LadWaited' /\ LadNetted'
    <3>1. LadAlone /\ LadWaited /\ LadNetted
      BY <1>4, <2>4 DEF LadInv, LadTick
    <3>2. LadAlone'
      BY <1>4, <2>2, <3>1 DEF LadAlone, LadTick
    <3>3. LadWaited'
      <4>1. SUFFICES ASSUME NEW r \in LadRunners, LadPast(r)'
                     PROVE  CadenceTicks(ladRun'[r].cfg.cadence) <= ladAge' - ladRun'[r].age
        BY DEF LadWaited
      <4>2. LadPast(r) /\ ladRun[r].age = 0 /\ ladRun'[r].age = 1 /\ ladRun'[r].cfg = ladRun[r].cfg
        BY <2>2, <4>1 DEF LadPast
      <4>3. CadenceTicks(ladRun[r].cfg.cadence) <= ladAge - 0
        BY <3>1, <4>2 DEF LadWaited
      <4> DEFINE c == CadenceTicks(ladRun[r].cfg.cadence)
      <4>4. c \in 2 .. LadAgeless - 1
        BY LadTicks
      <4> HIDE DEF c
      <4>5. ladAge \in 0 .. LadAgeless /\ c <= ladAge
        BY <1>0, <4>3, <4>4 DEF LadShape, c, LadAgeless
      <4>6. c <= ladAge' - 1
        BY <2>1, <4>4, <4>5 DEF LadLesser, LadAgeless
      <4>7. QED
        BY <4>2, <4>6 DEF c
    <3>4. LadNetted'
      BY <1>4, <2>2, <3>1 DEF LadNetted, LadTick
    <3>5. QED
      BY <3>2, <3>3, <3>4
  <2>5. QED
    BY <2>3, <2>4 DEF LadInv
<1>5. ASSUME NEW r \in LadRunners, LadBegin(r) PROVE LadInv'
  <2> DEFINE run == [stage |-> "gate", cfg |-> ladCfg, age |-> 0]
  <2>1. run \in LadRunType /\ run # LadIdle /\ run.stage = "gate"
    BY <1>0 DEF LadShape, LadRunType, LadIdle
  <2>2. ladRun'[r] = run /\ \A s \in LadRunners \ {r} : ladRun'[s] = ladRun[s]
    BY <1>0, <1>5 DEF LadBegin, LadShape
  <2> HIDE DEF run
  <2>3. LadShape'
    <3>1. ladRun' = [ladRun EXCEPT ![r] = run]
      BY <1>5 DEF LadBegin, run
    <3>2. ladRun' \in [LadRunners -> LadRunType]
      BY <1>0, <2>1, <3>1 DEF LadShape
    <3>3. QED
      BY <1>0, <1>5, <3>2 DEF LadBegin, LadShape
  <2>4. ASSUME ~ladLost' PROVE LadAlone' /\ LadWaited' /\ LadNetted'
    <3>1. LadAlone /\ LadWaited /\ LadNetted
      BY <1>5, <2>4 DEF LadInv, LadBegin
    <3>2. \A s \in LadRunners \ {r} : ~LadBusy(s) /\ ~LadBusy(s)'
      BY <1>5, <2>2, <3>1 DEF LadAlone, LadBegin, LadBusy
    <3>3. LadAlone'
      BY <1>5, <3>2 DEF LadAlone, LadBegin
    <3>4. LadWaited' /\ LadNetted'
      BY <2>1, <2>2, <3>2 DEF LadWaited, LadNetted, LadPast
    <3>5. QED
      BY <3>3, <3>4
  <2>5. QED
    BY <2>3, <2>4 DEF LadInv
<1>6. ASSUME NEW r \in LadRunners, LadBusy(r), LadEnd(r),
             UNCHANGED <<ladCfg, ladEnv, ladLost>>,
             ladSched' \in [LadLayers -> Nat], ladAge' \in 0 .. LadAgeless
      PROVE  LadInv'
  BY <1>0, <1>6, LadEnded DEF LadInv, LadShape
<1>7. ASSUME NEW r \in LadRunners, LadGate(r) PROVE LadInv'
  <2>1. LadBusy(r) /\ ladRun[r].stage = "gate"
    BY <1>7 DEF LadGate, LadBusy, LadIdle
  <2>2. CASE LadEnd(r) /\ UNCHANGED <<ladCfg, ladEnv, ladSched, ladAge, ladLost, ladLeft>>
    BY <1>0, <1>6, <2>1, <2>2 DEF LadShape
  <2>3. CASE LadPass(r) /\ ~LadWithin(r)
    <3> DEFINE run == [ladRun[r] EXCEPT !.stage = "read"]
    <3>1. ladRun[r] \in [stage : {"gate", "read"}, cfg : LadConfigs, age : {0, 1}]
      BY <1>0, <2>1 DEF LadShape, LadRunType, LadBusy
    <3>2. /\ run \in [stage : {"gate", "read"}, cfg : LadConfigs, age : {0, 1}]
          /\ run.stage = "read" /\ run.cfg = ladRun[r].cfg /\ run.age = ladRun[r].age
      BY <3>1
    <3>3. ladRun' = [ladRun EXCEPT ![r] = run]
      BY <1>0, <2>3 DEF LadPass, LadShape
    <3> HIDE DEF run
    <3>4. run \in LadRunType /\ run # LadIdle
      BY <3>2 DEF LadRunType, LadIdle
    <3> DEFINE c == CadenceTicks(run.cfg.cadence)
    <3>5. c \in 2 .. LadAgeless - 1 /\ ladAge \in Nat /\ run.age \in {0, 1}
      BY <1>0, <3>2, LadTicks DEF LadShape, LadAgeless
    <3>6. ~(ladAge - run.age < c)
      BY <2>3, <3>2 DEF LadWithin
    <3> HIDE DEF c
    <3>7. c <= ladAge - run.age
      BY <3>5, <3>6 DEF LadAgeless
    <3>8. QED
      BY <2>1, <2>3, <3>2, <3>3, <3>4, <3>7, LadMoved DEF LadPass, c
  <2>4. QED
    BY <1>7, <2>2, <2>3 DEF LadGate
<1>8. ASSUME NEW r \in LadRunners, LadRead(r) PROVE LadInv'
  <2> DEFINE run == [stage |-> "save", cfg |-> ladRun[r].cfg, age |-> ladRun[r].age,
            low |-> ladEnv.low, net |-> ladEnv.net, idle |-> ladEnv.idle,
            inFlight |-> LadTotal(ladSched)]
  <2>1. LadBusy(r) /\ ladRun[r].stage = "read"
    BY <1>8 DEF LadRead, LadBusy, LadIdle
  <2>2. ladRun[r].cfg \in LadConfigs /\ ladRun[r].age \in {0, 1}
    BY <1>0, <2>1 DEF LadShape, LadRunType, LadBusy
  <2>3. ladEnv.low \in LadFloors \cup {LadUnknown} /\ ladEnv.net \in LadHeld /\ ladEnv.idle \in BOOLEAN
    BY <1>0 DEF LadShape
  <2>4. LadTotal(ladSched) \in Nat
    BY <1>0, LadTotalIs DEF LadShape
  <2>5. run \in LadRunType /\ run # LadIdle
    BY <2>2, <2>3, <2>4 DEF LadRunType, LadIdle
  <2>6. run.cfg = ladRun[r].cfg /\ run.age = ladRun[r].age /\ run.inFlight = LadTotal(ladSched)
    OBVIOUS
  <2>7. ladRun' = [ladRun EXCEPT ![r] = run]
    BY <1>0, <1>8 DEF LadRead, LadShape
  <2> HIDE DEF run
  <2>8. CASE ladLost
    <3>1. LadShape' /\ ladLost'
      BY <1>0, <1>8, <2>5, <2>7, <2>8 DEF LadShape, LadRead
    <3>2. QED
      BY <3>1 DEF LadInv
  <2>9. CASE ~ladLost
    <3>1. LadPast(r)
      BY <2>1 DEF LadPast
    <3>2. CadenceTicks(run.cfg.cadence) <= ladAge - run.age
      BY <2>6, <2>9, <3>1 DEF LadInv, LadWaited
    <3>3. QED
      BY <1>8, <2>1, <2>5, <2>6, <2>7, <3>2, LadMoved DEF LadRead
  <2>10. QED
    BY <2>8, <2>9
<1>9. ASSUME NEW r \in LadRunners, LadSave(r) PROVE LadInv'
  <2>1. LadBusy(r) /\ ladRun[r].stage = "save" /\ LadEnd(r)
    BY <1>9 DEF LadSave, LadBusy, LadIdle
  <2>2. LadAdded(r) \in [LadLayers -> Nat]
    BY <1>0, <2>1, LadScheduled
  <2>3. ladSched' \in [LadLayers -> Nat]
    <3>1. ladSched' = [l \in LadLayers |-> ladSched[l] + LadAdded(r)[l]]
      BY <1>9 DEF LadSave
    <3>2. QED
      BY <1>0, <2>2, <3>1 DEF LadShape
  <2>4. ladAge' \in 0 .. LadAgeless
    <3>1. ladRun[r].age \in {0, 1}
      BY <1>0, <2>1 DEF LadShape, LadRunType, LadBusy
    <3>2. QED
      BY <1>0, <1>9, <3>1 DEF LadShape, LadSave, LadLesser, LadAgeless
  <2>5. QED
    BY <1>6, <1>9, <2>1, <2>3, <2>4 DEF LadSave
<1>10. ASSUME NEW r \in LadRunners, LadFail(r) PROVE LadInv'
  BY <1>0, <1>6, <1>10 DEF LadFail, LadShape
<1>11. QED
  BY <1>1, <1>2, <1>3, <1>4, <1>5, <1>7, <1>8, <1>9, <1>10 DEF LadNext

\* Only the holder of the lock schedules, within the gap, the cap and the cadence.
LEMMA LadSaveBounded ==
    LadInv /\ [LadNext]_ladVars =>
    \A r \in LadRunners : (LadSaves(r) /\ ~ladLost) =>
       /\ LadTotal(ladSched') + ladRun[r].net
             <= LadLesser(ladRun[r].low, LadTarget(ladRun[r].cfg, ladRun[r].low))
       /\ ladRun[r].cfg.cap # 0 =>
             LadTotal(ladSched') - LadTotal(ladSched) <= ladRun[r].cfg.cap
       /\ ladAge - ladRun[r].age >= CadenceTicks(ladRun[r].cfg.cadence)
<1> SUFFICES ASSUME LadInv, [LadNext]_ladVars, NEW r \in LadRunners, LadSaves(r), ~ladLost
             PROVE /\ LadTotal(ladSched') + ladRun[r].net
                        <= LadLesser(ladRun[r].low, LadTarget(ladRun[r].cfg, ladRun[r].low))
                   /\ ladRun[r].cfg.cap # 0 =>
                        LadTotal(ladSched') - LadTotal(ladSched) <= ladRun[r].cfg.cap
                   /\ ladAge - ladRun[r].age >= CadenceTicks(ladRun[r].cfg.cadence)
  OBVIOUS
<1> DEFINE in == ladRun[r]
           added == LadAdded(r)
           t == LadTarget(in.cfg, in.low)
<1>1. LadShape /\ LadAlone /\ LadWaited /\ LadNetted
  BY DEF LadInv
<1>2. LadBusy(r) /\ ladRun[r].stage = "save" /\ ladSched' # ladSched
  BY DEF LadSaves
<1>3. ladSched' = [l \in LadLayers |-> ladSched[l] + added[l]]
  <2>1. ~UNCHANGED ladVars
    BY <1>2 DEF ladVars
  <2>2. ~(LadLoseLock \/ LadTick \/ LadEdit \/ LadDrift)
    BY <1>2 DEF LadLoseLock, LadTick, LadEdit, LadDrift
  <2>3. PICK s \in LadRunners : LadBegin(s) \/ LadGate(s) \/ LadRead(s) \/ LadSave(s) \/ LadFail(s)
    BY <2>1, <2>2 DEF LadNext
  <2>4. LadSave(s)
    BY <1>2, <2>3 DEF LadBegin, LadGate, LadPass, LadRead, LadFail
  <2>5. LadBusy(s)
    BY <2>4 DEF LadSave, LadBusy, LadIdle
  <2>6. {r} = {s}
    BY <1>1, <1>2, <2>5 DEF LadAlone
  <2>7. s = r
    BY <2>6
  <2>8. QED
    BY <2>4, <2>7 DEF LadSave
<1>4. /\ in.cfg \in LadConfigs /\ in.net \in Nat
      /\ in.low \in LadFloors \cup {LadUnknown} /\ in.inFlight \in Nat
      /\ added \in [LadLayers -> Nat]
      /\ in.cfg.cap # 0 => LadTotal(added) <= in.cfg.cap
      /\ \/ added = [l \in LadLayers |-> 0]
         \/ in.low \in LadFloors /\ LadGap(in) \in Nat /\ LadTotal(added) <= LadGap(in)
  BY <1>1, <1>2, LadScheduled
<1>5. in.inFlight = LadTotal(ladSched)
  BY <1>1, <1>2 DEF LadNetted
<1>6. CadenceTicks(in.cfg.cadence) <= ladAge - in.age
  BY <1>1, <1>2 DEF LadWaited, LadPast
<1> HIDE DEF added
<1>7. LadTotal(ladSched') = LadTotal(ladSched) + LadTotal(added)
  <2>1. ladSched \in [LadLayers -> Nat] /\ ladSched' \in [LadLayers -> Nat]
    BY <1>1, <1>3, <1>4 DEF LadShape
  <2>2. /\ ladSched'[Buffer] = ladSched[Buffer] + added[Buffer]
        /\ ladSched'[Flex] = ladSched[Flex] + added[Flex]
        /\ ladSched[Buffer] \in Nat /\ ladSched[Flex] \in Nat
        /\ added[Buffer] \in Nat /\ added[Flex] \in Nat
    BY <1>3, <1>4, <2>1 DEF LadLayers
  <2>3. /\ LadTotal(ladSched) = ladSched[Buffer] + ladSched[Flex]
        /\ LadTotal(added) = added[Buffer] + added[Flex]
    BY <1>4, <2>1, LadTotalIs
  <2>4. LadTotal(ladSched') = ladSched'[Buffer] + ladSched'[Flex]
    <3> DEFINE after == ladSched'
    <3>1. after \in [LadLayers -> Nat]
      BY <2>1
    <3> HIDE DEF after
    <3>2. LadTotal(after) = after[Buffer] + after[Flex]
      BY <3>1, LadTotalIs
    <3>3. QED
      BY <3>2 DEF after
  <2>5. QED
    BY <2>2, <2>3, <2>4
<1>8. in.low \in LadFloors /\ LadGap(in) \in Nat /\ LadTotal(added) <= LadGap(in)
  <2>1. SUFFICES ASSUME added = [l \in LadLayers |-> 0] PROVE FALSE
    BY <1>4
  <2>2. ladSched' = ladSched
    BY <1>1, <1>3, <2>1 DEF LadShape
  <2>3. QED
    BY <1>2, <2>2
<1>9. LadTotal(added) \in Nat /\ LadTotal(ladSched) \in Nat
  BY <1>1, <1>4, LadTotalIs DEF LadShape
<1>10. in.low \in Nat /\ t \in Nat
  <2>1. in.low \in Nat /\ in.cfg.target \in Nat
    BY <1>4, <1>8, LadAssumption, LadConfig
  <2> DEFINE low == in.low
             target == in.cfg.target
  <2>2. (low * target) \div 100 \in Nat
    <3> HIDE DEF low, target
    <3>1. low \in Nat /\ target \in Nat
      BY <2>1 DEF low, target
    <3>2. QED
      BY <3>1, ShareOf
  <2>3. QED
    BY <2>1, <2>2 DEF LadTarget
<1>11. in.cfg.cap \in Nat
  BY <1>4, LadConfig
<1>12. LadGap(in) = LadLesser(t, in.low) - in.net - in.inFlight
  BY DEF LadGap
<1>13. LadLesser(t, in.low) = LadLesser(in.low, t) /\ LadLesser(t, in.low) \in Nat
  <2> HIDE DEF t, in
  <2>1. QED
    BY <1>10 DEF LadLesser
<1> DEFINE least == LadLesser(in.low, t)
<1>14. LadTotal(ladSched') + in.net <= least
  <2> HIDE DEF in, t
  <2>1. least \in Nat /\ LadGap(in) = least - in.net - LadTotal(ladSched)
    BY <1>5, <1>12, <1>13
  <2> HIDE DEF least
  <2>2. QED
    BY <1>4, <1>7, <1>8, <1>9, <2>1
<1>15. in.cfg.cap # 0 => LadTotal(ladSched') - LadTotal(ladSched) <= in.cfg.cap
  <2> HIDE DEF in
  <2>1. QED
    BY <1>4, <1>7, <1>9, <1>11
<1>16. in.age \in Nat /\ ladAge \in Nat /\ CadenceTicks(in.cfg.cadence) \in Nat
  <2>1. in.age \in {0, 1}
    BY <1>1, <1>2 DEF LadShape, LadRunType, LadBusy
  <2>2. QED
    BY <1>1, <2>1, LadTicks DEF LadShape, LadAgeless
<1>17. ladAge - in.age >= CadenceTicks(in.cfg.cadence)
  <2> HIDE DEF in
  <2>1. QED
    BY <1>6, <1>16
<1>18. QED
  BY <1>14, <1>15, <1>17

\* Neither the schedule nor its growth in one cadence window exceeds what the

\* configuration allows.
THEOREM LadderStaysBounded == LadSpec => LadBounded
<1>1. LadSpec => LadInit /\ [][LadNext]_ladVars
  BY DEF LadSpec
<1>2. LadInv /\ [LadNext]_ladVars =>
        [\A r \in LadRunners : (LadSaves(r) /\ ~ladLost) =>
         LadTotal(ladSched') + ladRun[r].net
            <= LadLesser(ladRun[r].low, LadTarget(ladRun[r].cfg, ladRun[r].low))]_ladVars
  BY LadSaveBounded
<1>3. LadInv /\ [LadNext]_ladVars =>
        [\A r \in LadRunners : (LadSaves(r) /\ ~ladLost) =>
         /\ ladRun[r].cfg.cap # 0 =>
               LadTotal(ladSched') - LadTotal(ladSched) <= ladRun[r].cfg.cap
         /\ ladAge - ladRun[r].age >= CadenceTicks(ladRun[r].cfg.cadence)]_ladVars
  BY LadSaveBounded
<1>4. QED
  BY <1>1, <1>2, <1>3, LadInitInv, LadNextInv, PTL DEF LadBounded, LadNoPileUp, LadRateBounded

=============================================================================

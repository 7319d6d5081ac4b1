---------------------------- MODULE PurchaseProofs ----------------------------
(* Proofs of the properties of PurchaseExecution, for every set of           *)
(* executions, recommendations and workers: types, approvals, lineages, and the *)
(* refinement of PurchaseContract.                                           *)
EXTENDS PurchaseProperties, TLAPS

-----------------------------------------------------------------------------
(* Type correctness.                                                        *)

\* A worker that is not idle holds a row, and a retry under way has an attempt
\* left.
HoldsRow == \A w \in Workers : ~Idle(w) => work[w].exec \in Execs
RetryHasAttempt == \A w \in Workers : At(w, "retry") => work[w].snap.attempt < MaxAttempt

TypeInv == TypeOK /\ HoldsRow /\ RetryHasAttempt

\* The rows the code builds are rows.
LEMMA NewRowType ==
    ASSUME NEW e \in Execs \cup {NoExec}, NEW web \in BOOLEAN,
           NEW planned \in BOOLEAN, NEW recs \in SUBSET Recs
    PROVE  NewRow(e, web, planned, recs) \in Row
  BY ConstantsAssumption DEF NewRow, Row, Statuses

\* An absent row is a row.
LEMMA NoRowType == NoRow \in Row
  BY NewRowType, ConstantsAssumption DEF NoRow, NewRow, Row

\* The job a worker takes up with a row and a copy of it is a job.
LEMMA BusyType ==
    ASSUME NEW p \in PCs, NEW e \in Execs \cup {NoExec}, NEW row \in Row, NEW tok \in BOOLEAN
    PROVE  Busy(p, e, row, tok) \in Work
  BY DEF Busy, Work, Fresh, RecStates

\* An idle worker's job is a job.
LEMMA RestingType == Resting \in Work
  BY BusyType, NoRowType DEF Resting, PCs

\* The statements keep the table a table of rows.
LEMMA WriteType ==
    ASSUME TypeOK, NEW e \in Execs, NEW row \in Row, Write(e, row)
    PROVE  rows' \in [Execs -> Row] /\ aged' \subseteq Execs
  BY DEF TypeOK, Write

\* A compare-and-set keeps the table a table of rows.
LEMMA TransitionType ==
    ASSUME TypeOK, NEW e \in Execs, NEW to \in Statuses, Transition(e, to)
    PROVE  /\ rows' \in [Execs -> Row] /\ aged' \subseteq Execs
           /\ rows'[e] \in Row
  <1>1. rows[e] \in Row
    BY DEF TypeOK
  <1>2. [rows[e] EXCEPT !.status = to] \in Row
    BY <1>1 DEF Row
  <1> QED
    BY <1>2, WriteType DEF Transition

\* So does a full-row save of a row.
LEMMA UpsertType ==
    ASSUME TypeOK, NEW e \in Execs, NEW row \in Row, Upsert(e, row)
    PROVE  rows' \in [Execs -> Row] /\ aged' \subseteq Execs
  <1>1. rows[e] \in Row
    BY DEF TypeOK
  <1>2. [row EXCEPT !.lineage = rows[e].lineage, !.attempt = rows[e].attempt,
                    !.planned = rows[e].planned] \in Row
    BY <1>1 DEF Row
  <1> QED
    BY <1>2, WriteType DEF Upsert

\* A worker's new job keeps the work well typed.
GoodJob(job) ==
    /\ job \in Work
    /\ job.pc # "idle" => job.exec \in Execs
    /\ job.pc = "retry" => job.snap.attempt < MaxAttempt

WorkInv == work \in [Workers -> Work] /\ HoldsRow /\ RetryHasAttempt

\* Taking up a job keeps the workers' types, and keeps what TypeInv says of the
\* job if the job says it.
LEMMA BecomeType ==
    ASSUME WorkInv, NEW w \in Workers, NEW job, GoodJob(job), Become(w, job)
    PROVE  WorkInv'
  BY DEF WorkInv, HoldsRow, RetryHasAttempt, GoodJob, Become, Idle, At

\* Going idle keeps the workers' invariants.
LEMMA RestType ==
    ASSUME WorkInv, NEW w \in Workers, Rest(w)
    PROVE  WorkInv'
  <1>1. GoodJob(Resting)
    BY RestingType DEF GoodJob, Resting, Busy
  <1> QED
    BY <1>1, BecomeType DEF Rest

\* So does moving on with the row in hand, except into a retry.
LEMMA GotoType ==
    ASSUME WorkInv, NEW w \in Workers, ~Idle(w), NEW p \in PCs \ {"retry"}, Goto(w, p)
    PROVE  WorkInv'
  BY DEF WorkInv, HoldsRow, RetryHasAttempt, Goto, Idle, At, Work

\* What a worker that takes up a row holds.
LEMMA BusyJob ==
    ASSUME NEW p \in PCs \ {"retry"}, NEW e \in Execs, NEW row \in Row, NEW tok \in BOOLEAN
    PROVE  GoodJob(Busy(p, e, row, tok))
  <1>1. Busy(p, e, row, tok) \in Work
    BY BusyType
  <1> QED
    BY <1>1 DEF GoodJob, Busy

\* Reporting one recommendation's outcome keeps the workers' invariants.
LEMMA ReportType ==
    ASSUME WorkInv, NEW w \in Workers, NEW r \in Recs, NEW s \in RecStates, Report(w, r, s)
    PROVE  WorkInv'
  BY DEF WorkInv, HoldsRow, RetryHasAttempt, Report, Idle, At, Work

\* A purchase keeps the count of commitments within its bound.
LEMMA AcquireType ==
    ASSUME TypeOK, NEW e \in Execs, NEW r \in Recs, Acquire(e, r)
    PROVE  owned' \in [Execs -> [Recs -> 0..2]]
  BY DEF TypeOK, Acquire

\* What a worker with work in hand does keeps the types.
LEMMA StepType ==
    ASSUME TypeInv, NEW w \in Workers, Step(w)
    PROVE  TypeInv'
  <1> DEFINE e == work[w].exec
             snap == work[w].snap
  <1>0. /\ WorkInv /\ TypeOK
        /\ work[w] \in Work /\ snap \in Row
    BY DEF TypeInv, WorkInv, TypeOK, Work
  <1>h. ~Idle(w) => e \in Execs /\ rows[e] \in Row
    BY <1>0 DEF WorkInv, HoldsRow, TypeOK
  <1>g. SUFFICES rows' \in [Execs -> Row] /\ aged' \subseteq Execs /\ WorkInv'
                 /\ owned' \in [Execs -> [Recs -> 0..2]]
                 /\ tagged' \subseteq (Execs \cup {NoExec}) \X Recs
                 /\ approved' \subseteq Execs
    BY DEF TypeInv, WorkInv, TypeOK
  <1>p. At(w, "idle") <=> Idle(w)
    BY DEF At, Idle
  <1>a. \A s \in Statuses : [snap EXCEPT !.status = s] \in Row
    BY <1>0 DEF Row
  <1>d. [snap EXCEPT !.due = TRUE] \in Row
    BY <1>0 DEF Row
  <1>1. CASE ApprovalEmailFailed(w)
    BY <1>1, <1>0, <1>h, <1>a, UpsertType, RestType
       DEF ApprovalEmailFailed, At, Idle, Statuses, TypeOK
  <1>2. CASE ApprovalEmailSent(w)
    BY <1>2, <1>0, RestType DEF ApprovalEmailSent, TypeOK
  <1>3. CASE DirectStamp(w)
    BY <1>3, <1>0, <1>h, UpsertType, GotoType DEF DirectStamp, At, Idle, PCs, TypeOK
  <1>4. CASE DirectApprove(w)
    <2>1. CASE CanTransition(e, {"pending"})
      BY <1>4, <2>1, <1>0, <1>h, TransitionType, BusyJob, BecomeType
         DEF DirectApprove, At, Idle, Statuses, PCs, TypeOK
    <2>2. CASE ~CanTransition(e, {"pending"})
      BY <1>4, <2>2, <1>0, RestType DEF DirectApprove, TypeOK
    <2> QED
      BY <2>1, <2>2
  <1>5. CASE StampApproved(w)
    BY <1>5, <1>0, <1>h, UpsertType, GotoType DEF StampApproved, At, Idle, PCs, TypeOK
  <1>6. CASE StampSchedule(w)
    BY <1>6, <1>0, <1>h, <1>d, UpsertType, RestType DEF StampSchedule, At, Idle, TypeOK
  <1>7. CASE ClaimAndExecute(w)
    <2>1. CASE CanTransition(e, {"approved", "pending"})
      BY <1>7, <2>1, <1>0, <1>h, TransitionType, BusyJob, BecomeType
         DEF ClaimAndExecute, At, Idle, Statuses, PCs, TypeOK
    <2>2. CASE ~CanTransition(e, {"approved", "pending"})
      BY <1>7, <2>2, <1>0, RestType DEF ClaimAndExecute, TypeOK
    <2> QED
      BY <2>1, <2>2
  <1>8. CASE Recover(w)
    <2>1. CASE ~CanTransition(e, {"approved"})
      BY <1>8, <2>1, <1>0, RestType DEF Recover, TypeOK
    <2>2. CASE CanTransition(e, {"approved"}) /\ AllRecsSafeToRedrive(snap)
      BY <1>8, <2>2, <1>0, <1>h, <1>a, TransitionType, BusyJob, BecomeType
         DEF Recover, At, Idle, Statuses, PCs, TypeOK
    <2>3. CASE CanTransition(e, {"approved"}) /\ ~AllRecsSafeToRedrive(snap)
      BY <1>8, <2>3, <1>0, <1>h, TransitionType, BusyJob, BecomeType
         DEF Recover, At, Idle, Statuses, PCs, TypeOK
    <2> QED
      BY <2>1, <2>2, <2>3
  <1>9. CASE Reap(w)
    <2>1. CASE CanTransition(e, Reapable)
      BY <1>9, <2>1, <1>0, <1>h, TransitionType, BusyJob, BecomeType
         DEF Reap, At, Idle, Statuses, PCs, TypeOK
    <2>2. CASE ~CanTransition(e, Reapable)
      BY <1>9, <2>2, <1>0, RestType DEF Reap, TypeOK
    <2> QED
      BY <2>1, <2>2
  <1>10. CASE StampError(w)
    BY <1>10, <1>0, <1>h, UpsertType, RestType DEF StampError, At, Idle, TypeOK
  <1>11. ASSUME NEW r \in Recs,
                BuyDirect(w, r) \/ LookupTag(w, r) \/ BuyUntagged(w, r)
                  \/ TagBought(w, r) \/ BuyRejected(w, r)
         PROVE  TypeInv'
    <2>1. ~Idle(w)
      BY <1>11 DEF BuyDirect, LookupTag, BuyUntagged, TagBought, BuyRejected,
                   Buying, At, Idle
    <2>2. WorkInv'
      BY <1>11, <1>0, ReportType
         DEF BuyDirect, LookupTag, BuyUntagged, TagBought, BuyRejected, RecStates
    <2>3. owned' \in [Execs -> [Recs -> 0..2]]
      BY <1>11, <1>0, <1>h, <2>1, AcquireType
         DEF BuyDirect, LookupTag, BuyUntagged, TagBought, BuyRejected, TypeOK
    <2>4. tagged' \subseteq (Execs \cup {NoExec}) \X Recs
      BY <1>11, <1>0
         DEF BuyDirect, LookupTag, BuyUntagged, TagBought, BuyRejected, TypeOK,
             LineageKey, Row
    <2> QED
      BY <1>11, <1>0, <2>2, <2>3, <2>4
         DEF BuyDirect, LookupTag, BuyUntagged, TagBought, BuyRejected, TypeOK,
             TypeInv, WorkInv
  <1>12. CASE Finalize(w)
    <2> DEFINE final == [snap EXCEPT !.status = Outcome(w), !.bought = BoughtBy(w)]
    <2>1. final \in Row
      BY <1>0 DEF Row, Outcome, BoughtBy, Statuses
    <2>2. GoodJob([Busy("advance", e, final, work[w].token) EXCEPT !.rec = work[w].rec])
      <3>1. Busy("advance", e, final, work[w].token) \in Work
        BY <2>1, <1>12, <1>0, <1>h, BusyType DEF Finalize, At, Idle, PCs, Work
      <3> QED
        BY <3>1, <1>12, <1>0, <1>h DEF GoodJob, Busy, Work, Finalize, At, Idle
    <2>3. WorkInv'
      BY <1>12, <1>0, <2>2, BecomeType, RestType DEF Finalize
    <2> QED
      BY <1>12, <1>0, <1>h, <2>1, <2>3, UpsertType DEF Finalize, At, Idle, TypeOK
  <1>13. CASE AdvanceRamp(w)
    BY <1>13, <1>0, GotoType, RestType
       DEF AdvanceRamp, AfterPurchase, At, Idle, PCs, TypeOK
  <1>14. CASE StampRefusal(w)
    BY <1>14, <1>0, <1>h, UpsertType, GotoType, RestType
       DEF StampRefusal, AfterPurchase, At, Idle, PCs, TypeOK
  <1>15. CASE RotateRead(w)
    BY <1>15, <1>0, <1>h, BusyJob, BecomeType DEF RotateRead, At, Idle, PCs, TypeOK
  <1>16. CASE RotateSave(w)
    BY <1>16, <1>0, <1>h, UpsertType, RestType DEF RotateSave, At, Idle, TypeOK
  <1>17. ASSUME NEW s \in Execs, PersistRetry(w, s)
         PROVE  TypeInv'
    <2>1. /\ snap.attempt \in 0..MaxAttempt /\ snap.attempt < MaxAttempt
          /\ e \in Execs /\ rows[e] \in Row
      BY <1>17, <1>0, <1>h DEF PersistRetry, TypeInv, RetryHasAttempt, At, Idle, Row
    <2>2. SuccessorOf(snap, s) \in Row
      <3>1. NewRow(s, TRUE, snap.planned, snap.recs) \in Row
        BY <1>0, NewRowType DEF Row
      <3>2. snap.attempt + 1 \in 0..MaxAttempt
        BY <2>1, ConstantsAssumption
      <3> QED
        BY <3>1, <3>2, <1>0 DEF SuccessorOf, Row
    <2>3. [snap EXCEPT !.retry = s, !.lineage = rows[e].lineage,
                       !.attempt = rows[e].attempt, !.planned = rows[e].planned] \in Row
      BY <1>0, <2>1 DEF Row
    <2>4. WorkInv'
      BY <1>17, <1>0, <2>2, BusyJob, BecomeType DEF PersistRetry, PCs
    <2> QED
      BY <1>17, <1>0, <2>1, <2>2, <2>3, <2>4 DEF PersistRetry, TypeOK, TypeInv, WorkInv
  <1> QED
    BY <1>1, <1>2, <1>3, <1>4, <1>5, <1>6, <1>7, <1>8, <1>9, <1>10, <1>11, <1>12,
       <1>13, <1>14, <1>15, <1>16, <1>17 DEF Step, TypeInv, WorkInv, TypeOK

\* So does an idle worker that takes a row up.
LEMMA StartType ==
    ASSUME TypeInv, NEW w \in Workers, NEW e \in Execs, Start(w, e)
    PROVE  TypeInv'
  <1>0. WorkInv /\ TypeOK /\ rows[e] \in Row
    BY DEF TypeInv, WorkInv, TypeOK
  <1>g. SUFFICES rows' \in [Execs -> Row] /\ aged' \subseteq Execs /\ WorkInv'
                 /\ owned' = owned /\ tagged' = tagged /\ approved' \subseteq Execs
    BY <1>0 DEF TypeInv, WorkInv, TypeOK
  <1>1. CASE Submit(w, e)
    <2>1. NewRow(e, TRUE, FALSE, Recs) \in Row
      BY NewRowType
    <2> QED
      BY <1>1, <1>0, <2>1, WriteType, BusyJob, BecomeType DEF Submit, Insert, PCs, TypeOK
  <1>2. CASE \E token \in BOOLEAN : Approve(w, e, token)
    BY <1>2, <1>0, TransitionType, BusyJob, BecomeType DEF Approve, Statuses, PCs, TypeOK
  <1>3. CASE ScheduleApproved(w, e)
    BY <1>3, <1>0, TransitionType, BusyJob, BecomeType
       DEF ScheduleApproved, Statuses, PCs, TypeOK
  <1>4. CASE FireDue(w, e)
    BY <1>4, <1>0, TransitionType, BusyJob, BecomeType DEF FireDue, Statuses, PCs, TypeOK
  <1>5. CASE CancelByToken(w, e)
    BY <1>5, <1>0, TransitionType, BusyJob, BecomeType
       DEF CancelByToken, Statuses, PCs, TypeOK
  <1>6. CASE ClaimRead(w, e) \/ ReapSelect(w, e)
    BY <1>6, <1>0, NoRowType, BusyJob, BecomeType DEF ClaimRead, ReapSelect, PCs, TypeOK
  <1>7. CASE RecoverSelect(w, e)
    BY <1>7, <1>0, BusyJob, BecomeType DEF RecoverSelect, PCs, TypeOK
  <1>8. CASE RetryRead(w, e)
    <2>1. Busy("retry", e, rows[e], FALSE) \in Work
      BY <1>0, BusyType DEF PCs
    <2>2. GoodJob(Busy("retry", e, rows[e], FALSE))
      BY <1>8, <2>1 DEF GoodJob, Busy, RetryRead, AttemptsLeft
    <2> QED
      BY <1>8, <1>0, <2>2, BecomeType DEF RetryRead, TypeOK
  <1> QED
    BY <1>1, <1>2, <1>3, <1>4, <1>5, <1>6, <1>7, <1>8 DEF Start

\* So does a request handler of one statement.
LEMMA ButtonType ==
    ASSUME TypeInv, NEW e \in Execs, Button(e)
    PROVE  TypeInv'
  <1>0. TypeOK
    BY DEF TypeInv
  <1>1. CASE CreatePlanned(e)
    <2>1. NewRow(e, FALSE, TRUE, PlanRecs) \in Row
      BY NewRowType, ConstantsAssumption
    <2> QED
      BY <1>1, <1>0, <2>1, WriteType
         DEF CreatePlanned, Insert, TypeInv, TypeOK, HoldsRow, RetryHasAttempt, Idle, At
  <1>2. ASSUME NEW from, NEW to \in Statuses, Handler(e, from, to)
        PROVE  TypeInv'
    BY <1>2, <1>0, TransitionType
       DEF Handler, TypeInv, TypeOK, HoldsRow, RetryHasAttempt, Idle, At
  <1> QED
    BY <1>1, <1>2
       DEF Button, CancelBySession, RevokeScheduled, RequestRevocation, ExpireStale,
           PausePlanned, ResumePlanned, RunPlanned, DeletePlanned, Statuses

\* The pair an armed row belongs to.
LEMMA PairOfArmed ==
    ASSUME NEW p \in Armed, NEW e \in {p[1], p[2]}
    PROVE  PairOf(e) = p
  <1> DEFINE q == CHOOSE q \in Armed : e \in {q[1], q[2]}
  <1>1. q \in Armed /\ e \in {q[1], q[2]}
    OBVIOUS
  <1>2. q = p
    BY <1>1, ConstantsAssumption
  <1> QED
    BY <1>2 DEF PairOf

\* The rows an earlier release left are rows.
LEMMA InitialRowType ==
    ASSUME NEW left \in SUBSET Armed, NEW e \in Execs
    PROVE  InitialRow(left, e) \in Row
  <1>1. NewRow(e, TRUE, FALSE, Recs) \in Row
    BY NewRowType
  <1>2. 1 \in 0..MaxAttempt
    BY ConstantsAssumption
  <1>3. ASSUME NEW p \in Armed, e \in {p[1], p[2]}
        PROVE  PairOf(e)[1] \in Execs /\ PairOf(e)[2] \in Execs
    BY <1>3, PairOfArmed, ConstantsAssumption
  <1> DEFINE row == NewRow(e, TRUE, FALSE, Recs)
  <1>4. CASE \E p \in left : e = p[1]
    <2>1. PairOf(e)[2] \in Execs /\ InitialRow(left, e) = [row EXCEPT !.status = "failed", !.retry = PairOf(e)[2]]
      BY <1>3, <1>4 DEF InitialRow
    <2> HIDE DEF row
    <2>2. QED
      BY <1>1, <2>1 DEF Row, Statuses, row
  <1>5. CASE ~(\E p \in left : e = p[1]) /\ \E p \in left : e = p[2]
    <2>1. PairOf(e)[1] \in Execs /\ InitialRow(left, e) = [row EXCEPT !.lineage = PairOf(e)[1], !.attempt = 1]
      BY <1>3, <1>5 DEF InitialRow
    <2> HIDE DEF row
    <2>2. QED
      BY <1>1, <1>2, <2>1 DEF Row, row
  <1>6. CASE ~(\E p \in left : e = p[1]) /\ ~(\E p \in left : e = p[2])
    BY <1>6, NoRowType DEF InitialRow
  <1> QED
    BY <1>4, <1>5, <1>6

\* The type invariant holds at the start.
LEMMA TypeInit == Init => TypeInv
  <1> SUFFICES ASSUME NEW left \in SUBSET Armed, InitLeft(left) PROVE TypeInv
    BY DEF Init
  <1>1. rows \in [Execs -> Row]
    BY InitialRowType DEF InitLeft
  <1>2. work \in [Workers -> Work] /\ HoldsRow /\ RetryHasAttempt
    BY RestingType DEF InitLeft, HoldsRow, RetryHasAttempt, Idle, At, Resting, Busy
  <1>3. owned \in [Execs -> [Recs -> 0..2]]
    BY DEF InitLeft, InitialOwned
  <1>4. approved \subseteq Execs
    BY ConstantsAssumption DEF InitLeft
  <1> QED
    BY <1>1, <1>2, <1>3, <1>4 DEF InitLeft, TypeInv, TypeOK

\* Every step of the code preserves the type invariant.
LEMMA TypeNext == TypeInv /\ [Next]_vars => TypeInv'
  <1> SUFFICES ASSUME TypeInv, [Next]_vars PROVE TypeInv'
    OBVIOUS
  <1>1. ASSUME NEW w \in Workers, Crash(w) PROVE TypeInv'
    <2>1. WorkInv'
      BY <1>1, RestType DEF Crash, TypeInv, TypeOK, WorkInv
    <2> QED
      BY <1>1, <2>1 DEF Crash, TypeInv, TypeOK, WorkInv
  <1>2. ASSUME NEW e \in Execs, Age(e) PROVE TypeInv'
    BY <1>2 DEF Age, TypeInv, TypeOK, HoldsRow, RetryHasAttempt, Idle, At
  <1>3. CASE UNCHANGED vars
    BY <1>3 DEF vars, TypeInv, TypeOK, HoldsRow, RetryHasAttempt, Idle, At
  <1> QED
    BY <1>1, <1>2, <1>3, StepType, StartType, ButtonType DEF Next

\* Every reachable state is well typed, for any number of executions,
\* recommendations and workers.
THEOREM TypeCorrect == Spec => []TypeOK
  <1>1. TypeInv => TypeOK
    BY DEF TypeInv
  <1> QED
    BY <1>1, TypeInit, TypeNext, PTL DEF Spec

-----------------------------------------------------------------------------
(* Authority and record.  Every row is saved whole from a copy read earlier,*)
(* so what the properties say of the rows has to hold of every copy a       *)
(* worker still holds.  The two parts of the invariant are stated of a      *)
(* table rs and a set ap of approved rows, to be used of the present and of *)
(* the next state alike.                                                    *)

Final == {"completed", "partially_completed", "revocation_requested"}

\* The rows that may buy: approved, or made by a plan that buys unattended.
MayBuyIn(rs, ap) ==
    {e \in Execs : e \in ap \/ (AutoPurchase /\ rs[e].planned /\ ~rs[e].web)}

\* The copy of row e is one an approved row may have been saved from.
SoundCopy(e, row, ap) ==
    /\ row.status \in {"scheduled", "approved"} => e \in ap
    /\ row.bought # {} => row.status \in Final

SoundRow(e, rs, ap) ==
    /\ SoundCopy(e, rs[e], ap)
    /\ rs[e].status = "absent" => rs[e].web
    /\ ~rs[e].web => rs[e].planned

SoundRows(rs, ap) == \A e \in Execs : SoundRow(e, rs, ap)

\* The status of the copy held at each place of the code.
CopyStatus(job) ==
    /\ job.pc \in {"email", "directStamp"} => job.snap.status = "pending"
    /\ job.pc = "stampApproved" => job.snap.status = "approved"
    /\ job.pc = "recover" => job.snap.status = "approved"
    /\ job.pc = "stampSchedule" => job.snap.status = "scheduled"
    /\ job.pc = "purchase" => job.snap.status \in {"approved", "running"}
    /\ job.pc \in {"retry", "stampError"} => job.snap.status = "failed"

\* A refused retry buys nothing.
RefusedIdle(job) ==
    job.pc \in {"stampApproved", "purchase"} /\ ArmedRedriveRefusal(job.snap)
        => \A r \in Recs : job.rec[r] = "todo"

SoundJob(job, rs, ap) ==
    job.pc # "idle" =>
        /\ rs[job.exec].status # "absent"
        /\ job.pc \notin {"claim", "reap"} =>
              /\ job.snap.status # "absent"
              /\ job.snap.web = rs[job.exec].web
              /\ SoundCopy(job.exec, job.snap, ap)
        /\ job.pc \in {"claim", "recover", "stampApproved", "purchase"}
              => job.exec \in MayBuyIn(rs, ap)
        /\ CopyStatus(job)
        /\ RefusedIdle(job)

SoundInv ==
    /\ SoundRows(rows, approved)
    /\ \A w \in Workers : SoundJob(work[w], rows, approved)
    /\ \A e \in Execs, r \in Recs : owned[e][r] > 0 => e \in MayBuyIn(rows, approved)

\* What no step does: forget a row, its source, or an approval.
Stable(rs, rs2, ap, ap2) ==
    /\ ap \subseteq ap2
    /\ \A e \in Execs : rs[e].status # "absent" =>
            /\ rs2[e].status # "absent"
            /\ rs2[e].web = rs[e].web
            /\ rs2[e].planned = rs[e].planned

\* Authority is never lost.
LEMMA MayBuyStable ==
    ASSUME NEW rs, NEW rs2, NEW ap, NEW ap2, Stable(rs, rs2, ap, ap2),
           SoundRows(rs, ap)
    PROVE  MayBuyIn(rs, ap) \subseteq MayBuyIn(rs2, ap2)
  BY DEF Stable, MayBuyIn, SoundRows, SoundRow

\* A sound job stays sound while others write rows.
LEMMA StableJob ==
    ASSUME NEW rs, NEW rs2, NEW ap, NEW ap2, Stable(rs, rs2, ap, ap2),
           SoundRows(rs, ap),
           NEW job, job.pc # "idle" => job.exec \in Execs,
           SoundJob(job, rs, ap)
    PROVE  SoundJob(job, rs2, ap2)
  <1>1. MayBuyIn(rs, ap) \subseteq MayBuyIn(rs2, ap2)
    BY MayBuyStable
  <1> QED
    BY <1>1 DEF SoundJob, SoundCopy, Stable

\* A step of one worker, with a sound next job and no purchase, keeps SoundInv.
LEMMA JobStep ==
    ASSUME TypeInv, SoundInv, NEW w \in Workers, NEW job,
           Become(w, job), SoundJob(job, rows', approved'),
           Stable(rows, rows', approved, approved'),
           SoundRows(rows', approved'),
           owned' = owned
    PROVE  SoundInv'
  <1>1. ASSUME NEW v \in Workers PROVE SoundJob(work[v], rows', approved')
    BY StableJob DEF SoundInv, TypeInv, HoldsRow, Idle
  <1>2. \A v \in Workers : work'[v] = IF v = w THEN job ELSE work[v]
    BY DEF Become, TypeInv, TypeOK
  <1>3. MayBuyIn(rows, approved) \subseteq MayBuyIn(rows', approved')
    BY MayBuyStable DEF SoundInv
  <1> QED
    BY <1>1, <1>2, <1>3 DEF SoundInv

\* A step of no worker keeps it too.
LEMMA RowStep ==
    ASSUME TypeInv, SoundInv, work' = work, owned' = owned,
           Stable(rows, rows', approved, approved'),
           SoundRows(rows', approved')
    PROVE  SoundInv'
  <1>1. ASSUME NEW v \in Workers PROVE SoundJob(work[v], rows', approved')
    BY StableJob DEF SoundInv, TypeInv, HoldsRow, Idle
  <1>2. MayBuyIn(rows, approved) \subseteq MayBuyIn(rows', approved')
    BY MayBuyStable DEF SoundInv
  <1> QED
    BY <1>1, <1>2 DEF SoundInv

\* What each statement does to a sound table.
LEMMA SaveSound ==
    ASSUME TypeOK, SoundRows(rows, approved), NEW e \in Execs, NEW row \in Row,
           rows[e].status # "absent", row.status # "absent", row.web = rows[e].web,
           SoundCopy(e, row, approved), Upsert(e, row), approved' = approved
    PROVE  SoundRows(rows', approved') /\ Stable(rows, rows', approved, approved')
  <1> DEFINE saved == [row EXCEPT !.lineage = rows[e].lineage,
                                  !.attempt = rows[e].attempt,
                                  !.planned = rows[e].planned]
  <1>1. /\ saved.status = row.status /\ saved.web = row.web
        /\ saved.planned = rows[e].planned /\ saved.bought = row.bought
    BY DEF Row
  <1>2. rows' = [rows EXCEPT ![e] = saved]
    BY DEF Upsert, Write
  <1> HIDE DEF saved
  <1>3. \A f \in Execs : rows'[f] = IF f = e THEN saved ELSE rows[f]
    BY <1>2 DEF TypeOK
  <1> QED
    BY <1>1, <1>3 DEF SoundRows, SoundRow, SoundCopy, Stable

\* A compare-and-set keeps the table sound when the new status is.
LEMMA TransitionSound ==
    ASSUME TypeOK, SoundRows(rows, approved), NEW e \in Execs, NEW to \in Statuses,
           rows[e].status # "absent", rows[e].status \in Final => to \in Final,
           approved \subseteq approved',
           to \in {"scheduled", "approved"} => e \in approved', Transition(e, to)
    PROVE  /\ SoundRows(rows', approved') /\ Stable(rows, rows', approved, approved')
           /\ rows'[e] = [rows[e] EXCEPT !.status = to]
           /\ rows'[e].status = to
  <1> DEFINE moved == [rows[e] EXCEPT !.status = to]
  <1>1. /\ moved.status = to /\ moved.web = rows[e].web
        /\ moved.planned = rows[e].planned /\ moved.bought = rows[e].bought
    BY DEF TypeOK, Row
  <1>2. rows' = [rows EXCEPT ![e] = moved]
    BY DEF Transition, Write
  <1> HIDE DEF moved
  <1>3. \A f \in Execs : rows'[f] = IF f = e THEN moved ELSE rows[f]
    BY <1>2 DEF TypeOK
  <1>4. "absent" \notin Statuses
    BY DEF Statuses
  <1> QED
    BY <1>1, <1>3, <1>4 DEF SoundRows, SoundRow, SoundCopy, Stable, moved

\* So does an insert of a new row.
LEMMA InsertSound ==
    ASSUME TypeOK, SoundRows(rows, approved), NEW e \in Execs, NEW row \in Row,
           row.status = "pending", row.bought = {}, ~row.web => row.planned,
           Insert(e, row), approved' = approved
    PROVE  SoundRows(rows', approved') /\ Stable(rows, rows', approved, approved')
  <1>1. \A f \in Execs : rows'[f] = IF f = e THEN row ELSE rows[f]
    BY DEF Insert, Write, TypeOK
  <1> QED
    BY <1>1 DEF SoundRows, SoundRow, SoundCopy, Stable, Insert

\* A step that leaves the table alone keeps it sound.
LEMMA UnchangedSound ==
    ASSUME SoundRows(rows, approved), rows' = rows, approved' = approved
    PROVE  SoundRows(rows', approved') /\ Stable(rows, rows', approved, approved')
  BY DEF SoundRows, Stable

\* An idle worker's job is sound in any table.
LEMMA RestingSound == \A rs, ap : SoundJob(Resting, rs, ap)
  BY DEF SoundJob, Resting, Busy

\* The steps of a worker with work in hand, the purchases apart.
LEMMA StepSound ==
    ASSUME TypeInv, SoundInv, TypeInv', NEW w \in Workers, Step(w),
           \A r \in Recs : ~(BuyDirect(w, r) \/ LookupTag(w, r) \/ BuyUntagged(w, r)
                               \/ TagBought(w, r) \/ BuyRejected(w, r))
    PROVE  SoundInv'
  <1> DEFINE e == work[w].exec
             snap == work[w].snap
  <1>0. /\ TypeOK /\ SoundRows(rows, approved)
        /\ work[w] \in Work /\ snap \in Row
        /\ SoundJob(work[w], rows, approved)
    BY DEF TypeInv, SoundInv, TypeOK, Work
  <1>h. work[w].pc # "idle" => e \in Execs /\ rows[e].status # "absent" /\ rows[e] \in Row
    BY <1>0 DEF TypeInv, HoldsRow, Idle, TypeOK, SoundJob
  <1>s. work[w].pc \notin {"idle", "claim", "reap"} =>
           snap.status # "absent" /\ snap.web = rows[e].web /\ SoundCopy(e, snap, approved)
    BY <1>0 DEF SoundJob
  <1>c. work[w].pc # "idle" => CopyStatus(work[w]) /\ RefusedIdle(work[w])
    BY <1>0 DEF SoundJob
  \* A save of the copy held, or of none, and rest.
  <1>r. ASSUME SoundRows(rows', approved'), Stable(rows, rows', approved, approved'),
               Rest(w), owned' = owned
        PROVE  SoundInv'
    BY <1>r, RestingSound, JobStep DEF Rest
  <1>u. ASSUME work[w].pc \notin {"idle", "claim", "reap"}, Upsert(e, snap), approved' = approved
        PROVE  SoundRows(rows', approved') /\ Stable(rows, rows', approved, approved')
    BY <1>u, <1>0, <1>h, <1>s, SaveSound
  \* The copy goes to another place of the code.
  <1>j. ASSUME NEW p, Goto(w, p), work[w].pc \notin {"idle", "claim", "reap"},
               p \in {"directApprove", "purchase", "stampRefusal", "rotateRead"},
               p = "purchase" => work[w].pc = "stampApproved",
               SoundRows(rows', approved'), Stable(rows, rows', approved, approved'),
               owned' = owned
        PROVE  SoundInv'
    <2> DEFINE job == [work[w] EXCEPT !.pc = p]
    <2>1. Become(w, job)
      BY <1>j DEF Goto, Become, TypeInv, TypeOK
    <2>2. /\ job.pc = p /\ job.exec = e /\ job.snap = snap /\ job.rec = work[w].rec
      BY <1>0 DEF Work
    <2> HIDE DEF job
    <2>3. SoundJob(work[w], rows', approved')
      BY <1>j, <1>0, <1>h, StableJob
    <2>4. SoundJob(job, rows', approved')
      BY <2>2, <2>3, <1>j DEF SoundJob, CopyStatus, RefusedIdle
    <2> QED
      BY <2>1, <2>4, <1>j, JobStep
  <1>1. CASE ApprovalEmailFailed(w)
    <2> DEFINE failed == [snap EXCEPT !.status = "failed"]
    <2>1. At(w, "email") /\ Upsert(e, failed) /\ approved' = approved
      BY <1>1 DEF ApprovalEmailFailed
    <2>2. /\ failed \in Row /\ failed.status = "failed"
          /\ failed.web = snap.web /\ failed.bought = snap.bought
      BY <1>0 DEF Row, Statuses
    <2>3. snap.bought = {}
      BY <2>1, <1>s, <1>c DEF At, CopyStatus, SoundCopy, Final
    <2> HIDE DEF failed
    <2>4. SoundCopy(e, failed, approved)
      BY <2>2, <2>3 DEF SoundCopy
    <2>5. SoundRows(rows', approved') /\ Stable(rows, rows', approved, approved')
      BY <2>1, <2>2, <2>4, <1>0, <1>h, <1>s, SaveSound DEF At
    <2> QED
      BY <2>5, <1>1, <1>r DEF ApprovalEmailFailed
  <1>2. CASE ApprovalEmailSent(w)
    BY <1>2, <1>0, <1>r, UnchangedSound DEF ApprovalEmailSent
  <1>3. CASE DirectStamp(w)
    <2>1. SoundRows(rows', approved') /\ Stable(rows, rows', approved, approved')
      BY <1>3, <1>0, <1>u, UnchangedSound DEF DirectStamp, At
    <2> QED
      BY <2>1, <1>3, <1>j DEF DirectStamp, At
  <1>4. CASE DirectApprove(w)
    <2>1. CASE CanTransition(e, {"pending"})
      <3> DEFINE job == Busy("stampApproved", e, rows'[e], FALSE)
      <3>1. /\ At(w, "directApprove") /\ Transition(e, "approved") /\ Become(w, job)
            /\ approved' = approved \cup {e} /\ owned' = owned
            /\ rows[e].status = "pending"
        BY <1>4, <2>1 DEF DirectApprove, CanTransition
      <3>2. /\ SoundRows(rows', approved') /\ Stable(rows, rows', approved, approved')
            /\ rows'[e].status = "approved"
        BY <3>1, <1>0, <1>h, TransitionSound DEF At, Statuses, Final
      <3>3. SoundJob(job, rows', approved')
        BY <3>1, <3>2, <1>h
           DEF SoundJob, Busy, Fresh, CopyStatus, RefusedIdle, MayBuyIn, SoundRows,
               SoundRow, At
      <3> QED
        BY <3>1, <3>2, <3>3, JobStep
    <2>2. CASE ~CanTransition(e, {"pending"})
      BY <1>4, <2>2, <1>0, <1>r, UnchangedSound DEF DirectApprove
    <2> QED
      BY <2>1, <2>2
  <1>5. CASE StampApproved(w)
    <2>1. SoundRows(rows', approved') /\ Stable(rows, rows', approved, approved')
      BY <1>5, <1>0, <1>u, UnchangedSound DEF StampApproved, At
    <2> QED
      BY <2>1, <1>5, <1>j DEF StampApproved, At
  <1>6. CASE StampSchedule(w)
    <2> DEFINE stamped == [snap EXCEPT !.due = TRUE]
    <2>1. At(w, "stampSchedule") /\ Upsert(e, stamped) /\ approved' = approved
      BY <1>6 DEF StampSchedule
    <2>2. /\ stamped \in Row /\ stamped.status = snap.status
          /\ stamped.web = snap.web /\ stamped.bought = snap.bought
      BY <1>0 DEF Row
    <2> HIDE DEF stamped
    <2>3. SoundCopy(e, stamped, approved)
      BY <2>1, <2>2, <1>s DEF SoundCopy, At
    <2>4. SoundRows(rows', approved') /\ Stable(rows, rows', approved, approved')
      BY <2>1, <2>2, <2>3, <1>0, <1>h, <1>s, SaveSound DEF At
    <2> QED
      BY <2>4, <1>6, <1>r DEF StampSchedule
  <1>7. CASE ClaimAndExecute(w)
    <2>1. CASE CanTransition(e, {"approved", "pending"})
      <3> DEFINE job == Busy("purchase", e, rows'[e], FALSE)
      <3>1. /\ At(w, "claim") /\ Transition(e, "running") /\ Become(w, job)
            /\ approved' = approved /\ owned' = owned
            /\ rows[e].status \in {"approved", "pending"}
        BY <1>7, <2>1 DEF ClaimAndExecute, CanTransition
      <3>2. /\ SoundRows(rows', approved') /\ Stable(rows, rows', approved, approved')
            /\ rows'[e].status = "running"
        BY <3>1, <1>0, <1>h, TransitionSound DEF At, Statuses, Final
      <3>3. e \in MayBuyIn(rows', approved')
        BY <3>1, <3>2, <1>0, MayBuyStable DEF SoundJob, At
      <3>4. SoundJob(job, rows', approved')
        BY <3>1, <3>2, <3>3, <1>h
           DEF SoundJob, Busy, Fresh, CopyStatus, RefusedIdle, SoundRows, SoundRow, At
      <3> QED
        BY <3>1, <3>2, <3>4, JobStep
    <2>2. CASE ~CanTransition(e, {"approved", "pending"})
      BY <1>7, <2>2, <1>0, <1>r, UnchangedSound DEF ClaimAndExecute
    <2> QED
      BY <2>1, <2>2
  <1>8. CASE Recover(w)
    <2>1. CASE ~CanTransition(e, {"approved"})
      BY <1>8, <2>1, <1>0, <1>r, UnchangedSound DEF Recover
    <2>2. CASE CanTransition(e, {"approved"}) /\ AllRecsSafeToRedrive(snap)
      <3> DEFINE copy == [snap EXCEPT !.status = "running"]
                 job == Busy("purchase", e, copy, FALSE)
      <3>1. /\ At(w, "recover") /\ Transition(e, "running") /\ Become(w, job)
            /\ approved' = approved /\ owned' = owned
            /\ rows[e].status = "approved"
        BY <1>8, <2>2 DEF Recover, CanTransition
      <3>2. /\ SoundRows(rows', approved') /\ Stable(rows, rows', approved, approved')
            /\ rows'[e].status = "running"
        BY <3>1, <1>0, <1>h, TransitionSound DEF At, Statuses, Final
      <3>3. e \in MayBuyIn(rows', approved')
        BY <3>1, <3>2, <1>0, MayBuyStable DEF SoundJob, At
      <3>4. copy.status = "running" /\ copy.web = snap.web /\ copy.bought = snap.bought
        BY <1>0 DEF Row
      <3>5. snap.bought = {}
        BY <3>1, <1>s, <1>c DEF At, CopyStatus, SoundCopy, Final
      <3>6. rows'[e].web = snap.web
        BY <3>1, <3>2, <1>h, <1>s DEF Stable, At
      <3> HIDE DEF copy
      <3>7. SoundJob(job, rows', approved')
        BY <3>1, <3>2, <3>3, <3>4, <3>5, <3>6
           DEF SoundJob, Busy, Fresh, CopyStatus, RefusedIdle, SoundCopy
      <3> QED
        BY <3>1, <3>2, <3>7, JobStep
    <2>3. CASE CanTransition(e, {"approved"}) /\ ~AllRecsSafeToRedrive(snap)
      <3> DEFINE job == Busy("stampError", e, rows'[e], FALSE)
      <3>1. /\ At(w, "recover") /\ Transition(e, "failed") /\ Become(w, job)
            /\ approved' = approved /\ owned' = owned
            /\ rows[e].status = "approved"
        BY <1>8, <2>3 DEF Recover, CanTransition
      <3>2. /\ SoundRows(rows', approved') /\ Stable(rows, rows', approved, approved')
            /\ rows'[e].status = "failed"
        BY <3>1, <1>0, <1>h, TransitionSound DEF At, Statuses, Final
      <3>3. SoundJob(job, rows', approved')
        BY <3>1, <3>2, <1>h
           DEF SoundJob, Busy, CopyStatus, RefusedIdle, SoundRows, SoundRow, At
      <3> QED
        BY <3>1, <3>2, <3>3, JobStep
    <2> QED
      BY <2>1, <2>2, <2>3
  <1>9. CASE Reap(w)
    <2>1. CASE CanTransition(e, Reapable)
      <3> DEFINE job == Busy("stampError", e, rows'[e], FALSE)
      <3>1. /\ At(w, "reap") /\ Transition(e, "failed") /\ Become(w, job)
            /\ approved' = approved /\ owned' = owned
            /\ rows[e].status \in {"approved", "running"}
        BY <1>9, <2>1 DEF Reap, CanTransition, Reapable
      <3>2. /\ SoundRows(rows', approved') /\ Stable(rows, rows', approved, approved')
            /\ rows'[e].status = "failed"
        BY <3>1, <1>0, <1>h, TransitionSound DEF At, Statuses, Final
      <3>3. SoundJob(job, rows', approved')
        BY <3>1, <3>2, <1>h
           DEF SoundJob, Busy, CopyStatus, RefusedIdle, SoundRows, SoundRow, At
      <3> QED
        BY <3>1, <3>2, <3>3, JobStep
    <2>2. CASE ~CanTransition(e, Reapable)
      BY <1>9, <2>2, <1>0, <1>r, UnchangedSound DEF Reap
    <2> QED
      BY <2>1, <2>2
  <1>10. CASE StampError(w)
    BY <1>10, <1>u, <1>r DEF StampError, At
  <1>12. CASE Finalize(w)
    <2> DEFINE final == [snap EXCEPT !.status = Outcome(w), !.bought = BoughtBy(w)]
               job == [Busy("advance", e, final, work[w].token) EXCEPT !.rec = work[w].rec]
    <2>1. /\ At(w, "purchase") /\ approved' = approved /\ owned' = owned
          /\ \/ /\ Upsert(e, final)
                /\ IF final.status = "completed" THEN Become(w, job) ELSE Rest(w)
             \/ rows' = rows /\ Rest(w)
      BY <1>12 DEF Finalize
    <2>2. /\ final \in Row /\ final.status = Outcome(w) /\ final.bought = BoughtBy(w)
          /\ final.web = snap.web
      BY <1>0 DEF Row, Outcome, BoughtBy, Statuses
    <2>3. Outcome(w) \in {"completed", "partially_completed", "failed"}
      BY DEF Outcome
    <2>4. snap.bought = {}
      BY <2>1, <1>s, <1>c DEF At, CopyStatus, SoundCopy, Final
    <2>5. BoughtBy(w) # {} => Outcome(w) \in {"completed", "partially_completed"}
      <3>1. CASE ArmedRedriveRefusal(snap)
        <4>1. \A r \in Recs : work[w].rec[r] # "ok"
          BY <3>1, <2>1, <1>c DEF At, RefusedIdle
        <4> QED
          BY <4>1, <2>4, <1>0 DEF BoughtBy, Row
      <3>2. CASE ~ArmedRedriveRefusal(snap)
        BY <3>2 DEF Outcome
      <3> QED
        BY <3>1, <3>2
    <2>6. SoundCopy(e, final, approved)
      BY <2>2, <2>3, <2>5 DEF SoundCopy, Final
    <2>7. /\ job.pc = "advance" /\ job.exec = e /\ job.snap = final
      BY DEF Busy
    <2>8. final.status # "absent"
      BY <2>2, <2>3
    <2> HIDE DEF final, job
    <2>9. CASE Upsert(e, final)
      <3>1. SoundRows(rows', approved') /\ Stable(rows, rows', approved, approved')
        BY <2>9, <2>1, <2>2, <2>6, <2>8, <1>0, <1>h, <1>s, SaveSound DEF At
      <3>2. SoundJob(job, rows', approved')
        <4>1. rows'[e].status # "absent" /\ rows'[e].web = final.web
          BY <3>1, <2>1, <2>2, <1>h, <1>s DEF Stable, At
        <4> QED
          BY <4>1, <2>1, <2>6, <2>7, <2>8 DEF SoundJob, CopyStatus, RefusedIdle
      <3> QED
        BY <3>1, <3>2, <2>1, <1>r, JobStep
    <2>10. CASE rows' = rows /\ Rest(w)
      BY <2>10, <2>1, <1>0, <1>r, UnchangedSound
    <2> QED
      BY <2>1, <2>9, <2>10
  <1>13. CASE AdvanceRamp(w)
    <2>1. SoundRows(rows', approved') /\ Stable(rows, rows', approved, approved')
      BY <1>13, <1>0, UnchangedSound DEF AdvanceRamp
    <2> QED
      BY <2>1, <1>13, <1>r, <1>j DEF AdvanceRamp, AfterPurchase, At
  <1>14. CASE StampRefusal(w)
    <2>1. SoundRows(rows', approved') /\ Stable(rows, rows', approved, approved')
      BY <1>14, <1>0, <1>u, UnchangedSound DEF StampRefusal, At
    <2> QED
      BY <2>1, <1>14, <1>r, <1>j DEF StampRefusal, AfterPurchase, At
  <1>15. CASE RotateRead(w)
    <2> DEFINE job == Busy("rotateSave", e, rows[e], FALSE)
    <2>1. /\ At(w, "rotateRead") /\ Become(w, job) /\ owned' = owned
          /\ rows' = rows /\ approved' = approved
      BY <1>15 DEF RotateRead
    <2>2. SoundJob(job, rows, approved)
      BY <2>1, <1>0, <1>h
         DEF SoundJob, Busy, CopyStatus, RefusedIdle, SoundRows, SoundRow, At
    <2> QED
      BY <2>1, <2>2, <1>0, UnchangedSound, JobStep
  <1>16. CASE RotateSave(w)
    BY <1>16, <1>u, <1>r DEF RotateSave, At
  <1>17. ASSUME NEW s \in Execs, PersistRetry(w, s)
         PROVE  SoundInv'
    <2> DEFINE successor == SuccessorOf(snap, s)
               linked == [snap EXCEPT !.retry = s, !.lineage = rows[e].lineage,
                                      !.attempt = rows[e].attempt,
                                      !.planned = rows[e].planned]
               job == Busy("email", s, successor, FALSE)
    <2>1. /\ At(w, "retry") /\ rows[s].status = "absent"
          /\ rows' = [rows EXCEPT ![s] = successor, ![e] = linked]
          /\ Become(w, job) /\ approved' = approved /\ owned' = owned
      BY <1>17 DEF PersistRetry
    <2>2. snap.status = "failed" /\ snap.bought = {} /\ s # e
      BY <2>1, <1>s, <1>c, <1>h DEF At, CopyStatus, SoundCopy, Final
    <2>3. /\ successor.status = "pending" /\ successor.web = TRUE
          /\ successor.bought = {}
      BY <2>2 DEF SuccessorOf, NewRow
    <2>4. /\ linked.status = "failed" /\ linked.web = snap.web
          /\ linked.planned = rows[e].planned /\ linked.bought = {}
      BY <2>2, <1>0 DEF Row
    <2> HIDE DEF successor, linked
    <2>5. \A f \in Execs : rows'[f] = IF f = e THEN linked
                                      ELSE IF f = s THEN successor ELSE rows[f]
      BY <2>1, <2>2, <1>0 DEF TypeOK
    <2>6. SoundRows(rows', approved')
      BY <2>1, <2>3, <2>4, <2>5, <1>0, <1>h, <1>s
         DEF SoundRows, SoundRow, SoundCopy, At
    <2>7. Stable(rows, rows', approved, approved')
      BY <2>1, <2>3, <2>4, <2>5, <1>h, <1>s DEF Stable, At
    <2>8. SoundJob(job, rows', approved')
      BY <2>2, <2>3, <2>5 DEF SoundJob, Busy, CopyStatus, RefusedIdle, SoundCopy
    <2> QED
      BY <2>1, <2>6, <2>7, <2>8, JobStep
  <1> QED
    BY <1>1, <1>2, <1>3, <1>4, <1>5, <1>6, <1>7, <1>8, <1>9, <1>10, <1>12,
       <1>13, <1>14, <1>15, <1>16, <1>17 DEF Step

\* The purchases: only a row with the authority to buy is at this place.
LEMMA BuySound ==
    ASSUME TypeInv, SoundInv, TypeInv', NEW w \in Workers, NEW r \in Recs,
           BuyDirect(w, r) \/ LookupTag(w, r) \/ BuyUntagged(w, r)
             \/ TagBought(w, r) \/ BuyRejected(w, r)
    PROVE  SoundInv'
  <1> DEFINE e == work[w].exec
             job == work'[w]
  <1>0. TypeOK /\ work[w] \in Work
    BY DEF TypeInv, TypeOK
  <1>1. Buying(w, r) /\ rows' = rows /\ approved' = approved
    BY DEF BuyDirect, LookupTag, BuyUntagged, TagBought, BuyRejected
  <1>2. PICK s \in RecStates : Report(w, r, s)
    BY DEF BuyDirect, LookupTag, BuyUntagged, TagBought, BuyRejected, RecStates
  <1>3. /\ job.pc = work[w].pc /\ job.exec = e /\ job.snap = work[w].snap
        /\ \A v \in Workers \ {w} : work'[v] = work[v]
    BY <1>0, <1>2 DEF Report, TypeOK, Work
  <1>4. /\ work[w].pc = "purchase" /\ ~ArmedRedriveRefusal(work[w].snap)
        /\ SoundJob(work[w], rows, approved)
    BY <1>1 DEF Buying, At, SoundInv
  <1> HIDE DEF job
  <1>5. SoundJob(job, rows, approved)
    BY <1>3, <1>4 DEF SoundJob, CopyStatus, RefusedIdle
  <1>6. e \in MayBuyIn(rows, approved)
    BY <1>4 DEF SoundJob
  <1>7. owned' = owned \/ Acquire(e, r)
    BY DEF BuyDirect, LookupTag, BuyUntagged, TagBought, BuyRejected
  <1>8. \A f \in Execs, q \in Recs : owned'[f][q] > 0 => f \in MayBuyIn(rows, approved)
    BY <1>0, <1>6, <1>7 DEF Acquire, TypeOK, SoundInv, MayBuyIn
  <1>9. \A v \in Workers : SoundJob(work'[v], rows, approved)
    BY <1>3, <1>5 DEF SoundInv, job
  <1> QED
    BY <1>1, <1>8, <1>9 DEF SoundInv

\* A worker takes a row up.
LEMMA StartSound ==
    ASSUME TypeInv, SoundInv, NEW w \in Workers, NEW e \in Execs, Start(w, e)
    PROVE  SoundInv'
  <1>0. TypeOK /\ SoundRows(rows, approved) /\ SoundRow(e, rows, approved)
        /\ rows[e] \in Row
    BY DEF TypeInv, SoundInv, SoundRows, TypeOK
  <1>1. CASE Submit(w, e)
    <2> DEFINE row == NewRow(e, TRUE, FALSE, Recs)
    <2>1. /\ row \in Row /\ row.status = "pending" /\ row.web = TRUE /\ row.bought = {}
      <3>1. row \in Row
        BY NewRowType
      <3> QED
        BY <3>1 DEF NewRow
    <2>2. /\ Insert(e, row) /\ approved' = approved /\ owned' = owned
          /\ \/ Become(w, Busy("email", e, row, FALSE))
             \/ Become(w, Busy("directStamp", e, row, FALSE))
      BY <1>1 DEF Submit
    <2> HIDE DEF row
    <2>3. /\ SoundRows(rows', approved') /\ Stable(rows, rows', approved, approved')
      BY <2>1, <2>2, <1>0, InsertSound
    <2>4. rows'[e] = row
      BY <2>2, <1>0 DEF Insert, Write, TypeOK
    <2>5. ASSUME NEW p \in {"email", "directStamp"}
          PROVE  SoundJob(Busy(p, e, row, FALSE), rows', approved')
      BY <2>1, <2>4 DEF SoundJob, Busy, CopyStatus, RefusedIdle, SoundCopy
    <2> QED
      BY <2>2, <2>3, <2>5, JobStep
  <1>2. ASSUME NEW from, NEW p, NEW to \in Statuses, NEW tok,
               CanTransition(e, from), Transition(e, to),
               Become(w, Busy(p, e, rows'[e], tok)), owned' = owned,
               approved' = approved \/ approved' = approved \cup {e},
               from \subseteq {"pending", "scheduled"},
               \/ p = "stampApproved" /\ to = "approved"
               \/ p = "stampSchedule" /\ to = "scheduled"
               \/ p = "rotateRead" /\ to = "canceled",
               from # {"pending"} \/ to = "canceled" \/ approved' = approved \cup {e},
               to = "scheduled" => approved' = approved \cup {e},
               from = {"pending"} \/ from = {"scheduled"}
        PROVE  SoundInv'
    <2>1. rows[e].status \in {"pending", "scheduled"}
      BY <1>2 DEF CanTransition
    <2>2. to \in {"scheduled", "approved"} => e \in approved'
      BY <1>2, <1>0 DEF CanTransition, SoundRow, SoundCopy
    <2>3. /\ SoundRows(rows', approved') /\ Stable(rows, rows', approved, approved')
          /\ rows'[e].status = to
      BY <1>2, <2>1, <2>2, <1>0, TransitionSound DEF Final
    <2>4. SoundJob(Busy(p, e, rows'[e], tok), rows', approved')
      BY <1>2, <2>2, <2>3
         DEF SoundJob, Busy, Fresh, CopyStatus, RefusedIdle, SoundRows, SoundRow,
             MayBuyIn, Statuses
    <2> QED
      BY <1>2, <2>3, <2>4, JobStep
  <1>3. CASE \E token \in BOOLEAN : Approve(w, e, token)
    BY <1>3, <1>2 DEF Approve, Statuses
  <1>4. CASE ScheduleApproved(w, e)
    BY <1>4, <1>2 DEF ScheduleApproved, Statuses
  <1>5. CASE FireDue(w, e)
    BY <1>5, <1>2 DEF FireDue, Statuses
  <1>6. CASE CancelByToken(w, e)
    BY <1>6, <1>2 DEF CancelByToken, Statuses
  <1>7. CASE ClaimRead(w, e)
    <2> DEFINE job == Busy("claim", e, NoRow, FALSE)
    <2>1. e \in MayBuyIn(rows, approved)
      BY <1>7, <1>0 DEF ClaimRead, ExecutableByScheduler, MayBuyIn, SoundRow, SoundCopy
    <2>2. SoundJob(job, rows, approved)
      BY <1>7, <2>1 DEF ClaimRead, SoundJob, Busy, CopyStatus, RefusedIdle
    <2> QED
      BY <1>7, <2>2, <1>0, UnchangedSound, JobStep DEF ClaimRead
  <1>8. CASE ReapSelect(w, e)
    <2>1. SoundJob(Busy("reap", e, NoRow, FALSE), rows, approved)
      BY <1>8 DEF ReapSelect, Reapable, SoundJob, Busy, CopyStatus, RefusedIdle
    <2> QED
      BY <1>8, <2>1, <1>0, UnchangedSound, JobStep DEF ReapSelect
  <1>9. CASE RecoverSelect(w, e)
    <2>1. SoundJob(Busy("recover", e, rows[e], FALSE), rows, approved)
      BY <1>9, <1>0
         DEF RecoverSelect, SoundJob, Busy, CopyStatus, RefusedIdle, SoundRow,
             SoundCopy, MayBuyIn
    <2> QED
      BY <1>9, <2>1, <1>0, UnchangedSound, JobStep DEF RecoverSelect
  <1>10. CASE RetryRead(w, e)
    <2>1. SoundJob(Busy("retry", e, rows[e], FALSE), rows, approved)
      BY <1>10, <1>0
         DEF RetryRead, SoundJob, Busy, CopyStatus, RefusedIdle, SoundRow
    <2> QED
      BY <1>10, <2>1, <1>0, UnchangedSound, JobStep DEF RetryRead
  <1> QED
    BY <1>1, <1>3, <1>4, <1>5, <1>6, <1>7, <1>8, <1>9, <1>10 DEF Start

\* A request handler of one statement.
LEMMA ButtonSound ==
    ASSUME TypeInv, SoundInv, NEW e \in Execs, Button(e)
    PROVE  SoundInv'
  <1>0. TypeOK /\ SoundRows(rows, approved)
    BY DEF TypeInv, SoundInv
  <1>1. CASE CreatePlanned(e)
    <2> DEFINE row == NewRow(e, FALSE, TRUE, PlanRecs)
    <2>1. /\ row \in Row /\ row.status = "pending" /\ row.planned = TRUE /\ row.bought = {}
      <3>1. row \in Row
        BY NewRowType, ConstantsAssumption
      <3> QED
        BY <3>1 DEF NewRow
    <2>2. Insert(e, row) /\ approved' = approved /\ owned' = owned /\ work' = work
      BY <1>1 DEF CreatePlanned
    <2> HIDE DEF row
    <2> QED
      BY <2>1, <2>2, <1>0, InsertSound, RowStep
  <1>2. ASSUME NEW from, NEW to \in Statuses \ {"scheduled", "approved"},
               Handler(e, from, to), "absent" \notin from,
               from \cap Final # {} => to \in Final
        PROVE  SoundInv'
    <2>1. /\ rows[e].status # "absent"
          /\ rows[e].status \in Final => to \in Final
          /\ Transition(e, to)
          /\ approved' = approved /\ owned' = owned /\ work' = work
      BY <1>2 DEF Handler, CanTransition
    <2> QED
      BY <2>1, <1>0, TransitionSound, RowStep
  <1> QED
    BY <1>1, <1>2
       DEF Button, CancelBySession, RevokeScheduled, RequestRevocation, ExpireStale,
           PausePlanned, ResumePlanned, RunPlanned, DeletePlanned, Statuses, Final

\* Authority and record are sound at the start.
LEMMA SoundInit == Init => SoundInv
  <1> SUFFICES ASSUME NEW left \in SUBSET Armed, InitLeft(left) PROVE SoundInv
    BY DEF Init
  <1>1. ASSUME NEW e \in Execs PROVE SoundRow(e, rows, approved)
    <2>1. rows[e] = InitialRow(left, e)
      BY <1>1 DEF InitLeft
    <2>2. /\ InitialRow(left, e).status \in {"absent", "pending", "failed"}
          /\ InitialRow(left, e).web = TRUE /\ InitialRow(left, e).bought = {}
      BY DEF InitialRow, NewRow, NoRow
    <2> QED
      BY <2>1, <2>2 DEF SoundRow, SoundCopy
  <1>2. \A w \in Workers : SoundJob(work[w], rows, approved)
    BY RestingSound DEF InitLeft
  <1>3. \A e \in Execs, r \in Recs : owned[e][r] > 0 => e \in MayBuyIn(rows, approved)
    BY DEF InitLeft, InitialOwned, MayBuyIn
  <1> QED
    BY <1>1, <1>2, <1>3 DEF SoundInv, SoundRows

\* Every step of the code keeps them sound.
LEMMA SoundNext == TypeInv /\ TypeInv' /\ SoundInv /\ [Next]_vars => SoundInv'
  <1> SUFFICES ASSUME TypeInv, TypeInv', SoundInv, [Next]_vars PROVE SoundInv'
    OBVIOUS
  <1>0. SoundRows(rows, approved)
    BY DEF SoundInv
  <1>1. ASSUME NEW w \in Workers, Crash(w) PROVE SoundInv'
    BY <1>0, <1>1, RestingSound, UnchangedSound, JobStep DEF Crash, Rest
  <1>2. ASSUME NEW e \in Execs, Age(e) PROVE SoundInv'
    BY <1>0, <1>2, UnchangedSound, RowStep DEF Age
  <1>3. CASE UNCHANGED vars
    BY <1>0, <1>3, UnchangedSound, RowStep DEF vars
  <1>4. ASSUME NEW w \in Workers, Step(w) PROVE SoundInv'
    BY <1>4, StepSound, BuySound
  <1> QED
    BY <1>1, <1>2, <1>3, <1>4, StartSound, ButtonSound DEF Next

\* They are sound in every state.
LEMMA SoundCorrect == Spec => [](TypeInv /\ SoundInv)
  BY TypeInit, TypeNext, SoundInit, SoundNext, PTL DEF Spec

\* Nothing is bought for a row no approver approved and no auto-purchase plan
\* made: the only places of the code that buy hold a row with that authority,
\* and no stale save takes its plan or its source from it.
THEOREM NothingUnapproved == Spec => []NoUnapprovedPurchase
  <1>1. SoundInv => NoUnapprovedPurchase
    BY DEF SoundInv, MayBuyIn, NoUnapprovedPurchase, Unattended
  <1> QED
    BY <1>1, SoundCorrect, PTL

\* A row that records a purchase is completed, partially completed or under
\* revocation: no stale copy of such a row carries another status with the
\* purchase, and no failed copy carries a purchase.
THEOREM BoughtRowsFinal == Spec => []BoughtIsFinal
  <1>1. SoundInv => BoughtIsFinal
    BY DEF SoundInv, SoundRows, SoundRow, SoundCopy, BoughtIsFinal, Final
  <1> QED
    BY <1>1, SoundCorrect, PTL

-----------------------------------------------------------------------------
(* Lineages: which row of a chain of retries buys, what a row records of it, and *)
(* that the module implements PurchaseContract.                                 *)

(* The inductive invariant.  As above, a row is saved whole from             *)
(* a copy read earlier, so the copies have to say of the lineage what the    *)
(* rows say.  The parts are stated of a table rs, a count of commitments ow  *)
(* and a set of tags tg, to be used of the present and of the next state.    *)

\* A commitment exists for the recommendation r of the lineage l.
Has(l, r, rs, ow) == \E f \in Execs : rs[f].lineage = l /\ ow[f][r] > 0

\* The execution s is the next attempt after e.
Succeeds(s, e, rs) ==
    /\ rs[s].status # "absent"
    /\ rs[s].lineage = rs[e].lineage
    /\ rs[s].attempt = rs[e].attempt + 1

\* What a copy of the row e records is so.
TrueCopy(e, row, rs, ow) ==
    /\ row.lineage = rs[e].lineage
    /\ row.attempt = rs[e].attempt
    /\ row.retry # NoExec => Succeeds(row.retry, e, rs)
    /\ \A r \in Recs : r \in row.bought => Has(rs[e].lineage, r, rs, ow)
    /\ row.status = "completed" => \A r \in row.recs : Has(rs[e].lineage, r, rs, ow)

\* A row that does not exist has no lineage, no record and no commitment; the
\* first row of a lineage exists; a row made by a retry is not the first.
ChainRow(e, rs, ow) ==
    /\ rs[e].status = "absent" <=> rs[e].lineage = NoExec
    /\ rs[e].status = "absent" => \A r \in Recs : ow[e][r] = 0
    /\ rs[e].status # "absent" =>
         /\ rs[rs[e].lineage].lineage = rs[e].lineage
         /\ rs[e].attempt = 0 => rs[e].lineage = e
    /\ TrueCopy(e, rs[e], rs, ow)

ChainRows(rs, ow) == \A e \in Execs : ChainRow(e, rs, ow)

\* The purchase under way reports only what was bought, and is between lookup
\* and tag only for EC2.
ChainJob(job, rs, ow) ==
    job.pc # "idle" =>
        /\ job.pc \notin {"claim", "reap"} => TrueCopy(job.exec, job.snap, rs, ow)
        /\ \A r \in Recs :
             /\ job.rec[r] \in {"ok", "untagged"} => Has(rs[job.exec].lineage, r, rs, ow)
             /\ job.rec[r] \in {"looked", "untagged"} => rs[job.exec].lineage \in TagGuarded

\* Who has bought what of a lineage.
Money(rs, ow) ==
    \A e \in Execs, r \in Recs : ow[e][r] > 0 =>
        /\ rs[e].lineage \in Unguarded => rs[e].attempt = 0
        /\ rs[e].lineage \notin TagGuarded \cup Unguarded =>
             /\ ow[e][r] = 1
             /\ \A f \in Execs \ {e} : rs[f].lineage = rs[e].lineage => ow[f][r] = 0

\* A tag is on a commitment.
TrueTags(tg, rs, ow) ==
    \A l \in Execs \cup {NoExec}, r \in Recs : <<l, r>> \in tg => Has(l, r, rs, ow)

ChainInv ==
    /\ ChainRows(rows, owned)
    /\ \A w \in Workers : ChainJob(work[w], rows, owned)
    /\ Money(rows, owned)
    /\ TrueTags(tagged, rows, owned)

-----------------------------------------------------------------------------
(* Most steps are quiet: they save copies, change statuses and take work up, *)
(* and neither make a row nor buy.                                           *)

\* What a save, a compare-and-set or no write leaves of every row.
Keeps(rs, rs2) ==
    \A e \in Execs :
        /\ rs2[e].status = "absent" <=> rs[e].status = "absent"
        /\ rs2[e].lineage = rs[e].lineage
        /\ rs2[e].attempt = rs[e].attempt
        /\ rs2[e].web = rs[e].web
        /\ rs2[e].planned = rs[e].planned

QuietRows ==
    /\ Keeps(rows, rows')
    /\ \A e \in Execs : TrueCopy(e, rows'[e], rows, owned)

QuietJobs == \A w \in Workers : ChainJob(work'[w], rows, owned)

\* Approving adds a row that exists to the approved ones.
QuietApproval ==
    \/ approved' = approved
    \/ \E e \in Execs : rows[e].status # "absent" /\ approved' = approved \cup {e}

Quiet ==
    QuietRows /\ QuietJobs /\ QuietApproval /\ owned' = owned /\ tagged' = tagged

\* What a copy says stays so in a table that keeps every row.
LEMMA KeepsCopy ==
    ASSUME NEW rs, NEW rs2, Keeps(rs, rs2), NEW ow, NEW e \in Execs, NEW row \in Row,
           TrueCopy(e, row, rs, ow)
    PROVE  TrueCopy(e, row, rs2, ow)
  <1>1. row.retry # NoExec => row.retry \in Execs
    BY DEF Row
  <1>2. \A l, r : Has(l, r, rs, ow) => Has(l, r, rs2, ow)
    BY DEF Has, Keeps
  <1> QED
    BY <1>1, <1>2 DEF TrueCopy, Succeeds, Keeps

\* A quiet step keeps the invariant.
LEMMA QuietChain ==
    ASSUME TypeInv, TypeInv', ChainInv, Quiet
    PROVE  ChainInv'
  <1>0. /\ TypeOK /\ TypeOK' /\ Keeps(rows, rows') /\ owned' = owned /\ tagged' = tagged
        /\ \A e \in Execs : rows[e] \in Row /\ rows'[e] \in Row
        /\ \A w \in Workers : work'[w] \in Work
    BY DEF TypeInv, TypeOK, Quiet, QuietRows
  <1>h. \A l, r : Has(l, r, rows, owned) => Has(l, r, rows', owned')
    BY <1>0 DEF Has, Keeps
  <1>1. ASSUME NEW e \in Execs PROVE ChainRow(e, rows', owned')
    <2>1. TrueCopy(e, rows'[e], rows', owned')
      BY <1>0, KeepsCopy DEF Quiet, QuietRows
    <2>2. ChainRow(e, rows, owned)
      BY DEF ChainInv, ChainRows
    <2>3. rows[e].status # "absent" => rows[e].lineage \in Execs
      BY <2>2, <1>0 DEF ChainRow, Row
    <2> QED
      BY <2>1, <2>2, <2>3, <1>0 DEF ChainRow, Keeps
  <1>2. ASSUME NEW w \in Workers PROVE ChainJob(work'[w], rows', owned')
    <2>1. ChainJob(work'[w], rows, owned)
      BY DEF Quiet, QuietJobs
    <2>2. work'[w].pc # "idle" => work'[w].exec \in Execs
      BY DEF TypeInv, HoldsRow, Idle
    <2>3. work'[w].snap \in Row
      BY <1>0 DEF Work
    <2> QED
      BY <2>1, <2>2, <2>3, <1>0, <1>h, KeepsCopy DEF ChainJob, Keeps
  <1>3. Money(rows', owned')
    BY <1>0 DEF ChainInv, Money, Keeps
  <1>4. TrueTags(tagged', rows', owned')
    BY <1>0, <1>h DEF ChainInv, TrueTags
  <1> QED
    BY <1>1, <1>2, <1>3, <1>4 DEF ChainInv, ChainRows

\* A full-row save of a true copy is quiet.
LEMMA SaveQuiet ==
    ASSUME TypeOK, ChainInv, NEW e \in Execs, NEW row \in Row, Upsert(e, row),
           rows[e].status # "absent", row.status # "absent", row.web = rows[e].web,
           TrueCopy(e, row, rows, owned)
    PROVE  QuietRows
  <1> DEFINE saved == [row EXCEPT !.lineage = rows[e].lineage,
                                  !.attempt = rows[e].attempt,
                                  !.planned = rows[e].planned]
  <1>1. /\ saved.status = row.status /\ saved.web = row.web
        /\ saved.planned = rows[e].planned /\ saved.bought = row.bought
        /\ saved.recs = row.recs /\ saved.retry = row.retry
        /\ saved.lineage = rows[e].lineage /\ saved.attempt = rows[e].attempt
    BY DEF Row
  <1>2. rows' = [rows EXCEPT ![e] = saved]
    BY DEF Upsert, Write
  <1> HIDE DEF saved
  <1>3. \A f \in Execs : rows'[f] = IF f = e THEN saved ELSE rows[f]
    BY <1>2 DEF TypeOK
  <1> QED
    BY <1>1, <1>3 DEF QuietRows, Keeps, TrueCopy, ChainInv, ChainRows, ChainRow

\* A compare-and-set is quiet: none of them completes a row.
LEMMA TransitionQuiet ==
    ASSUME TypeOK, ChainInv, NEW e \in Execs, NEW to \in Statuses \ {"completed"},
           rows[e].status # "absent", Transition(e, to)
    PROVE  QuietRows
  <1> DEFINE moved == [rows[e] EXCEPT !.status = to]
  <1>1. /\ moved.status = to /\ moved.web = rows[e].web
        /\ moved.planned = rows[e].planned /\ moved.bought = rows[e].bought
        /\ moved.retry = rows[e].retry
        /\ moved.lineage = rows[e].lineage /\ moved.attempt = rows[e].attempt
    BY DEF TypeOK, Row
  <1>2. rows' = [rows EXCEPT ![e] = moved]
    BY DEF Transition, Write
  <1> HIDE DEF moved
  <1>3. \A f \in Execs : rows'[f] = IF f = e THEN moved ELSE rows[f]
    BY <1>2 DEF TypeOK
  <1>4. to # "absent"
    BY DEF Statuses
  <1> QED
    BY <1>1, <1>3, <1>4 DEF QuietRows, Keeps, TrueCopy, ChainInv, ChainRows, ChainRow

\* So is a step that leaves the rows alone.
LEMMA SameQuiet ==
    ASSUME ChainInv, rows' = rows
    PROVE  QuietRows
  BY DEF QuietRows, Keeps, ChainInv, ChainRows, ChainRow

\* A worker that takes up a true job leaves the others theirs.
LEMMA JobQuiet ==
    ASSUME TypeOK, ChainInv, NEW w \in Workers, NEW job, Become(w, job),
           ChainJob(job, rows, owned)
    PROVE  QuietJobs
  BY DEF QuietJobs, Become, TypeOK, ChainInv

\* A worker that rests holds nothing.
LEMMA RestQuiet ==
    ASSUME TypeOK, ChainInv, NEW w \in Workers, Rest(w)
    PROVE  QuietJobs
  <1>1. ChainJob(Resting, rows, owned)
    BY DEF ChainJob, Resting, Busy
  <1> QED
    BY <1>1, JobQuiet DEF Rest

\* A job just taken up has reported nothing, so its copy is all there is to it.
LEMMA BusyChain ==
    ASSUME NEW p, NEW e, NEW row, NEW tok,
           p \notin {"claim", "reap"} => TrueCopy(e, row, rows, owned)
    PROVE  ChainJob(Busy(p, e, row, tok), rows, owned)
  BY DEF ChainJob, Busy, Fresh

\* The row a compare-and-set leaves is a true copy, and may be taken up.
LEMMA TakeQuiet ==
    ASSUME TypeOK, ChainInv, NEW e \in Execs, QuietRows, NEW w \in Workers,
           NEW p, NEW tok, Become(w, Busy(p, e, rows'[e], tok))
    PROVE  QuietJobs
  BY BusyChain, JobQuiet DEF QuietRows

\* The steps of a worker with work in hand are quiet, but for the purchases and
\* the retry.
LEMMA StepQuiet ==
    ASSUME TypeInv, TypeInv', SoundInv, ChainInv, NEW w \in Workers, Step(w),
           \A r \in Recs : ~(BuyDirect(w, r) \/ LookupTag(w, r) \/ BuyUntagged(w, r)
                               \/ TagBought(w, r) \/ BuyRejected(w, r)),
           \A s \in Execs : ~PersistRetry(w, s)
    PROVE  Quiet
  <1> DEFINE e == work[w].exec
             snap == work[w].snap
  <1>0. /\ TypeOK /\ TypeOK' /\ work[w] \in Work /\ snap \in Row
        /\ SoundJob(work[w], rows, approved) /\ ChainJob(work[w], rows, owned)
    BY DEF TypeInv, SoundInv, ChainInv, TypeOK, Work
  <1>h. work[w].pc # "idle" => e \in Execs /\ rows[e].status # "absent" /\ rows[e] \in Row
    BY <1>0 DEF TypeInv, HoldsRow, Idle, TypeOK, SoundJob
  <1>s. work[w].pc \notin {"idle", "claim", "reap"} =>
           /\ snap.status # "absent" /\ snap.web = rows[e].web
           /\ TrueCopy(e, snap, rows, owned) /\ CopyStatus(work[w])
    BY <1>0 DEF SoundJob, ChainJob
  <1>u. ASSUME work[w].pc \notin {"idle", "claim", "reap"}, Upsert(e, snap)
        PROVE  QuietRows
    BY <1>u, <1>0, <1>h, <1>s, SaveQuiet
  \* The copy with another status, not completed, is still a true copy.
  <1>t. ASSUME work[w].pc \notin {"idle", "claim", "reap"},
               NEW to \in Statuses \ {"completed"}
        PROVE  /\ [snap EXCEPT !.status = to] \in Row
               /\ [snap EXCEPT !.status = to].status = to
               /\ [snap EXCEPT !.status = to].web = snap.web
               /\ TrueCopy(e, [snap EXCEPT !.status = to], rows, owned)
    BY <1>t, <1>0, <1>s DEF Row, TrueCopy
  \* The copy goes to another place of the code.
  <1>j. ASSUME NEW p, Goto(w, p), work[w].pc \notin {"idle", "claim", "reap"}
        PROVE  QuietJobs
    <2> DEFINE job == [work[w] EXCEPT !.pc = p]
    <2>1. Become(w, job)
      BY <1>j, <1>0 DEF Goto, Become, TypeOK
    <2>2. /\ job.exec = e /\ job.snap = snap /\ job.rec = work[w].rec
      BY <1>0 DEF Work
    <2> HIDE DEF job
    <2>3. ChainJob(job, rows, owned)
      BY <2>2, <1>j, <1>0, <1>s DEF ChainJob
    <2> QED
      BY <2>1, <2>3, <1>0, JobQuiet
  <1>1. CASE ApprovalEmailFailed(w)
    <2> DEFINE failed == [snap EXCEPT !.status = "failed"]
    <2>1. At(w, "email") /\ Upsert(e, failed) /\ Rest(w)
          /\ owned' = owned /\ tagged' = tagged /\ approved' = approved
      BY <1>1 DEF ApprovalEmailFailed
    <2>2. /\ failed \in Row /\ failed.status = "failed" /\ failed.web = snap.web
          /\ TrueCopy(e, failed, rows, owned)
      BY <2>1, <1>t DEF At, Statuses
    <2> HIDE DEF failed
    <2>3. QuietRows
      BY <2>1, <2>2, <1>0, <1>h, <1>s, SaveQuiet DEF At
    <2> QED
      BY <2>1, <2>3, <1>0, RestQuiet DEF Quiet, QuietApproval
  <1>2. CASE ApprovalEmailSent(w)
    BY <1>2, <1>0, SameQuiet, RestQuiet DEF ApprovalEmailSent, Quiet, QuietApproval
  <1>3. CASE DirectStamp(w) \/ StampApproved(w)
    BY <1>3, <1>u, <1>j, SameQuiet
       DEF DirectStamp, StampApproved, At, Quiet, QuietApproval
  <1>4. CASE DirectApprove(w)
    <2>1. CASE CanTransition(e, {"pending"})
      <3>1. QuietRows
        BY <1>4, <2>1, <1>0, <1>h, TransitionQuiet DEF DirectApprove, At, Statuses
      <3>2. QuietJobs
        BY <1>4, <2>1, <3>1, <1>0, <1>h, TakeQuiet DEF DirectApprove, At
      <3> QED
        BY <1>4, <2>1, <3>1, <3>2, <1>h DEF DirectApprove, At, Quiet, QuietApproval
    <2>2. CASE ~CanTransition(e, {"pending"})
      BY <1>4, <2>2, <1>0, SameQuiet, RestQuiet DEF DirectApprove, Quiet, QuietApproval
    <2> QED
      BY <2>1, <2>2
  <1>5. CASE StampSchedule(w)
    <2> DEFINE stamped == [snap EXCEPT !.due = TRUE]
    <2>1. /\ stamped \in Row /\ stamped.status = snap.status /\ stamped.web = snap.web
          /\ stamped.lineage = snap.lineage /\ stamped.attempt = snap.attempt
          /\ stamped.retry = snap.retry /\ stamped.bought = snap.bought
          /\ stamped.recs = snap.recs
      BY <1>0 DEF Row
    <2>2. At(w, "stampSchedule") /\ Upsert(e, stamped) /\ Rest(w)
          /\ owned' = owned /\ tagged' = tagged /\ approved' = approved
      BY <1>5 DEF StampSchedule
    <2> HIDE DEF stamped
    <2>3. TrueCopy(e, stamped, rows, owned)
      BY <2>1, <2>2, <1>s DEF At, TrueCopy
    <2>4. QuietRows
      BY <2>1, <2>2, <2>3, <1>0, <1>h, <1>s, SaveQuiet DEF At
    <2> QED
      BY <2>2, <2>4, <1>0, RestQuiet DEF Quiet, QuietApproval
  <1>6. CASE ClaimAndExecute(w)
    <2>1. CASE CanTransition(e, {"approved", "pending"})
      <3>1. QuietRows
        BY <1>6, <2>1, <1>0, <1>h, TransitionQuiet DEF ClaimAndExecute, At, Statuses
      <3>2. QuietJobs
        BY <1>6, <2>1, <3>1, <1>0, <1>h, TakeQuiet DEF ClaimAndExecute, At
      <3> QED
        BY <1>6, <3>1, <3>2 DEF ClaimAndExecute, Quiet, QuietApproval
    <2>2. CASE ~CanTransition(e, {"approved", "pending"})
      BY <1>6, <2>2, <1>0, SameQuiet, RestQuiet DEF ClaimAndExecute, Quiet, QuietApproval
    <2> QED
      BY <2>1, <2>2
  <1>7. CASE Recover(w)
    <2>1. CASE ~CanTransition(e, {"approved"})
      BY <1>7, <2>1, <1>0, SameQuiet, RestQuiet DEF Recover, Quiet, QuietApproval
    <2>2. CASE CanTransition(e, {"approved"}) /\ AllRecsSafeToRedrive(snap)
      <3>1. QuietRows
        BY <1>7, <2>2, <1>0, <1>h, TransitionQuiet DEF Recover, At, Statuses
      <3>2. TrueCopy(e, [snap EXCEPT !.status = "running"], rows, owned)
        BY <1>7, <1>t DEF Recover, At, Statuses
      <3>3. QuietJobs
        BY <1>7, <2>2, <3>2, <1>0, BusyChain, JobQuiet DEF Recover
      <3> QED
        BY <1>7, <3>1, <3>3 DEF Recover, Quiet, QuietApproval
    <2>3. CASE CanTransition(e, {"approved"}) /\ ~AllRecsSafeToRedrive(snap)
      <3>1. QuietRows
        BY <1>7, <2>3, <1>0, <1>h, TransitionQuiet DEF Recover, At, Statuses
      <3>2. QuietJobs
        BY <1>7, <2>3, <3>1, <1>0, <1>h, TakeQuiet DEF Recover, At
      <3> QED
        BY <1>7, <3>1, <3>2 DEF Recover, Quiet, QuietApproval
    <2> QED
      BY <2>1, <2>2, <2>3
  <1>8. CASE Reap(w)
    <2>1. CASE CanTransition(e, Reapable)
      <3>1. QuietRows
        BY <1>8, <2>1, <1>0, <1>h, TransitionQuiet DEF Reap, At, Statuses
      <3>2. QuietJobs
        BY <1>8, <2>1, <3>1, <1>0, <1>h, TakeQuiet DEF Reap, At
      <3> QED
        BY <1>8, <3>1, <3>2 DEF Reap, Quiet, QuietApproval
    <2>2. CASE ~CanTransition(e, Reapable)
      BY <1>8, <2>2, <1>0, SameQuiet, RestQuiet DEF Reap, Quiet, QuietApproval
    <2> QED
      BY <2>1, <2>2
  <1>9. CASE StampError(w) \/ RotateSave(w)
    BY <1>9, <1>u, <1>0, RestQuiet DEF StampError, RotateSave, At, Quiet, QuietApproval
  <1>10. CASE Finalize(w)
    <2> DEFINE final == [snap EXCEPT !.status = Outcome(w), !.bought = BoughtBy(w)]
               job == [Busy("advance", e, final, work[w].token) EXCEPT !.rec = work[w].rec]
    <2>1. /\ At(w, "purchase") /\ approved' = approved /\ owned' = owned /\ tagged' = tagged
          /\ \/ /\ Upsert(e, final)
                /\ IF final.status = "completed" THEN Become(w, job) ELSE Rest(w)
             \/ rows' = rows /\ Rest(w)
      BY <1>10 DEF Finalize
    <2>2. /\ final \in Row /\ final.status = Outcome(w) /\ final.bought = BoughtBy(w)
          /\ final.web = snap.web /\ final.recs = snap.recs /\ final.retry = snap.retry
          /\ final.lineage = snap.lineage /\ final.attempt = snap.attempt
      BY <1>0 DEF Row, Outcome, BoughtBy, Statuses
    <2>3. \A r \in Recs : work[w].rec[r] = "ok" => Has(rows[e].lineage, r, rows, owned)
      BY <2>1, <1>0 DEF ChainJob, At
    <2>4. Outcome(w) = "completed" => \A r \in snap.recs : work[w].rec[r] = "ok"
      BY DEF Outcome
    <2>5. snap.recs \subseteq Recs
      BY <1>0 DEF Row
    <2>6. \A r \in BoughtBy(w) : r \in snap.bought \/ (r \in Recs /\ work[w].rec[r] = "ok")
      BY <2>5 DEF BoughtBy
    <2>7. /\ job.pc = "advance" /\ job.exec = e /\ job.snap = final
          /\ job.rec = work[w].rec
      BY DEF Busy
    <2> HIDE DEF final, job
    <2>8. TrueCopy(e, final, rows, owned)
      BY <2>1, <2>2, <2>3, <2>4, <2>5, <2>6, <1>s DEF TrueCopy, At
    <2>9. final.status # "absent"
      BY <2>2 DEF Outcome
    <2>10. ChainJob(job, rows, owned)
      BY <2>1, <2>7, <2>8, <1>0 DEF ChainJob, At
    <2>11. QuietJobs
      BY <2>1, <2>10, <1>0, JobQuiet, RestQuiet
    <2>12. QuietRows
      BY <2>1, <2>2, <2>8, <2>9, <1>0, <1>h, <1>s, SaveQuiet, SameQuiet DEF At
    <2> QED
      BY <2>1, <2>11, <2>12 DEF Quiet, QuietApproval
  <1>11. CASE AdvanceRamp(w)
    BY <1>11, <1>0, <1>j, SameQuiet, RestQuiet
       DEF AdvanceRamp, AfterPurchase, At, Quiet, QuietApproval
  <1>12. CASE StampRefusal(w)
    <2>1. QuietRows
      BY <1>12, <1>u, SameQuiet DEF StampRefusal, At
    <2> QED
      BY <1>12, <2>1, <1>0, <1>j, RestQuiet
         DEF StampRefusal, AfterPurchase, At, Quiet, QuietApproval
  <1>13. CASE RotateRead(w)
    <2>1. TrueCopy(e, rows[e], rows, owned)
      BY <1>13, <1>h DEF RotateRead, At, ChainInv, ChainRows, ChainRow
    <2>2. QuietJobs
      BY <1>13, <2>1, <1>0, BusyChain, JobQuiet DEF RotateRead
    <2> QED
      BY <1>13, <2>2, SameQuiet DEF RotateRead, Quiet, QuietApproval
  <1> QED
    BY <1>1, <1>2, <1>3, <1>4, <1>5, <1>6, <1>7, <1>8, <1>9, <1>10, <1>11, <1>12, <1>13
       DEF Step

\* So are the ways an idle worker takes a row up, but for the submission.
LEMMA StartQuiet ==
    ASSUME TypeInv, SoundInv, ChainInv, NEW w \in Workers, NEW e \in Execs,
           Start(w, e), ~Submit(w, e)
    PROVE  Quiet
  <1>0. /\ TypeOK /\ TrueCopy(e, rows[e], rows, owned)
    BY DEF TypeInv, ChainInv, ChainRows, ChainRow
  <1>1. ASSUME NEW from, NEW p, NEW to \in Statuses \ {"completed"}, NEW tok,
               CanTransition(e, from), "absent" \notin from, Transition(e, to),
               Become(w, Busy(p, e, rows'[e], tok)),
               owned' = owned, tagged' = tagged,
               approved' = approved \/ approved' = approved \cup {e}
        PROVE  Quiet
    <2>1. rows[e].status # "absent"
      BY <1>1 DEF CanTransition
    <2>2. QuietRows
      BY <1>1, <2>1, <1>0, TransitionQuiet
    <2>3. QuietJobs
      BY <1>1, <2>2, <1>0, TakeQuiet
    <2> QED
      BY <1>1, <2>1, <2>2, <2>3 DEF Quiet, QuietApproval
  <1>2. CASE (\E token \in BOOLEAN : Approve(w, e, token)) \/ ScheduleApproved(w, e)
             \/ FireDue(w, e) \/ CancelByToken(w, e)
    BY <1>2, <1>1 DEF Approve, ScheduleApproved, FireDue, CancelByToken, Statuses
  <1>3. ASSUME NEW p, NEW row, Become(w, Busy(p, e, row, FALSE)),
               p \in {"claim", "reap"} \/ row = rows[e],
               rows' = rows, owned' = owned, tagged' = tagged, approved' = approved
        PROVE  Quiet
    <2>1. QuietJobs
      BY <1>3, <1>0, BusyChain, JobQuiet
    <2> QED
      BY <1>3, <2>1, SameQuiet DEF Quiet, QuietApproval
  <1>4. CASE ClaimRead(w, e) \/ ReapSelect(w, e) \/ RecoverSelect(w, e) \/ RetryRead(w, e)
    BY <1>4, <1>3 DEF ClaimRead, ReapSelect, RecoverSelect, RetryRead
  <1> QED
    BY <1>2, <1>4 DEF Start

\* And so are the handlers of one statement, but for the plan's.
LEMMA ButtonQuiet ==
    ASSUME TypeInv, SoundInv, ChainInv, NEW e \in Execs, Button(e), ~CreatePlanned(e)
    PROVE  Quiet
  <1>1. ASSUME NEW from, NEW to \in Statuses \ {"completed"}, Handler(e, from, to),
               "absent" \notin from
        PROVE  Quiet
    <2>1. rows[e].status # "absent"
      BY <1>1 DEF Handler, CanTransition
    <2>2. QuietRows
      BY <1>1, <2>1, TransitionQuiet DEF Handler, TypeInv
    <2> QED
      BY <1>1, <2>2 DEF Handler, Quiet, QuietApproval, QuietJobs, ChainInv
  <1> QED
    BY <1>1
       DEF Button, CancelBySession, RevokeScheduled, RequestRevocation, ExpireStale,
           PausePlanned, ResumePlanned, RunPlanned, DeletePlanned, Statuses

-----------------------------------------------------------------------------
(* The steps that make a row: a submission, a plan's row and a retry.        *)

\* A new row is its lineage's first, or a later attempt of one that exists, and
\* the others are kept.
Makes(s) ==
    /\ rows[s].status = "absent"
    /\ \A e \in Execs \ {s} :
         /\ rows'[e].status = "absent" <=> rows[e].status = "absent"
         /\ rows'[e].lineage = rows[e].lineage
         /\ rows'[e].attempt = rows[e].attempt
         /\ rows'[e].web = rows[e].web
         /\ rows'[e].planned = rows[e].planned
         /\ TrueCopy(e, rows'[e], rows', owned)
    /\ rows'[s].status = "pending"
    /\ rows'[s].bought = {}
    /\ rows'[s].retry = NoExec
    /\ rows'[s].lineage \in Execs
    /\ \/ rows'[s].lineage = s
       \/ /\ rows'[s].attempt > 0
          /\ rows[rows'[s].lineage].lineage = rows'[s].lineage
    /\ \A w \in Workers : ChainJob(work'[w], rows', owned)
    /\ owned' = owned /\ tagged' = tagged /\ approved' = approved

\* A table with one more row, the others as they were.
Adds(s, rs, rs2) ==
    /\ rs[s].status = "absent"
    /\ \A e \in Execs \ {s} :
         /\ rs2[e].status = "absent" <=> rs[e].status = "absent"
         /\ rs2[e].lineage = rs[e].lineage
         /\ rs2[e].attempt = rs[e].attempt

\* What was bought for a lineage stays bought.
LEMMA AddsHas ==
    ASSUME NEW rs, NEW rs2, NEW s \in Execs, Adds(s, rs, rs2), ChainRows(rs, owned),
           NEW l, NEW r \in Recs, Has(l, r, rs, owned)
    PROVE  Has(l, r, rs2, owned)
  <1>1. PICK f \in Execs : rs[f].lineage = l /\ owned[f][r] > 0
    BY DEF Has
  <1>2. f # s
    BY <1>1 DEF Adds, ChainRows, ChainRow
  <1> QED
    BY <1>1, <1>2 DEF Has, Adds

\* What a copy says of another row stays so.
LEMMA AddsCopy ==
    ASSUME NEW rs, NEW rs2, NEW s \in Execs, Adds(s, rs, rs2), ChainRows(rs, owned),
           NEW e \in Execs \ {s}, NEW row \in Row, TrueCopy(e, row, rs, owned)
    PROVE  TrueCopy(e, row, rs2, owned)
  <1>1. row.retry # NoExec => row.retry \in Execs
    BY DEF Row
  <1>2. \A r \in Recs : Has(rs[e].lineage, r, rs, owned) => Has(rs2[e].lineage, r, rs2, owned)
    BY AddsHas DEF Adds
  <1>3. row.recs \subseteq Recs
    BY DEF Row
  <1> QED
    BY <1>1, <1>2, <1>3 DEF TrueCopy, Succeeds, Adds

\* The jobs of the others stay true.
LEMMA AddsJob ==
    ASSUME NEW rs, NEW rs2, NEW s \in Execs, Adds(s, rs, rs2), ChainRows(rs, owned),
           NEW job \in Work, job.pc # "idle" => job.exec \in Execs \ {s},
           ChainJob(job, rs, owned)
    PROVE  ChainJob(job, rs2, owned)
  <1>1. job.snap \in Row
    BY DEF Work
  <1>2. CASE job.pc # "idle"
    <2>1. \A r \in Recs : Has(rs[job.exec].lineage, r, rs, owned)
                            => Has(rs2[job.exec].lineage, r, rs2, owned)
      BY <1>2, AddsHas DEF Adds
    <2>2. rs2[job.exec].lineage = rs[job.exec].lineage
      BY <1>2 DEF Adds
    <2>3. job.pc \notin {"claim", "reap"} => TrueCopy(job.exec, job.snap, rs2, owned)
      BY <1>1, <1>2, AddsCopy DEF ChainJob
    <2> QED
      BY <2>1, <2>2, <2>3, <1>2 DEF ChainJob
  <1> QED
    BY <1>2 DEF ChainJob

\* A step that makes a row keeps the invariant.
LEMMA MakesChain ==
    ASSUME TypeInv, TypeInv', ChainInv, NEW s \in Execs, Makes(s)
    PROVE  ChainInv'
  <1>0. /\ \A e \in Execs : rows[e] \in Row /\ rows'[e] \in Row
        /\ Adds(s, rows, rows') /\ ChainRows(rows, owned) /\ owned' = owned
    BY DEF TypeInv, TypeOK, Makes, Adds, ChainInv
  <1>1. ASSUME NEW e \in Execs \ {s} PROVE ChainRow(e, rows', owned')
    <2>1. ChainRow(e, rows, owned)
      BY <1>0 DEF ChainRows
    <2>2. TrueCopy(e, rows'[e], rows', owned')
      BY <1>0 DEF Makes
    <2>3. rows[e].status # "absent" =>
             /\ rows[e].lineage \in Execs
             /\ rows[rows[e].lineage].lineage = rows[e].lineage
             /\ rows[e].lineage # NoExec
      BY <2>1, <1>0 DEF ChainRow, Row
    <2>4. rows[s].lineage = NoExec
      BY <1>0 DEF ChainRows, ChainRow, Adds
    <2> QED
      BY <2>1, <2>2, <2>3, <2>4, <1>0 DEF ChainRow, Adds
  <1>2. ChainRow(s, rows', owned')
    <2>1. TrueCopy(s, rows'[s], rows', owned')
      BY DEF Makes, TrueCopy
    <2>2. \A r \in Recs : owned[s][r] = 0
      BY <1>0 DEF ChainRows, ChainRow, Adds
    <2>3. rows'[s].lineage # NoExec
      BY ConstantsAssumption DEF Makes
    <2>4. rows'[rows'[s].lineage].lineage = rows'[s].lineage
      BY DEF Makes
    <2> QED
      BY <2>1, <2>2, <2>3, <2>4, <1>0 DEF ChainRow, Makes
  <1>3. Money(rows', owned')
    <2>1. \A r \in Recs : owned[s][r] = 0
      BY <1>0 DEF ChainRows, ChainRow, Adds
    <2> QED
      BY <2>1, <1>0 DEF Money, ChainInv, Adds
  <1>4. TrueTags(tagged', rows', owned')
    BY <1>0, AddsHas DEF TrueTags, ChainInv, Makes
  <1> QED
    BY <1>0, <1>1, <1>2, <1>3, <1>4 DEF ChainInv, ChainRows, Makes

\* An inserted row is the first of its lineage.
LEMMA InsertMakes ==
    ASSUME TypeInv, ChainInv, NEW e \in Execs, NEW web \in BOOLEAN,
           NEW planned \in BOOLEAN, NEW recs \in SUBSET Recs,
           Insert(e, NewRow(e, web, planned, recs)),
           owned' = owned, tagged' = tagged, approved' = approved,
           \A w \in Workers : work'[w] = work[w] \/ ChainJob(work'[w], rows', owned),
           \A w \in Workers : work[w].pc # "idle" => work[w].exec # e
    PROVE  Makes(e)
  <1> DEFINE row == NewRow(e, web, planned, recs)
  <1>0. /\ TypeOK /\ ChainRows(rows, owned) /\ row \in Row
        /\ \A f \in Execs : rows[f] \in Row
        /\ \A w \in Workers : work[w] \in Work
    BY NewRowType DEF TypeInv, TypeOK, ChainInv
  <1>1. /\ row.status = "pending" /\ row.bought = {} /\ row.retry = NoExec
        /\ row.lineage = e
    BY DEF NewRow
  <1>2. rows[e].status = "absent" /\ rows' = [rows EXCEPT ![e] = row]
    BY DEF Insert, Write
  <1> HIDE DEF row
  <1>3. \A f \in Execs : rows'[f] = IF f = e THEN row ELSE rows[f]
    BY <1>0, <1>2 DEF TypeOK
  <1>4. Adds(e, rows, rows')
    BY <1>2, <1>3 DEF Adds
  <1>5. \A f \in Execs \ {e} : TrueCopy(f, rows'[f], rows', owned)
    BY <1>0, <1>3, <1>4, AddsCopy DEF ChainRows, ChainRow
  <1>6. ASSUME NEW w \in Workers PROVE ChainJob(work'[w], rows', owned)
    <2>1. ChainJob(work[w], rows, owned)
      BY DEF ChainInv
    <2>2. work[w].pc # "idle" => work[w].exec \in Execs \ {e}
      BY DEF TypeInv, HoldsRow, Idle
    <2> QED
      BY <2>1, <2>2, <1>0, <1>4, AddsJob
  <1> QED
    BY <1>1, <1>2, <1>3, <1>5, <1>6 DEF Makes

\* A submission makes a row.
LEMMA SubmitMakes ==
    ASSUME TypeInv, SoundInv, ChainInv, NEW w \in Workers, NEW e \in Execs, Submit(w, e)
    PROVE  Makes(e)
  <1> DEFINE row == NewRow(e, TRUE, FALSE, Recs)
  <1>1. PICK p \in {"email", "directStamp"} : Become(w, Busy(p, e, row, FALSE))
    BY DEF Submit
  <1>2. /\ Insert(e, row) /\ owned' = owned /\ tagged' = tagged /\ approved' = approved
    BY DEF Submit
  <1>3. rows'[e] = row
    BY <1>2 DEF Insert, Write, TypeInv, TypeOK
  <1>4. TrueCopy(e, row, rows', owned)
    BY <1>3 DEF TrueCopy, NewRow
  <1>5. ChainJob(Busy(p, e, row, FALSE), rows', owned)
    BY <1>4 DEF ChainJob, Busy, Fresh
  <1>6. \A v \in Workers : work'[v] = work[v] \/ ChainJob(work'[v], rows', owned)
    BY <1>1, <1>5 DEF Become, TypeInv, TypeOK
  <1>7. \A v \in Workers : work[v].pc # "idle" => work[v].exec # e
    BY <1>2 DEF Insert, SoundInv, SoundJob
  <1> QED
    BY <1>2, <1>6, <1>7, InsertMakes

\* So does a plan.
LEMMA PlannedMakes ==
    ASSUME TypeInv, SoundInv, ChainInv, NEW e \in Execs, CreatePlanned(e)
    PROVE  Makes(e)
  <1>1. \A v \in Workers : work[v].pc # "idle" => work[v].exec # e
    BY DEF CreatePlanned, Insert, SoundInv, SoundJob
  <1> QED
    BY <1>1, InsertMakes, ConstantsAssumption DEF CreatePlanned

\* So does a retry, whose row is the next attempt of the row it links.
LEMMA RetryMakes ==
    ASSUME TypeInv, SoundInv, ChainInv, NEW w \in Workers, NEW s \in Execs,
           PersistRetry(w, s)
    PROVE  Makes(s)
  <1> DEFINE e == work[w].exec
             snap == work[w].snap
             successor == SuccessorOf(snap, s)
             linked == [snap EXCEPT !.retry = s, !.lineage = rows[e].lineage,
                                    !.attempt = rows[e].attempt,
                                    !.planned = rows[e].planned]
             job == Busy("email", s, successor, FALSE)
  <1>0. /\ TypeOK /\ ChainRows(rows, owned) /\ snap \in Row
        /\ \A f \in Execs : rows[f] \in Row
        /\ \A v \in Workers : work[v] \in Work
        /\ SoundJob(work[w], rows, approved) /\ ChainJob(work[w], rows, owned)
    BY DEF TypeInv, TypeOK, ChainInv, SoundInv, Work
  <1>1. /\ At(w, "retry") /\ rows[s].status = "absent"
        /\ rows' = [rows EXCEPT ![s] = successor, ![e] = linked]
        /\ Become(w, job) /\ approved' = approved /\ owned' = owned /\ tagged' = tagged
    BY DEF PersistRetry
  <1>2. /\ e \in Execs /\ rows[e].status # "absent" /\ s # e
        /\ snap.status = "failed" /\ snap.bought = {} /\ snap.web = rows[e].web
        /\ TrueCopy(e, snap, rows, owned)
    BY <1>0, <1>1
       DEF At, SoundJob, ChainJob, CopyStatus, SoundCopy, Final, TypeInv, HoldsRow, Idle
  <1>3. /\ successor.status = "pending" /\ successor.bought = {}
        /\ successor.retry = NoExec /\ successor.lineage = rows[e].lineage
        /\ successor.attempt = rows[e].attempt + 1
    BY <1>2 DEF SuccessorOf, NewRow, TrueCopy
  <1>4. /\ linked.status = "failed" /\ linked.bought = {} /\ linked.retry = s
        /\ linked.web = snap.web
        /\ linked.lineage = rows[e].lineage /\ linked.attempt = rows[e].attempt
        /\ linked.planned = rows[e].planned
    BY <1>0, <1>2 DEF Row
  <1>5. /\ job.pc = "email" /\ job.exec = s /\ job.snap = successor
        /\ \A r \in Recs : job.rec[r] = "todo"
    BY DEF Busy, Fresh
  <1> HIDE DEF successor, linked, job
  <1>6. \A f \in Execs : rows'[f] = IF f = e THEN linked
                                    ELSE IF f = s THEN successor ELSE rows[f]
    BY <1>0, <1>1, <1>2 DEF TypeOK
  <1>7. Adds(s, rows, rows')
    BY <1>1, <1>2, <1>4, <1>6 DEF Adds
  <1>8. ASSUME NEW f \in Execs \ {s} PROVE TrueCopy(f, rows'[f], rows', owned)
    <2>1. CASE f = e
      BY <2>1, <1>2, <1>3, <1>4, <1>6 DEF TrueCopy, Succeeds
    <2>2. CASE f # e
      BY <2>2, <1>0, <1>6, <1>7, AddsCopy DEF ChainRows, ChainRow
    <2> QED
      BY <2>1, <2>2
  <1>9. ASSUME NEW v \in Workers PROVE ChainJob(work'[v], rows', owned)
    <2>1. ChainJob(job, rows', owned)
      BY <1>2, <1>3, <1>5, <1>6 DEF ChainJob, TrueCopy
    <2>2. work[v].pc # "idle" => work[v].exec \in Execs \ {s}
      BY <1>1 DEF TypeInv, HoldsRow, Idle, SoundInv, SoundJob
    <2>3. ChainJob(work[v], rows', owned)
      BY <2>2, <1>0, <1>7, AddsJob DEF ChainInv
    <2> QED
      BY <2>1, <2>3, <1>0, <1>1 DEF Become, TypeOK
  <1>10. /\ rows[e].lineage \in Execs /\ rows[rows[e].lineage].lineage = rows[e].lineage
         /\ rows[e].attempt + 1 > 0
    BY <1>0, <1>2 DEF ChainRows, ChainRow, Row
  <1>11. rows'[s] = successor
    BY <1>2, <1>6
  <1>12. \A f \in Execs \ {s} : rows'[f].web = rows[f].web /\ rows'[f].planned = rows[f].planned
    BY <1>2, <1>4, <1>6
  <1>13. \/ rows'[s].lineage = s
         \/ rows'[s].attempt > 0 /\ rows[rows'[s].lineage].lineage = rows'[s].lineage
    BY <1>3, <1>10, <1>11
  <1> QED
    BY <1>1, <1>3, <1>7, <1>8, <1>9, <1>10, <1>11, <1>12, <1>13 DEF Makes, Adds

-----------------------------------------------------------------------------
(* The purchases.                                                           *)

\* Where a duplicate goes unnoticed only a first attempt is bought, and where
\* the provider collapses a repeated token only what nobody has.
MayBuy(e, r) ==
    /\ e \in MayBuyIn(rows, approved)
    /\ rows[e].status # "absent"
    /\ rows[e].lineage \in Unguarded => rows[e].attempt = 0
    /\ rows[e].lineage \notin TagGuarded \cup Unguarded
         => ~Has(rows[e].lineage, r, rows, owned)

\* One step of buying one recommendation.
Purchases(w, r) ==
    \/ BuyDirect(w, r) \/ LookupTag(w, r) \/ BuyUntagged(w, r)
    \/ TagBought(w, r) \/ BuyRejected(w, r)

\* What a commitment is bought for.
LEMMA BuyAllowed ==
    ASSUME TypeInv, SoundInv, ChainInv, NEW w \in Workers, NEW r \in Recs, Purchases(w, r)
    PROVE  /\ work[w].pc = "purchase" /\ work[w].exec \in Execs
           /\ rows[work[w].exec].status # "absent"
           /\ TrueCopy(work[w].exec, work[w].snap, rows, owned)
           /\ rows' = rows /\ approved' = approved
           /\ \/ owned' = owned
              \/ Acquire(work[w].exec, r) /\ MayBuy(work[w].exec, r)
  <1> DEFINE e == work[w].exec
             snap == work[w].snap
  <1>1. Buying(w, r) /\ rows' = rows /\ approved' = approved
    BY DEF Purchases, BuyDirect, LookupTag, BuyUntagged, TagBought, BuyRejected
  <1>2. /\ work[w].pc = "purchase" /\ e \in Execs /\ work[w] \in Work /\ snap \in Row
        /\ SoundJob(work[w], rows, approved) /\ ChainJob(work[w], rows, owned)
    BY <1>1 DEF Buying, At, TypeInv, TypeOK, HoldsRow, Idle, SoundInv, ChainInv, Work
  <1>3. /\ TrueCopy(e, snap, rows, owned) /\ rows[e].status # "absent"
        /\ e \in MayBuyIn(rows, approved)
    BY <1>2 DEF ChainJob, SoundJob
  <1>4. rows[e].lineage = snap.lineage /\ rows[e].attempt = snap.attempt
    BY <1>3 DEF TrueCopy
  <1>5. rows[e].lineage \in Unguarded => rows[e].attempt = 0
    <2>1. snap.attempt \in Nat
      BY <1>2 DEF Row
    <2> QED
      BY <1>1, <1>4, <2>1 DEF Buying, ArmedRedriveRefusal, NoDuplicateRisk
  <1>6. CASE BuyDirect(w, r)
    BY <1>3, <1>4, <1>5, <1>1, <1>2, <1>6
       DEF BuyDirect, MayBuy, Exists, Has, LineageKey
  <1>7. CASE BuyUntagged(w, r)
    <2>1. rows[e].lineage \in TagGuarded
      BY <1>2, <1>7 DEF BuyUntagged, ChainJob
    <2> QED
      BY <2>1, <1>1, <1>2, <1>3, <1>5, <1>7 DEF BuyUntagged, MayBuy
  <1>8. CASE LookupTag(w, r) \/ TagBought(w, r) \/ BuyRejected(w, r)
    BY <1>8, <1>1, <1>2, <1>3 DEF LookupTag, TagBought, BuyRejected
  <1> QED
    BY <1>6, <1>7, <1>8 DEF Purchases

\* A purchase keeps the invariant.
LEMMA BuyChain ==
    ASSUME TypeInv, SoundInv, ChainInv, NEW w \in Workers, NEW r \in Recs, Purchases(w, r)
    PROVE  ChainInv'
  <1> DEFINE e == work[w].exec
             snap == work[w].snap
  <1>0. /\ work[w].pc = "purchase" /\ e \in Execs /\ rows[e].status # "absent"
        /\ TrueCopy(e, snap, rows, owned) /\ rows' = rows
        /\ owned' = owned \/ (Acquire(e, r) /\ MayBuy(e, r))
        /\ TypeOK /\ ChainRows(rows, owned) /\ work[w] \in Work /\ snap \in Row
    BY BuyAllowed DEF TypeInv, TypeOK, ChainInv, Work
  <1>1. /\ \A f \in Execs, q \in Recs : owned[f][q] > 0 => owned'[f][q] > 0
        /\ \A f \in Execs, q \in Recs : <<f, q>> # <<e, r>> => owned'[f][q] = owned[f][q]
    BY <1>0 DEF Acquire, TypeOK
  <1>2. \A l : \A q \in Recs : Has(l, q, rows, owned) => Has(l, q, rows', owned')
    BY <1>0, <1>1 DEF Has
  <1>3. ASSUME NEW f \in Execs, NEW row \in Row, TrueCopy(f, row, rows, owned)
        PROVE  TrueCopy(f, row, rows', owned')
    <2>1. row.recs \subseteq Recs
      BY DEF Row
    <2> QED
      BY <2>1, <1>0, <1>2, <1>3 DEF TrueCopy, Succeeds
  <1>4. ChainRows(rows', owned')
    BY <1>0, <1>1, <1>3 DEF ChainRows, ChainRow, TypeOK
  <1>5. PICK s \in RecStates : /\ Report(w, r, s)
                               /\ s \in {"ok", "untagged"} => Has(rows[e].lineage, r, rows, owned')
                               /\ s \in {"looked", "untagged"} => rows[e].lineage \in TagGuarded
    <2>1. snap.lineage = rows[e].lineage
      BY <1>0 DEF TrueCopy
    <2>2. Acquire(e, r) => Has(rows[e].lineage, r, rows, owned')
      BY <1>0 DEF Acquire, TypeOK, Has
    <2>3. Has(snap.lineage, r, rows, owned) => Has(rows[e].lineage, r, rows, owned')
      BY <2>1, <1>0, <1>2
    <2>4. ChainJob(work[w], rows, owned)
      BY DEF ChainInv
    <2>5. CASE BuyDirect(w, r)
      <3>1. Has(rows[e].lineage, r, rows, owned')
        BY <2>2, <2>3, <2>5 DEF BuyDirect, Exists, Has, LineageKey
      <3> QED
        BY <3>1, <2>5 DEF BuyDirect, RecStates
    <2>6. CASE LookupTag(w, r)
      <3>1. <<snap.lineage, r>> \in tagged => Has(snap.lineage, r, rows, owned)
        BY <1>0 DEF ChainInv, TrueTags, Row
      <3> QED
        BY <3>1, <2>1, <2>3, <2>6 DEF LookupTag, RecStates, LineageKey
    <2>7. CASE BuyUntagged(w, r)
      <3>1. rows[e].lineage \in TagGuarded
        BY <2>4, <2>7, <1>0 DEF BuyUntagged, ChainJob
      <3>2. Has(rows[e].lineage, r, rows, owned')
        BY <2>2, <2>7 DEF BuyUntagged
      <3> QED
        BY <3>1, <3>2, <2>7 DEF BuyUntagged, RecStates
    <2>8. CASE TagBought(w, r)
      <3>1. Has(rows[e].lineage, r, rows, owned)
        BY <2>4, <2>8, <1>0 DEF TagBought, ChainJob
      <3> QED
        BY <3>1, <2>1, <2>3, <2>8 DEF TagBought, RecStates
    <2>9. CASE BuyRejected(w, r)
      BY <2>9 DEF BuyRejected, RecStates
    <2> QED
      BY <2>5, <2>6, <2>7, <2>8, <2>9 DEF Purchases
  <1>6. ASSUME NEW v \in Workers PROVE ChainJob(work'[v], rows', owned')
    <2>1. ChainJob(work[v], rows', owned')
      <3>1. work[v].pc # "idle" => work[v].exec \in Execs
        BY DEF TypeInv, HoldsRow, Idle
      <3>2. work[v].snap \in Row
        BY <1>0 DEF TypeOK, Work
      <3> QED
        BY <3>1, <3>2, <1>0, <1>2, <1>3 DEF ChainInv, ChainJob
    <2>2. CASE v # w
      BY <2>1, <2>2, <1>0, <1>5 DEF Report, TypeOK
    <2>3. CASE v = w
      <3>1. /\ work'[w].pc = "purchase" /\ work'[w].exec = e /\ work'[w].snap = snap
            /\ \A q \in Recs : work'[w].rec[q] = IF q = r THEN s ELSE work[w].rec[q]
        BY <1>0, <1>5 DEF Report, TypeOK, Work
      <3> QED
        BY <2>1, <2>3, <3>1, <1>0, <1>5 DEF ChainJob
    <2> QED
      BY <2>2, <2>3
  <1>7. Money(rows', owned')
    <2>1. CASE owned' = owned
      BY <2>1, <1>0 DEF ChainInv
    <2>2. CASE Acquire(e, r) /\ MayBuy(e, r)
      <3>1. owned[e][r] = 0 => owned'[e][r] = 1
        BY <2>2, <1>0 DEF Acquire, TypeOK
      <3>2. rows[e].lineage \notin TagGuarded \cup Unguarded =>
              \A g \in Execs : rows[g].lineage = rows[e].lineage => owned[g][r] = 0
        BY <2>2, <1>0 DEF MayBuy, Has, TypeOK
      <3>3. ASSUME NEW f \in Execs, NEW q \in Recs, owned'[f][q] > 0,
                   rows[f].lineage \notin TagGuarded \cup Unguarded
            PROVE  /\ owned'[f][q] = 1
                   /\ \A g \in Execs \ {f} :
                        rows[g].lineage = rows[f].lineage => owned'[g][q] = 0
        <4>1. CASE f = e /\ q = r
          BY <4>1, <3>1, <3>2, <3>3, <1>0, <1>1
        <4>2. CASE <<f, q>> # <<e, r>>
          <5>1. owned[f][q] > 0 /\ owned'[f][q] = owned[f][q]
            BY <4>2, <3>3, <1>1
          <5>2. \A g \in Execs \ {f} : rows[g].lineage = rows[f].lineage => owned[g][q] = 0
            BY <5>1, <3>3, <1>0 DEF ChainInv, Money
          <5>3. ~(q = r /\ rows[f].lineage = rows[e].lineage)
            BY <5>1, <3>2, <3>3
          <5> QED
            BY <5>1, <5>2, <5>3, <3>3, <1>0, <1>1 DEF ChainInv, Money
        <4> QED
          BY <4>1, <4>2
      <3>4. ASSUME NEW f \in Execs, NEW q \in Recs, owned'[f][q] > 0,
                   rows[f].lineage \in Unguarded
            PROVE  rows[f].attempt = 0
        BY <3>4, <2>2, <1>0, <1>1 DEF MayBuy, ChainInv, Money
      <3> QED
        BY <3>3, <3>4, <1>0 DEF Money
    <2> QED
      BY <2>1, <2>2, <1>0
  <1>8. TrueTags(tagged', rows', owned')
    <2>1. tagged' \subseteq tagged \cup {<<snap.lineage, r>>}
      BY DEF Purchases, BuyDirect, LookupTag, BuyUntagged, TagBought, BuyRejected, LineageKey
    <2>2. <<snap.lineage, r>> \in tagged' \ tagged => Has(snap.lineage, r, rows, owned)
      BY <1>0 DEF Purchases, BuyDirect, LookupTag, BuyUntagged, TagBought, BuyRejected,
                  ChainInv, ChainJob, TrueCopy
    <2> QED
      BY <2>1, <2>2, <1>2 DEF TrueTags, ChainInv
  <1> QED
    BY <1>4, <1>6, <1>7, <1>8 DEF ChainInv

-----------------------------------------------------------------------------
(* The invariant holds in every state.                                      *)

\* Every step is quiet, makes a row or buys.
LEMMA NextKinds ==
    ASSUME TypeInv, TypeInv', SoundInv, ChainInv, [Next]_vars
    PROVE  \/ Quiet
           \/ \E s \in Execs : Makes(s)
           \/ \E w \in Workers, r \in Recs : Purchases(w, r)
  <1>0. TypeOK
    BY DEF TypeInv
  <1>1. ASSUME NEW w \in Workers, Crash(w) PROVE Quiet
    BY <1>0, <1>1, SameQuiet, RestQuiet DEF Crash, Quiet, QuietApproval
  <1>2. ASSUME NEW e \in Execs, Age(e) PROVE Quiet
    BY <1>2, SameQuiet DEF Age, Quiet, QuietApproval, QuietJobs, ChainInv
  <1>3. CASE UNCHANGED vars
    BY <1>3, SameQuiet DEF vars, Quiet, QuietApproval, QuietJobs, ChainInv
  <1>4. ASSUME NEW w \in Workers, Step(w),
               \A r \in Recs : ~Purchases(w, r), \A s \in Execs : ~PersistRetry(w, s)
        PROVE  Quiet
    BY <1>4, StepQuiet DEF Purchases
  <1> QED
    BY <1>1, <1>2, <1>3, <1>4, StartQuiet, ButtonQuiet, SubmitMakes, PlannedMakes,
       RetryMakes DEF Next

\* The invariant holds of what an earlier release may have left.
LEMMA ChainInit == Init => ChainInv
  <1> SUFFICES ASSUME NEW left \in SUBSET Armed, InitLeft(left) PROVE ChainInv
    BY DEF Init
  <1>0. /\ rows = [e \in Execs |-> InitialRow(left, e)]
        /\ \A e \in Execs, r \in Recs : owned[e][r] > 0 => \E p \in left : e = p[1]
        /\ \A e \in Execs, r \in Recs : owned[e][r] \in {0, 1}
        /\ tagged = {} /\ \A w \in Workers : work[w] = Resting
    BY DEF InitLeft, InitialOwned
  <1>1. ASSUME NEW p \in left
        PROVE  /\ p[1] \in Execs /\ p[2] \in Execs /\ p[1] # p[2]
               /\ rows[p[1]].status = "failed" /\ rows[p[1]].retry = p[2]
               /\ rows[p[1]].lineage = p[1] /\ rows[p[1]].attempt = 0
               /\ rows[p[1]].bought = {}
               /\ rows[p[2]].status = "pending" /\ rows[p[2]].retry = NoExec
               /\ rows[p[2]].lineage = p[1] /\ rows[p[2]].attempt = 1
               /\ rows[p[2]].bought = {}
    <2>1. p[1] \in Execs /\ p[2] \in Execs /\ p[1] # p[2]
      BY ConstantsAssumption
    <2>2. PairOf(p[1]) = p /\ PairOf(p[2]) = p
      BY PairOfArmed
    <2>3. ~ \E q \in left : p[2] = q[1]
      BY <2>1, ConstantsAssumption
    <2>4. /\ InitialRow(left, p[1]) =
                [NewRow(p[1], TRUE, FALSE, Recs) EXCEPT !.status = "failed", !.retry = p[2]]
          /\ InitialRow(left, p[2]) =
                [NewRow(p[2], TRUE, FALSE, Recs) EXCEPT !.lineage = p[1], !.attempt = 1]
      BY <2>2, <2>3 DEF InitialRow
    <2> QED
      BY <2>1, <2>4, <1>0 DEF NewRow
  <1>2. ASSUME NEW e \in Execs, ~ \E p \in left : e \in {p[1], p[2]}
        PROVE  /\ rows[e].status = "absent" /\ rows[e].lineage = NoExec
               /\ rows[e].retry = NoExec /\ rows[e].bought = {}
    BY <1>0, <1>2 DEF InitialRow, NoRow, NewRow
  <1>3. ASSUME NEW e \in Execs PROVE ChainRow(e, rows, owned)
    <2>1. CASE ~ \E p \in left : e \in {p[1], p[2]}
      BY <2>1, <1>0, <1>2 DEF ChainRow, TrueCopy
    <2>2. ASSUME NEW p \in left, e = p[1] PROVE ChainRow(e, rows, owned)
      BY <2>2, <1>1, ConstantsAssumption DEF ChainRow, TrueCopy, Succeeds
    <2>3. ASSUME NEW p \in left, e = p[2] PROVE ChainRow(e, rows, owned)
      BY <2>3, <1>1, ConstantsAssumption DEF ChainRow, TrueCopy
    <2> QED
      BY <2>1, <2>2, <2>3
  <1>4. \A w \in Workers : ChainJob(work[w], rows, owned)
    BY <1>0 DEF ChainJob, Resting, Busy
  <1>5. ASSUME NEW e \in Execs, NEW r \in Recs, owned[e][r] > 0
        PROVE  /\ rows[e].attempt = 0 /\ owned[e][r] = 1
               /\ \A f \in Execs \ {e} : rows[f].lineage = rows[e].lineage => owned[f][r] = 0
    <2>1. PICK p \in left : e = p[1]
      BY <1>0, <1>5
    <2>2. ASSUME NEW f \in Execs \ {e}, owned[f][r] > 0
          PROVE  rows[f].lineage # rows[e].lineage
      BY <2>1, <2>2, <1>0, <1>1
    <2> QED
      BY <2>1, <2>2, <1>0, <1>1, <1>5
  <1> QED
    BY <1>0, <1>3, <1>4, <1>5 DEF ChainInv, ChainRows, Money, TrueTags

\* Every step keeps it.
LEMMA ChainNext ==
    TypeInv /\ TypeInv' /\ SoundInv /\ ChainInv /\ [Next]_vars => ChainInv'
  BY NextKinds, QuietChain, MakesChain, BuyChain

\* It holds in every state, with the invariants of PurchaseProofs.
LEMMA ChainCorrect == Spec => [](TypeInv /\ SoundInv /\ ChainInv)
  BY TypeInit, TypeNext, SoundInit, SoundNext, ChainInit, ChainNext, PTL DEF Spec

\* Where the provider collapses a repeated token, a recommendation is bought
\* once over all attempts of a purchase: every attempt holds a copy with the
\* lineage of its row, so all send one token.
THEOREM BoughtOnce == Spec => []ServerGuardedBoughtOnce
  <1>1. TypeInv /\ ChainInv => ServerGuardedBoughtOnce
    BY DEF ChainInv, Money, ServerGuardedBoughtOnce, SameLineage
  <1> QED
    BY <1>1, ChainCorrect, PTL

\* Where nothing detects a duplicate only the first attempt of a purchase buys,
\* however many retries an earlier release armed.
THEOREM UnguardedOnce == Spec => []UnguardedLineageOneRow
  <1>1. ASSUME TypeInv, ChainInv PROVE UnguardedLineageOneRow
    <2> SUFFICES ASSUME NEW e \in Execs, NEW f \in Execs, e # f, SameLineage(e, f),
                        rows[e].lineage \in Unguarded, NEW q \in Recs, NEW r \in Recs,
                        owned[e][q] # 0, owned[f][r] # 0
                 PROVE  FALSE
      BY DEF UnguardedLineageOneRow
    <2>1. owned[e][q] > 0 /\ owned[f][r] > 0
      BY <1>1 DEF TypeInv, TypeOK
    <2>2. /\ rows[e].attempt = 0 /\ rows[f].attempt = 0
          /\ rows[e].status # "absent" /\ rows[f].status # "absent"
      BY <2>1, <1>1 DEF ChainInv, Money, SameLineage, ChainRows, ChainRow
    <2>3. rows[e].lineage = e /\ rows[f].lineage = f
      BY <2>2, <1>1 DEF ChainInv, ChainRows, ChainRow
    <2> QED
      BY <2>3 DEF SameLineage
  <1> QED
    BY <1>1, ChainCorrect, PTL

\* What a row records as bought, and what a completed row asked for, was
\* bought: no stale copy carries a record or a status nobody earned.
THEOREM NothingPhantom == Spec => []NoPhantomPurchase
  <1>1. TypeInv /\ ChainInv => NoPhantomPurchase
    BY DEF ChainInv, ChainRows, ChainRow, TrueCopy, NoPhantomPurchase, Exists, Has
  <1> QED
    BY <1>1, ChainCorrect, PTL

\* A retry link leads to the next attempt of the same lineage, after any number
\* of stale saves of either row.
THEOREM RetryLinksSound == Spec => []RetryLinkSound
  <1>1. ChainInv => RetryLinkSound
    BY DEF ChainInv, ChainRows, ChainRow, TrueCopy, Succeeds, RetryLinkSound, SameLineage
  <1> QED
    BY <1>1, ChainCorrect, PTL

-----------------------------------------------------------------------------
(* PurchaseExecution implements PurchaseContract.                           *)

Lineages == [e \in Execs |-> rows[e].lineage]
Authorised == approved \cup Unattended

\* The initial states are initial states of the contract.
LEMMA ContractInit == Init => Contract!Init
  <1> SUFFICES ASSUME Init PROVE Contract!Init
    OBVIOUS
  <1>0. TypeInv /\ SoundInv /\ ChainInv
    BY TypeInit, SoundInit, ChainInit
  <1>1. Lineages \in [Execs -> Execs \cup {NoExec}]
    BY <1>0 DEF TypeInv, TypeOK, Row, Lineages
  <1>2. Authorised \in SUBSET Execs
    BY <1>0 DEF TypeInv, TypeOK, Authorised, Unattended
  <1>3. owned \in [Execs -> [Recs -> {0, 1}]]
    BY DEF Init, InitLeft, InitialOwned
  <1>4. ASSUME NEW e \in Execs, NEW r \in Recs, owned[e][r] > 0
        PROVE  /\ rows[e].lineage # NoExec
               /\ e \in Authorised
               /\ \A f \in Execs \ {e} :
                    rows[f].lineage = rows[e].lineage => \A q \in Recs : owned[f][q] = 0
    <2>1. PICK left \in SUBSET Armed : InitLeft(left)
      BY DEF Init
    <2>2. PICK p \in left : e = p[1]
      BY <1>4, <2>1 DEF InitLeft, InitialOwned
    <2>3. rows[e].lineage # NoExec
      BY <1>0, <1>4 DEF ChainInv, ChainRows, ChainRow
    <2>4. e \in Authorised
      BY <1>0, <1>4 DEF SoundInv, MayBuyIn, Authorised, Unattended
    <2>5. rows[e].status = "failed" /\ rows[e].attempt = 0
      BY <2>1, <2>2, ConstantsAssumption DEF InitLeft, InitialRow, NewRow
    <2>6. ASSUME NEW f \in Execs \ {e}, rows[f].lineage = rows[e].lineage,
                 NEW q \in Recs, owned[f][q] # 0
          PROVE  FALSE
      <3>1. owned[f][q] > 0
        BY <2>6, <1>3
      <3>2. PICK p2 \in left : f = p2[1]
        BY <2>1, <3>1 DEF InitLeft, InitialOwned
      <3>3. rows[f].status = "failed" /\ rows[f].attempt = 0
        BY <2>1, <3>2, ConstantsAssumption DEF InitLeft, InitialRow, NewRow
      <3>4. rows[e].lineage = e /\ rows[f].lineage = f
        BY <1>0, <2>5, <3>3 DEF ChainInv, ChainRows, ChainRow
      <3> QED
        BY <3>4, <2>6
    <2> QED
      BY <2>3, <2>4, <2>6
  <1> QED
    BY <1>1, <1>2, <1>3, <1>4
       DEF Contract!Init, Contract!Siblings, Lineages, Authorised

\* Nothing but an insert of a plan's row changes which rows need no approval.
LEMMA UnattendedKept ==
    ASSUME \A e \in Execs : rows'[e].web = rows[e].web /\ rows'[e].planned = rows[e].planned
    PROVE  Unattended' = Unattended
  BY DEF Unattended

\* A quiet step authorises a row, or is a stutter of the contract.
LEMMA QuietImplements ==
    ASSUME Quiet, ChainInv
    PROVE  [Contract!Next]_Contract!vars
  <1>1. Lineages' = Lineages
    BY DEF Quiet, QuietRows, Keeps, Lineages
  <1>2. Unattended' = Unattended
    BY UnattendedKept DEF Quiet, QuietRows, Keeps
  <1>3. owned' = owned
    BY DEF Quiet
  <1>4. CASE approved' = approved
    BY <1>1, <1>2, <1>3, <1>4 DEF Contract!vars, Lineages
  <1>5. ASSUME NEW e \in Execs, rows[e].status # "absent", approved' = approved \cup {e}
        PROVE  Contract!Authorise(e)
    <2>1. rows[e].lineage # NoExec
      BY <1>5 DEF ChainInv, ChainRows, ChainRow
    <2>2. Authorised' = Authorised \cup {e}
      BY <1>2, <1>5 DEF Authorised
    <2> QED
      BY <2>1, <2>2, <1>1, <1>3 DEF Contract!Authorise, Lineages, Authorised
  <1> QED
    BY <1>4, <1>5 DEF Quiet, QuietApproval, Contract!Next

\* A step that makes a row creates an execution of the contract.
LEMMA MakesImplements ==
    ASSUME TypeInv, SoundInv, ChainInv, NEW s \in Execs, Makes(s)
    PROVE  Contract!Next
  <1>0. PICK l \in Execs : l = rows'[s].lineage
    BY DEF Makes
  <1>1. rows[s].lineage = NoExec /\ s \notin Unattended
    BY DEF Makes, ChainInv, ChainRows, ChainRow, SoundInv, SoundRows, SoundRow, Unattended
  <1>2. Lineages' = [Lineages EXCEPT ![s] = l]
    BY <1>0 DEF Makes, Lineages
  <1>3. Unattended' = Unattended \/ Unattended' = Unattended \cup {s}
    <2>1. \A e \in Execs \ {s} : e \in Unattended' <=> e \in Unattended
      BY DEF Makes, Unattended
    <2>2. Unattended' \subseteq Execs /\ Unattended \subseteq Execs
      BY DEF Unattended
    <2> QED
      BY <1>1, <2>1, <2>2
  <1>4. Authorised' = Authorised \/ Authorised' = Authorised \cup {s}
    BY <1>3 DEF Makes, Authorised
  <1>5. Contract!Create(s, l)
    BY <1>1, <1>2, <1>4 DEF Contract!Create, Makes, Lineages, Authorised
  <1> QED
    BY <1>5 DEF Contract!Next

\* A commitment is bought where the contract allows it.
LEMMA BuyImplements ==
    ASSUME TypeInv, SoundInv, ChainInv, NEW w \in Workers, NEW r \in Recs, Purchases(w, r)
    PROVE  [Contract!Next]_Contract!vars
  <1> DEFINE e == work[w].exec
  <1>0. /\ e \in Execs /\ rows' = rows /\ approved' = approved
        /\ owned' = owned \/ (Acquire(e, r) /\ MayBuy(e, r))
    BY BuyAllowed
  <1>1. Lineages' = Lineages /\ Authorised' = Authorised
    BY <1>0 DEF Lineages, Authorised, Unattended
  <1>2. CASE owned' = owned
    BY <1>1, <1>2 DEF Contract!vars, Lineages, Authorised
  <1>3. CASE Acquire(e, r) /\ MayBuy(e, r)
    <2>1. rows[e].lineage # NoExec
      BY <1>0, <1>3 DEF MayBuy, ChainInv, ChainRows, ChainRow
    <2>2. e \in Authorised
      BY <1>3 DEF MayBuy, MayBuyIn, Authorised, Unattended
    <2>3. rows[e].lineage \in Execs \ (TagGuarded \cup Unguarded)
             => \A f \in Execs : rows[f].lineage = rows[e].lineage => owned[f][r] = 0
      BY <1>3 DEF MayBuy, Has, TypeInv, TypeOK
    <2>4. ASSUME rows[e].lineage \in Unguarded, NEW f \in Execs \ {e},
                 rows[f].lineage = rows[e].lineage, NEW q \in Recs, owned[f][q] # 0
          PROVE  FALSE
      <3>1. owned[f][q] > 0
        BY <2>4 DEF TypeInv, TypeOK
      <3>2. rows[f].attempt = 0 /\ rows[f].status # "absent"
        BY <3>1, <2>4 DEF ChainInv, Money, ChainRows, ChainRow
      <3>3. rows[e].attempt = 0 /\ rows[e].status # "absent"
        BY <1>3, <2>4 DEF MayBuy
      <3>4. rows[f].lineage = f /\ rows[e].lineage = e
        BY <1>0, <3>2, <3>3 DEF ChainInv, ChainRows, ChainRow
      <3> QED
        BY <3>4, <2>4
    <2>5. Contract!MayBuy(e, r)
      BY <2>1, <2>2, <2>3, <2>4, <1>0
         DEF Contract!MayBuy, Contract!Siblings, Lineages, Authorised
    <2> QED
      BY <2>5, <1>0, <1>1, <1>3
         DEF Contract!Next, Contract!Buy, Acquire, Lineages, Authorised
  <1> QED
    BY <1>0, <1>2, <1>3

\* Every step of the code is a step the contract allows, or changes none of it.
LEMMA ContractNext ==
    TypeInv /\ TypeInv' /\ SoundInv /\ ChainInv /\ [Next]_vars
      => [Contract!Next]_Contract!vars
  <1> SUFFICES ASSUME TypeInv, TypeInv', SoundInv, ChainInv, [Next]_vars
               PROVE  [Contract!Next]_Contract!vars
    OBVIOUS
  <1> QED
    BY NextKinds, QuietImplements, MakesImplements, BuyImplements

\* The program keeps the contract about money, whatever is stale, lost or
\* repeated: nothing is bought without authority, once where the provider
\* collapses repeated tokens, for one row where nothing can detect a duplicate.
THEOREM KeepsContract == Spec => ImplementsContract
  BY ContractInit, ContractNext, ChainCorrect, PTL
     DEF Spec, ImplementsContract, Contract!Spec

=============================================================================

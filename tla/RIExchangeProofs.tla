--------------------------- MODULE RIExchangeProofs --------------------------
(* Proofs about RIExchange, for every set of rows, RIs and processes, every *)
(* price and every cap.                                                     *)
EXTENDS RIExchangeProperties, SumTheorems

-----------------------------------------------------------------------------
(* The inductive invariant.  Nothing in it depends on how much is paid, so  *)
(* it says nothing of sums.                                                 *)

\* A process's record keeps its fields, which its rows and RIs are read from.
ProcShape ==
    /\ DOMAIN proc = Procs
    /\ \A p \in Procs :
         /\ DOMAIN proc[p] = {"pc", "mode", "todo", "row", "ri", "due", "cap"}
         /\ proc[p].row \in Rows \cup {None}
         /\ proc[p].todo \subseteq RIs
         /\ At(p, "check") \/ At(p, "execute") => proc[p].ri \in RIs

LedgerShape ==
    /\ DOMAIN ledger = Rows
    /\ \A r \in Rows :
         /\ DOMAIN ledger[r] = {"status", "ri", "due", "day"}
         /\ ledger[r].status \in {"pending", "processing"} => ledger[r].ri \in RIs

PaidShape ==
    /\ DOMAIN paid = RIs
    /\ \A ri \in RIs : paid[ri].row \in Rows \cup {None}

\* An approver at work owns its row: the row is processing and nobody else's.
RowOwned ==
    \A p \in Procs : proc[p].row # None =>
        /\ p \in Approvers
        /\ proc[p].pc \in {"check", "execute", "record", "fail"}
        /\ ledger[proc[p].row].status = "processing"
        /\ \A q \in Procs \ {p} : proc[q].row # proc[p].row

\* Unless a reply was lost, an owner whose exchange has not succeeded has paid
\* nothing.
PaidWhenRecorded ==
    ~LostReplies =>
        \A p \in Procs : proc[p].row # None /\ ~At(p, "record") =>
            \A ri \in RIs : paid[ri].row # proc[p].row

Inv ==
    /\ ProcShape /\ LedgerShape /\ PaidShape
    /\ RowOwned /\ PaidWhenRecorded /\ PaidRowOnLedger

\* The invariant holds of an empty ledger with every process idle.
LEMMA InitInv == Init => Inv
  BY ExchangeAssumption
     DEF Init, Inv, ProcShape, LedgerShape, PaidShape, RowOwned, PaidWhenRecorded,
         PaidRowOnLedger, Resting, NoRow, NoExchange, At

-----------------------------------------------------------------------------
(* Steps that leave alone the rows under execution.                         *)

Fields == {"pc", "mode", "todo", "row", "ri", "due", "cap"}

\* A job that owns no row.
Rowless(job) ==
    /\ DOMAIN job = Fields
    /\ job.row = None
    /\ job.todo \subseteq RIs
    /\ job.pc \in {"check", "execute"} => job.ri \in RIs

\* Only rows that wait, or do not exist yet, are written.
QuietLedger ==
    /\ DOMAIN ledger' = Rows
    /\ \A r \in Rows : ledger'[r] = ledger[r] \/
         /\ ledger[r].status \in {"absent", "pending"}
         /\ DOMAIN ledger'[r] = {"status", "ri", "due", "day"}
         /\ ledger'[r].status # "processing"
         /\ ledger'[r].status = "pending" => ledger'[r].ri \in RIs

\* A step that pays nothing, leaves rows under execution alone and gives its
\* process a job without a row preserves the invariant.
LEMMA QuietStep ==
    ASSUME Inv, QuietLedger, UNCHANGED paid,
           UNCHANGED proc \/ \E p \in Procs : \E job : Rowless(job) /\ Become(p, job)
    PROVE  Inv'
  BY DEF Inv, ProcShape, LedgerShape, PaidShape, RowOwned, PaidWhenRecorded,
         PaidRowOnLedger, QuietLedger, Rowless, Fields, Become, At

\* Leaving the ledger alone leaves its rows under execution alone.
LEMMA UnchangedQuiet == ASSUME Inv, UNCHANGED ledger PROVE QuietLedger
  BY DEF Inv, LedgerShape, QuietLedger

\* So does an insert.
LEMMA InsertQuiet ==
    ASSUME Inv, NEW r \in Rows, NEW status \in {"pending", "completed", "failed"},
           NEW ri, NEW due, status = "pending" => ri \in RIs,
           InsertRow(r, status, ri, due)
    PROVE  QuietLedger
  BY DEF Inv, LedgerShape, QuietLedger, InsertRow, SetRow

\* So does the cancellation of pending rows.
LEMMA CancelQuiet == ASSUME Inv, CancelPending PROVE QuietLedger
  BY DEF Inv, LedgerShape, QuietLedger, CancelPending, Cancelable

\* An idle process owns no row.
LEMMA RestingRowless == Rowless(Resting)
  BY DEF Rowless, Resting, Fields
\* Neither does the task between two recommendations.
LEMMA NextRecRowless ==
    ASSUME Inv, NEW p \in Procs, NextRec(p)
    PROVE  \E job : Rowless(job) /\ Become(p, job)
  BY DEF NextRec, Rowless, Resting, Fields, Inv, ProcShape

-----------------------------------------------------------------------------
(* Steps of the owner of a row, or of a run about to execute.               *)

\* The job of a process that moves on with the same exchange.
SameExchange(p, job) ==
    /\ DOMAIN job = Fields
    /\ job.row = proc[p].row /\ job.todo = proc[p].todo /\ job.ri = proc[p].ri

Onward(p, pc) == \E job : SameExchange(p, job) /\ job.pc = pc /\ Become(p, job)

\* Going on to another place of the code keeps the row in hand.
LEMMA GotoOnward ==
    ASSUME Inv, NEW p \in Procs, NEW pc, Goto(p, pc)
    PROVE  Onward(p, pc)
  <1> DEFINE job == [proc[p] EXCEPT !.pc = pc]
  <1>1. SameExchange(p, job) /\ job.pc = pc
    BY DEF Inv, ProcShape, SameExchange, Fields
  <1>2. Become(p, job)
    BY DEF Goto, Become
  <1> QED
    BY <1>1, <1>2 DEF Onward

\* So does going on with a cap.
LEMMA CapOnward ==
    ASSUME Inv, NEW p \in Procs, NEW pc, NEW cap,
           Become(p, [proc[p] EXCEPT !.pc = pc, !.cap = cap])
    PROVE  Onward(p, pc)
  <1> DEFINE job == [proc[p] EXCEPT !.pc = pc, !.cap = cap]
  <1>1. SameExchange(p, job) /\ job.pc = pc
    BY DEF Inv, ProcShape, SameExchange, Fields
  <1> QED
    BY <1>1 DEF Onward

\* So does going on with the payment that was accepted.
LEMMA DueOnward ==
    ASSUME Inv, NEW p \in Procs, NEW pc, NEW due,
           Become(p, [proc[p] EXCEPT !.pc = pc, !.due = due])
    PROVE  Onward(p, pc)
  <1> DEFINE job == [proc[p] EXCEPT !.pc = pc, !.due = due]
  <1>1. SameExchange(p, job) /\ job.pc = pc
    BY DEF Inv, ProcShape, SameExchange, Fields
  <1> QED
    BY <1>1 DEF Onward

\* A process that moves on, not past an accepted exchange.
LEMMA MoveStep ==
    ASSUME Inv, NEW p \in Procs, proc[p].pc \in {"check", "execute"},
           NEW pc \in {"execute", "fail"}, Onward(p, pc), UNCHANGED <<ledger, paid>>
    PROVE  Inv'
  <1> PICK job : SameExchange(p, job) /\ job.pc = pc /\ Become(p, job)
    BY DEF Onward
  <1>1. \A q \in Procs : proc'[q].row = proc[q].row /\ proc'[q].todo = proc[q].todo
    BY DEF Inv, ProcShape, SameExchange, Become
  <1>2. ProcShape' /\ LedgerShape' /\ PaidShape' /\ PaidRowOnLedger'
    BY DEF Inv, ProcShape, LedgerShape, PaidShape, PaidRowOnLedger, SameExchange,
           Fields, Become, At
  <1>3. RowOwned'
    BY <1>1 DEF Inv, ProcShape, RowOwned, Become
  <1>4. PaidWhenRecorded'
    BY <1>1 DEF Inv, ProcShape, PaidWhenRecorded, Become, At
  <1> QED
    BY <1>2, <1>3, <1>4 DEF Inv

\* An approver claims a pending row, which nobody has executed.
LEMMA ApproveStep ==
    ASSUME Inv, NEW p \in Approvers, NEW r \in Rows, Approve(p, r)
    PROVE  Inv'
  BY ExchangeAssumption
     DEF Inv, ProcShape, LedgerShape, PaidShape, RowOwned, PaidWhenRecorded,
         PaidRowOnLedger, Approve, CanLeavePending, SetRow, Become, At, Resting, Procs

\* The exchange is for the owner's row, which is processing and stays so.
LEMMA AcceptStep ==
    ASSUME Inv, NEW p \in Procs, Accept(p)
    PROVE  Inv'
  <1> DEFINE ri == proc[p].ri
  <1>1. PICK amount \in Requotes(proc[p].due) :
           /\ paid' = [paid EXCEPT ![ri] =
                         [amount |-> amount, row |-> proc[p].row, made |-> TRUE]]
           /\ \/ Become(p, [proc[p] EXCEPT !.pc = "record", !.due = amount])
              \/ LostReplies /\ Goto(p, "fail")
    BY DEF Accept
  <1>2. PICK job : /\ SameExchange(p, job)
                   /\ Become(p, job)
                   /\ job.pc \in {"record", "fail"}
                   /\ job.pc = "fail" => LostReplies
    <2>1. CASE Become(p, [proc[p] EXCEPT !.pc = "record", !.due = amount])
      <3>1. Onward(p, "record")
        BY <2>1, DueOnward
      <3> QED
        BY <3>1 DEF Onward
    <2>2. CASE LostReplies /\ Goto(p, "fail")
      <3>1. Onward(p, "fail")
        BY <2>2, GotoOnward
      <3> QED
        BY <2>2, <3>1 DEF Onward
    <2> QED
      BY <1>1, <2>1, <2>2
  <1>3. At(p, "execute") /\ ri \in RIs /\ UNCHANGED ledger
    BY DEF Accept, Inv, ProcShape
  <1>4. \A q \in Procs : proc'[q].row = proc[q].row /\ proc'[q].todo = proc[q].todo
    BY <1>2 DEF Inv, ProcShape, SameExchange, Become
  <1>5. \A i \in RIs : paid'[i].row = paid[i].row \/ paid'[i].row = proc[p].row
    BY <1>1, <1>3 DEF Inv, PaidShape
  <1>6. ProcShape' /\ LedgerShape'
    BY <1>2, <1>3 DEF Inv, ProcShape, LedgerShape, SameExchange, Fields, Become, At
  <1>7. PaidShape'
    BY <1>1, <1>5 DEF Inv, ProcShape, PaidShape
  <1>8. RowOwned'
    BY <1>2, <1>3, <1>4 DEF Inv, ProcShape, RowOwned, Become, At
  <1>9. PaidWhenRecorded'
    BY <1>2, <1>4, <1>5 DEF Inv, ProcShape, RowOwned, PaidWhenRecorded, Become, At
  <1>10. PaidRowOnLedger'
    BY <1>3, <1>5 DEF Inv, ProcShape, RowOwned, PaidRowOnLedger
  <1> QED
    BY <1>6, <1>7, <1>8, <1>9, <1>10 DEF Inv

\* The owner's last write.
LEMMA FinishStep ==
    ASSUME Inv, NEW p \in Approvers, RecordApproved(p) \/ FailApproved(p)
    PROVE  Inv'
  <1> DEFINE r == proc[p].row
  <1>1. p \in Procs
    BY DEF Procs
  <1>2. Rest(p) /\ UNCHANGED paid
    BY DEF RecordApproved, FailApproved
  <1>3. \/ UNCHANGED ledger
        \/ At(p, "record") /\ SetRow(r, [ledger[r] EXCEPT
               !.status = "completed", !.due = proc[p].due, !.day = today])
        \/ At(p, "fail") /\ SetRow(r, [ledger[r] EXCEPT !.status = "failed", !.day = today])
    BY DEF RecordApproved, FailApproved
  <1>4. CASE UNCHANGED ledger
    BY <1>1, <1>2, <1>4, UnchangedQuiet, RestingRowless, QuietStep DEF Rest
  <1>5. CASE r = None
    <2>1. QuietLedger
      BY <1>3, <1>5, ExchangeAssumption DEF SetRow, Inv, LedgerShape, QuietLedger
    <2> QED
      BY <1>1, <1>2, <2>1, RestingRowless, QuietStep DEF Rest
  <1>6. CASE r # None /\ ~UNCHANGED ledger
    <2>1. r \in Rows /\ ledger[r].status = "processing"
      BY <1>1, <1>6 DEF Inv, ProcShape, RowOwned
    <2>2. \A q \in Procs : proc'[q] = IF q = p THEN Resting ELSE proc[q]
      BY <1>1, <1>2 DEF Inv, ProcShape, Rest, Become
    <2>3. /\ DOMAIN ledger' = Rows
          /\ DOMAIN ledger'[r] = {"status", "ri", "due", "day"}
          /\ \A x \in Rows \ {r} : ledger'[x] = ledger[x]
          /\ \/ ledger'[r].status = "completed"
             \/ ledger'[r].status = "failed" /\ At(p, "fail")
      BY <1>3, <1>6, <2>1 DEF Inv, LedgerShape, SetRow
    <2>4. ProcShape' /\ PaidShape'
      BY <1>1, <1>2, <2>2 DEF Inv, ProcShape, PaidShape, Rest, Become, Resting, At
    <2>5. LedgerShape'
      BY <2>3 DEF Inv, LedgerShape
    <2>6. RowOwned'
      BY <1>1, <2>2, <2>3 DEF Inv, RowOwned, Resting, ProcShape
    <2>7. PaidWhenRecorded'
      BY <1>2, <2>2 DEF Inv, PaidWhenRecorded, Resting, At
    <2>8. PaidRowOnLedger'
      BY <1>1, <1>2, <1>6, <2>3 DEF Inv, PaidShape, PaidRowOnLedger, PaidWhenRecorded, At
    <2> QED
      BY <2>4, <2>5, <2>6, <2>7, <2>8 DEF Inv
  <1> QED
    BY <1>4, <1>5, <1>6

-----------------------------------------------------------------------------
(* The theorem.                                                             *)

\* Every step of a process at work preserves the invariant.
LEMMA StepInv ==
    ASSUME Inv, NEW p \in Procs, Step(p)
    PROVE  Inv'
  <1>1. CASE \E ri \in RIs : TakeUp(p, ri)
    <2>1. PICK ri \in RIs : TakeUp(p, ri)
      BY <1>1
    <2>2. QuietLedger /\ UNCHANGED paid
      BY <2>1, UnchangedQuiet, InsertQuiet DEF TakeUp
    <2>3. UNCHANGED proc \/ \E job : Rowless(job) /\ Become(p, job)
      BY <2>1 DEF TakeUp, Rowless, Fields, Inv, ProcShape, RowOwned, At
    <2> QED
      BY <2>2, <2>3, QuietStep
  <1>2. CASE EndRun(p)
    BY <1>2, UnchangedQuiet, RestingRowless, QuietStep DEF EndRun, Rest
  <1>3. CASE Check(p)
    BY <1>3, CapOnward, MoveStep DEF Check, At
  <1>4. CASE RefuseOverCap(p) \/ CheckFails(p) \/ ExchangeFails(p)
    BY <1>4, GotoOnward, MoveStep DEF RefuseOverCap, CheckFails, ExchangeFails, At
  <1>5. CASE Accept(p)
    BY <1>5, AcceptStep
  <1>6. CASE RecordApproved(p) \/ FailApproved(p)
    BY <1>6, FinishStep DEF RecordApproved, FailApproved
  <1>7. CASE RecordAuto(p)
    <2>1. QuietLedger /\ UNCHANGED paid
      BY <1>7, UnchangedQuiet, InsertQuiet DEF RecordAuto
    <2>2. \E job : Rowless(job) /\ Become(p, job)
      BY <1>7, NextRecRowless, RestingRowless DEF RecordAuto, Rest
    <2> QED
      BY <2>1, <2>2, QuietStep
  <1>8. CASE FailAuto(p)
    <2>1. QuietLedger /\ UNCHANGED paid
      BY <1>8, UnchangedQuiet, InsertQuiet DEF FailAuto
    <2> QED
      BY <1>8, <2>1, NextRecRowless, QuietStep DEF FailAuto
  <1> QED
    BY <1>1, <1>2, <1>3, <1>4, <1>5, <1>6, <1>7, <1>8 DEF Step

\* Every step of the system preserves the invariant.
LEMMA NextInv == Inv /\ [Next]_vars => Inv'
  <1> SUFFICES ASSUME Inv, [Next]_vars PROVE Inv'
    OBVIOUS
  <1>1. CASE \E p \in Reshape, canceling \in BOOLEAN : StartRun(p, canceling)
    <2>1. PICK p \in Reshape, canceling \in BOOLEAN : StartRun(p, canceling)
      BY <1>1
    <2>2. QuietLedger /\ UNCHANGED paid /\ p \in Procs
      BY <2>1, UnchangedQuiet, CancelQuiet DEF StartRun, Procs
    <2>3. \E job : Rowless(job) /\ Become(p, job)
      BY <2>1 DEF StartRun, Rowless, Resting, Fields
    <2> QED
      BY <2>2, <2>3, QuietStep
  <1>2. CASE \E p \in Approvers, r \in Rows : Approve(p, r)
    BY <1>2, ApproveStep
  <1>3. CASE \E r \in Rows : Reject(r)
    <2>1. PICK r \in Rows : Reject(r)
      BY <1>3
    <2>2. QuietLedger
      BY <2>1 DEF Reject, CanLeavePending, SetRow, QuietLedger, Inv, LedgerShape
    <2> QED
      BY <2>1, <2>2, QuietStep DEF Reject
  <1>4. CASE \E p \in Procs : Step(p)
    BY <1>4, StepInv
  <1>5. CASE \E p \in Procs : Crash(p)
    BY <1>5, UnchangedQuiet, RestingRowless, QuietStep DEF Crash, Rest
  <1>6. CASE Midnight \/ UNCHANGED vars
    BY <1>6, UnchangedQuiet, QuietStep DEF Midnight, vars
  <1> QED
    BY <1>1, <1>2, <1>3, <1>4, <1>5, <1>6 DEF Next

\* However approvals, rejections and runs interleave, whoever dies and whatever
\* AWS quotes, a row that was cancelled has not been executed, and a row that
\* was executed is processing or completed unless its reply was lost.
THEOREM PaidRowsOnLedger == Spec => []PaidRowOnLedger
  <1>1. Inv => PaidRowOnLedger
    BY DEF Inv
  <1> QED
    BY InitInv, NextInv, <1>1, PTL DEF Spec
-----------------------------------------------------------------------------
(* Types.  The cap left to an exchange is a natural because the spend it is *)
(* taken from is one: the ledger holds finitely many rows at any moment.    *)

Written(rs) == {r \in Rows : rs[r].status # "absent"}

TypeInv == TypeOK /\ IsFiniteSet(Written(ledger))

Payment == [amount : Nat, row : Rows \cup {None}, made : BOOLEAN]

\* The payments of the rows of a ledger, and the rows that count for a day.
Costs(rs) == [r \in Rows |-> rs[r].due]
DoneOn(rs, d) == {r \in Rows : rs[r].status = "completed" /\ rs[r].day = d}
SpentOn(rs, d) == {r \in Rows : rs[r].status \in Spending /\ rs[r].day = d}

\* Sums the code takes over rows of the ledger are sums of their costs.
LEMMA LedgerSum ==
    ASSUME NEW S \in SUBSET Rows, IsFiniteSet(S), \A r \in S : ledger[r].due \in Nat
    PROVE  MapThenSumSet(LAMBDA r : ledger[r].due, S) = Total(Costs(ledger), S)
  <1> DEFINE f == Costs(ledger)
             P(g) == g = [s \in SUBSET S |->
                            IF s = {} THEN 0
                            ELSE ledger[CHOOSE x \in s : TRUE].due
                                 + g[s \ {CHOOSE x \in s : TRUE}]]
             h == CHOOSE g : P(g)
  <1>1. ASSUME NEW g PROVE P(g) <=> SumsUp(f, S, g)
    <2>1. \A s \in SUBSET S : s # {} => f[CHOOSE x \in s : TRUE] = ledger[CHOOSE x \in s : TRUE].due
      BY DEF Costs
    <2>2. [s \in SUBSET S |->
             IF s = {} THEN 0
             ELSE ledger[CHOOSE x \in s : TRUE].due + g[s \ {CHOOSE x \in s : TRUE}]]
          = [s \in SUBSET S |->
             IF s = {} THEN 0
             ELSE f[CHOOSE x \in s : TRUE] + g[s \ {CHOOSE x \in s : TRUE}]]
      <3> HIDE DEF f
      <3> QED
        BY <2>1
    <2>3. QED
      BY <2>2 DEF SumsUp, Pick
  <1>2. MapThenSumSet(LAMBDA r : ledger[r].due, S) = h[S]
    BY Zenon DEF MapThenSumSet, MapThenFoldSet
  <1>3. \A x \in S : f[x] \in Nat
    BY DEF Costs
  <1>4. \E g : SumsUp(f, S, g)
    <2> HIDE DEF f
    <2> QED
      BY <1>3, SumsExist
  <1>5. \E g : P(g)
    <2> HIDE DEF P
    <2> QED
      BY <1>1, <1>4
  <1>6. P(h)
    <2> HIDE DEF P
    <2> QED
      BY <1>5
  <1> HIDE DEF P, h, f
  <1>7. SumsUp(f, S, h)
    BY <1>1, <1>6
  <1>8. Total(f, S) = h[S]
    BY <1>3, <1>7, TotalIs
  <1> QED
    BY <1>2, <1>8 DEF f

\* The rows of a day are finitely many, and their costs naturals.
LEMMA DayFinite ==
    ASSUME TypeInv, NEW S \in SUBSET Written(ledger)
    PROVE  /\ IsFiniteSet(S) /\ S \in SUBSET Rows
           /\ \A r \in S : ledger[r].due \in Nat /\ Costs(ledger)[r] \in Nat
  <1>1. IsFiniteSet(S)
    BY FS_Subset DEF TypeInv
  <1> QED
    BY <1>1 DEF TypeInv, TypeOK, Row, Costs, Written

\* What the code calls a day's spend is the total of the rows that count.
LEMMA SpendIs ==
    ASSUME TypeInv, NEW d
    PROVE  /\ DailySpend(d) = Total(Costs(ledger), SpentOn(ledger, d))
           /\ DailySpend(d) \in Nat
  <1> DEFINE S == SpentOn(ledger, d)
  <1>1. S \in SUBSET Written(ledger)
    BY DEF SpentOn, Written, Spending
  <1>2. MapThenSumSet(LAMBDA r : ledger[r].due, S) = Total(Costs(ledger), S)
    <2> HIDE DEF S
    <2> QED
      BY <1>1, DayFinite, LedgerSum
  <1>3. Total(Costs(ledger), S) \in Nat
    <2> HIDE DEF S
    <2> QED
      BY <1>1, DayFinite, TotalStep
  <1> QED
    BY <1>2, <1>3 DEF DailySpend, SpentOn

\* A process that has passed the check is within a cap that is a natural.
LEMMA HeadroomIs ==
    ASSUME TypeInv, NEW p \in Procs, WithinCap(proc[p].due, DailySpend(today))
    PROVE  /\ Headroom(DailySpend(today)) \in Nat
           /\ Headroom(DailySpend(today)) + DailySpend(today) <= DailyCap
  <1>1. DailySpend(today) \in Nat /\ proc[p].due \in Nat
    BY SpendIs DEF TypeInv, TypeOK, Proc
  <1> QED
    BY <1>1, ExchangeAssumption DEF Headroom, WithinCap, Smaller
-----------------------------------------------------------------------------
(* Every step keeps the types.                                              *)

\* A step that gives its process a job of the right type.
LEMMA JobTyped ==
    ASSUME TypeInv, NEW p \in Procs, NEW job \in Proc, Become(p, job)
    PROVE  proc' \in [Procs -> Proc]
  BY DEF TypeInv, TypeOK, Become

LEMMA RestTyped == Resting \in Proc
  BY DEF Resting, Proc

\* Going on to another place of the code keeps the rest of the job.
LEMMA GotoTyped ==
    ASSUME TypeInv, NEW p \in Procs, NEW pc \in {"execute", "record", "fail"}, Goto(p, pc)
    PROVE  proc' \in [Procs -> Proc]
  <1>1. proc[p] \in Proc
    BY DEF TypeInv, TypeOK
  <1>2. [proc[p] EXCEPT !.pc = pc] \in Proc
    BY <1>1 DEF Proc
  <1> QED
    BY <1>1, <1>2 DEF TypeInv, TypeOK, Goto

LEMMA NextRecTyped ==
    ASSUME TypeInv, NEW p \in Procs, NextRec(p)
    PROVE  proc' \in [Procs -> Proc]
  <1> DEFINE job == [Resting EXCEPT !.pc = "recs", !.mode = proc[p].mode,
                                    !.todo = proc[p].todo]
  <1>1. proc[p] \in Proc
    BY DEF TypeInv, TypeOK
  <1>2. job \in Proc
    BY <1>1 DEF Proc, Resting
  <1> QED
    BY <1>2, JobTyped DEF NextRec

\* An insert adds one row of the right type.
LEMMA InsertTyped ==
    ASSUME TypeInv, NEW r \in Rows, NEW status \in Statuses, NEW ri \in RIs \cup {None},
           NEW due \in Nat, InsertRow(r, status, ri, due)
    PROVE  ledger' \in [Rows -> Row] /\ IsFiniteSet(Written(ledger'))
  <1> DEFINE row == [status |-> status, ri |-> ri, due |-> due, day |-> today]
  <1>1. row \in Row
    BY DEF TypeInv, TypeOK, Row
  <1>2. ledger' \in [Rows -> Row]
    BY <1>1 DEF InsertRow, SetRow, TypeInv, TypeOK
  <1>3. Written(ledger') \subseteq Written(ledger) \cup {r}
    BY DEF InsertRow, SetRow, Written, TypeInv, TypeOK
  <1>4. IsFiniteSet(Written(ledger) \cup {r})
    BY FS_AddElement DEF TypeInv
  <1> QED
    BY <1>2, <1>3, <1>4, FS_Subset

\* A write of a row that is there keeps its type.
LEMMA RewriteTyped ==
    ASSUME TypeInv, NEW r, NEW row, SetRow(r, row),
           r \in Rows => row \in Row /\ ledger[r].status # "absent"
    PROVE  ledger' \in [Rows -> Row] /\ IsFiniteSet(Written(ledger'))
  <1>1. ledger' \in [Rows -> Row]
    BY DEF SetRow, TypeInv, TypeOK
  <1>2. Written(ledger') \subseteq Written(ledger)
    BY DEF SetRow, Written, TypeInv, TypeOK
  <1> QED
    BY <1>1, <1>2, FS_Subset DEF TypeInv

\* A ledger that stays keeps its type.
LEMMA SameTyped ==
    ASSUME TypeInv, UNCHANGED ledger
    PROVE  ledger' \in [Rows -> Row] /\ IsFiniteSet(Written(ledger'))
  BY DEF TypeInv, TypeOK, Written

\* A process's fields.
LEMMA JobFields ==
    ASSUME TypeInv, NEW p \in Procs
    PROVE  /\ proc[p] \in Proc /\ proc[p].mode \in {"manual", "auto"}
           /\ proc[p].todo \in SUBSET RIs /\ proc[p].row \in Rows \cup {None}
           /\ proc[p].ri \in RIs \cup {None} /\ proc[p].due \in Nat /\ proc[p].cap \in Nat
  BY DEF TypeInv, TypeOK, Proc

\* The row of a process at work is there.
LEMMA OwnRow ==
    ASSUME TypeInv, Inv, NEW p \in Procs, proc[p].row \in Rows
    PROVE  ledger[proc[p].row] \in Row /\ ledger[proc[p].row].status = "processing"
  <1>1. proc[p].row # None
    BY ExchangeAssumption
  <1>2. ledger[proc[p].row].status = "processing"
    BY <1>1 DEF Inv, RowOwned
  <1> QED
    BY <1>2 DEF TypeInv, TypeOK

\* What the four variables need for the types to hold.
LEMMA TypedParts ==
    ASSUME TypeInv, ledger' \in [Rows -> Row], IsFiniteSet(Written(ledger')),
           proc' \in [Procs -> Proc], UNCHANGED <<today, paid>>
    PROVE  TypeInv'
  BY DEF TypeInv, TypeOK, Written

\* Every step of a process at work keeps the types.
LEMMA StepTyped ==
    ASSUME TypeInv, Inv, NEW p \in Procs, Step(p)
    PROVE  TypeInv'
  <1>1. CASE \E ri \in RIs : TakeUp(p, ri)
    <2>1. PICK ri \in RIs : TakeUp(p, ri)
      BY <1>1
    <2>2. PICK due \in {q \in Prices : q <= PerExchangeCap} :
            IF proc[p].mode = "manual"
            THEN /\ \/ \E r \in Rows : InsertRow(r, "pending", ri, due)
                    \/ UNCHANGED ledger
                 /\ Become(p, [proc[p] EXCEPT !.todo = proc[p].todo \ {ri}])
            ELSE /\ Become(p, [proc[p] EXCEPT !.pc = "check", !.todo = proc[p].todo \ {ri},
                                              !.ri = ri, !.due = due])
                 /\ UNCHANGED ledger
      BY <2>1 DEF TakeUp
    <2>3. due \in Nat
      BY <2>2, ExchangeAssumption
    <2>4. ledger' \in [Rows -> Row] /\ IsFiniteSet(Written(ledger'))
      BY <2>2, <2>3, InsertTyped, SameTyped DEF Statuses
    <2>5. /\ [proc[p] EXCEPT !.todo = proc[p].todo \ {ri}] \in Proc
          /\ [proc[p] EXCEPT !.pc = "check", !.todo = proc[p].todo \ {ri},
                             !.ri = ri, !.due = due] \in Proc
      BY <2>3, JobFields DEF Proc
    <2>6. proc' \in [Procs -> Proc]
      BY <2>2, <2>5, JobTyped
    <2> QED
      BY <2>1, <2>4, <2>6, TypedParts DEF TakeUp
  <1>2. CASE EndRun(p)
    BY <1>2, SameTyped, RestTyped, JobTyped, TypedParts DEF EndRun, Rest
  <1>3. CASE Check(p)
    <2>1. Headroom(DailySpend(today)) \in Nat
      BY <1>3, HeadroomIs DEF Check
    <2>2. [proc[p] EXCEPT !.pc = "execute", !.cap = Headroom(DailySpend(today))] \in Proc
      BY <2>1, JobFields DEF Proc
    <2>3. proc' \in [Procs -> Proc]
      BY <1>3, <2>2, JobTyped DEF Check
    <2> QED
      BY <1>3, <2>3, SameTyped, TypedParts DEF Check
  <1>4. CASE RefuseOverCap(p) \/ CheckFails(p) \/ ExchangeFails(p)
    BY <1>4, SameTyped, GotoTyped, TypedParts DEF RefuseOverCap, CheckFails, ExchangeFails
  <1>5. CASE Accept(p)
    <2>1. PICK amount \in Requotes(proc[p].due) :
             /\ paid' = [paid EXCEPT ![proc[p].ri] =
                           [amount |-> amount, row |-> proc[p].row, made |-> TRUE]]
             /\ \/ Become(p, [proc[p] EXCEPT !.pc = "record", !.due = amount])
                \/ LostReplies /\ Goto(p, "fail")
      BY <1>5 DEF Accept
    <2>2. amount \in Nat
      BY JobFields, ExchangeAssumption DEF Requotes
    <2>3. [amount |-> amount, row |-> proc[p].row, made |-> TRUE] \in Payment
      BY <2>2, JobFields DEF Payment
    <2>4. paid' \in [RIs -> Payment]
      BY <2>1, <2>3 DEF TypeInv, TypeOK, Payment
    <2>5. [proc[p] EXCEPT !.pc = "record", !.due = amount] \in Proc
      BY <2>2, JobFields DEF Proc
    <2>6. proc' \in [Procs -> Proc]
      BY <2>1, <2>5, JobTyped, GotoTyped
    <2> QED
      BY <1>5, <2>4, <2>6 DEF Accept, TypeInv, TypeOK, Payment, Written
  <1>6. CASE RecordApproved(p)
    <2> DEFINE r == proc[p].row
               row == [ledger[r] EXCEPT !.status = "completed", !.due = proc[p].due,
                                        !.day = today]
    <2>1. r \in Rows => row \in Row /\ ledger[r].status # "absent"
      <3> SUFFICES ASSUME r \in Rows PROVE row \in Row /\ ledger[r].status # "absent"
        OBVIOUS
      <3>1. ledger[r] \in Row /\ ledger[r].status = "processing"
        BY OwnRow
      <3>2. proc[p].due \in Nat /\ today \in 0..LastDay
        BY JobFields DEF TypeInv, TypeOK
      <3> QED
        BY <3>1, <3>2 DEF Row, Statuses
    <2>2. SetRow(r, row) \/ UNCHANGED ledger
      BY <1>6 DEF RecordApproved
    <2>3. ledger' \in [Rows -> Row] /\ IsFiniteSet(Written(ledger'))
      <3> HIDE DEF r, row
      <3> QED
        BY <2>1, <2>2, RewriteTyped, SameTyped
    <2> QED
      BY <1>6, <2>3, RestTyped, JobTyped, TypedParts DEF RecordApproved, Rest
  <1>7. CASE FailApproved(p)
    <2> DEFINE r == proc[p].row
               row == [ledger[r] EXCEPT !.status = "failed", !.day = today]
    <2>1. r \in Rows => row \in Row /\ ledger[r].status # "absent"
      <3> SUFFICES ASSUME r \in Rows PROVE row \in Row /\ ledger[r].status # "absent"
        OBVIOUS
      <3>1. ledger[r] \in Row /\ ledger[r].status = "processing" /\ today \in 0..LastDay
        BY OwnRow DEF TypeInv, TypeOK
      <3> QED
        BY <3>1 DEF Row, Statuses
    <2>2. SetRow(r, row) \/ UNCHANGED ledger
      BY <1>7 DEF FailApproved
    <2>3. ledger' \in [Rows -> Row] /\ IsFiniteSet(Written(ledger'))
      <3> HIDE DEF r, row
      <3> QED
        BY <2>1, <2>2, RewriteTyped, SameTyped
    <2> QED
      BY <1>7, <2>3, RestTyped, JobTyped, TypedParts DEF FailApproved, Rest
  <1>8. CASE RecordAuto(p)
    <2>1. ledger' \in [Rows -> Row] /\ IsFiniteSet(Written(ledger'))
      BY <1>8, JobFields, InsertTyped, SameTyped DEF RecordAuto, Statuses
    <2>2. proc' \in [Procs -> Proc]
      BY <1>8, RestTyped, JobTyped, NextRecTyped DEF RecordAuto, Rest
    <2> QED
      BY <1>8, <2>1, <2>2, TypedParts DEF RecordAuto
  <1>9. CASE FailAuto(p)
    <2>1. ledger' \in [Rows -> Row] /\ IsFiniteSet(Written(ledger'))
      BY <1>9, JobFields, InsertTyped, SameTyped DEF FailAuto, Statuses
    <2> QED
      BY <1>9, <2>1, NextRecTyped, TypedParts DEF FailAuto
  <1> QED
    BY <1>1, <1>2, <1>3, <1>4, <1>5, <1>6, <1>7, <1>8, <1>9 DEF Step

\* So does every other step.
LEMMA NextTyped == TypeInv /\ Inv /\ [Next]_vars => TypeInv'
  <1> SUFFICES ASSUME TypeInv, Inv, [Next]_vars PROVE TypeInv'
    OBVIOUS
  <1>1. CASE \E p \in Reshape, canceling \in BOOLEAN : StartRun(p, canceling)
    <2>1. PICK p \in Reshape, canceling \in BOOLEAN : StartRun(p, canceling)
      BY <1>1
    <2>2. ledger' \in [Rows -> Row] /\ IsFiniteSet(Written(ledger'))
      <3>1. CASE UNCHANGED ledger
        BY <3>1, SameTyped
      <3>2. CASE CancelPending
        <4>1. ledger' \in [Rows -> Row]
          BY <3>2 DEF CancelPending, TypeInv, TypeOK, Row, Statuses
        <4>2. Written(ledger') \subseteq Written(ledger)
          BY <3>2 DEF CancelPending, Cancelable, Written
        <4> QED
          BY <4>1, <4>2, FS_Subset DEF TypeInv
      <3> QED
        BY <2>1, <3>1, <3>2 DEF StartRun
    <2>3. PICK mode \in Modes, todo \in SUBSET {ri \in RIs : ~Exchanged(ri)} :
            Become(p, [Resting EXCEPT !.pc = "recs", !.mode = mode, !.todo = todo])
      BY <2>1 DEF StartRun
    <2>4. [Resting EXCEPT !.pc = "recs", !.mode = mode, !.todo = todo] \in Proc
      BY <2>3, ExchangeAssumption DEF Resting, Proc
    <2>5. proc' \in [Procs -> Proc]
      BY <2>3, <2>4, JobTyped DEF Procs
    <2> QED
      BY <2>1, <2>2, <2>5, TypedParts DEF StartRun
  <1>2. CASE \E p \in Approvers, r \in Rows : Approve(p, r)
    <2>1. PICK p \in Approvers, r \in Rows : Approve(p, r)
      BY <1>2
    <2>2. /\ [ledger[r] EXCEPT !.status = "processing", !.day = today] \in Row
          /\ ledger[r].status # "absent"
      BY <2>1 DEF Approve, CanLeavePending, TypeInv, TypeOK, Row, Statuses
    <2>3. [Resting EXCEPT !.pc = "check", !.row = r, !.ri = ledger[r].ri,
                          !.due = ledger[r].due] \in Proc
      BY DEF Resting, Proc, TypeInv, TypeOK, Row
    <2>4. ledger' \in [Rows -> Row] /\ IsFiniteSet(Written(ledger'))
      BY <2>1, <2>2, RewriteTyped DEF Approve
    <2>5. proc' \in [Procs -> Proc]
      BY <2>1, <2>3, JobTyped DEF Approve, Procs
    <2> QED
      BY <2>1, <2>4, <2>5, TypedParts DEF Approve
  <1>3. CASE \E r \in Rows : Reject(r)
    <2>1. PICK r \in Rows : Reject(r)
      BY <1>3
    <2>2. /\ [ledger[r] EXCEPT !.status = "canceled", !.day = today] \in Row
          /\ ledger[r].status # "absent"
      BY <2>1 DEF Reject, CanLeavePending, TypeInv, TypeOK, Row, Statuses
    <2>3. ledger' \in [Rows -> Row] /\ IsFiniteSet(Written(ledger'))
      BY <2>1, <2>2, RewriteTyped DEF Reject
    <2> QED
      BY <2>1, <2>3, TypedParts DEF Reject, TypeInv, TypeOK
  <1>4. CASE \E p \in Procs : Step(p)
    BY <1>4, StepTyped
  <1>5. CASE \E p \in Procs : Crash(p)
    BY <1>5, SameTyped, RestTyped, JobTyped, TypedParts DEF Crash, Rest
  <1>6. CASE Midnight \/ UNCHANGED vars
    <2>1. today' \in 0..LastDay
      BY <1>6, ExchangeAssumption DEF Midnight, vars, TypeInv, TypeOK
    <2>2. UNCHANGED <<ledger, proc, paid>>
      BY <1>6 DEF Midnight, vars
    <2> QED
      BY <2>1, <2>2 DEF TypeInv, TypeOK, Written
  <1> QED
    BY <1>1, <1>2, <1>3, <1>4, <1>5, <1>6 DEF Next

LEMMA InitTyped == Init => TypeInv
  <1> SUFFICES ASSUME Init PROVE TypeInv
    OBVIOUS
  <1>1. Written(ledger) = {}
    BY DEF Init, Written, NoRow
  <1>2. TypeOK
    BY ExchangeAssumption, RestTyped
       DEF Init, TypeOK, NoRow, NoExchange, Row, Statuses
  <1> QED
    BY <1>1, <1>2, FS_EmptySet DEF TypeInv

\* Every row, job and payment keeps its type; in particular no exchange is ever
\* given a negative cap (chooseEffectiveCap after checkDailyCap).
THEOREM TypesKept == Spec => []TypeOK
  <1>1. TypeInv => TypeOK
    BY DEF TypeInv
  <1>2. Init => Inv /\ TypeInv
    BY InitInv, InitTyped
  <1>3. Inv /\ TypeInv /\ [Next]_vars => Inv' /\ TypeInv'
    BY NextInv, NextTyped
  <1> QED
    BY <1>1, <1>2, <1>3, PTL DEF Spec
-----------------------------------------------------------------------------
(* What the ledger has booked.                                              *)

Table(rs) == rs \in [Rows -> Row] /\ IsFiniteSet(Written(rs))

\* The payments completed on day d.
Booked(rs, d) == Total(Costs(rs), DoneOn(rs, d))

\* Rows of a table that are written are finitely many and cost naturals.
LEMMA TableFinite ==
    ASSUME NEW rs, Table(rs), NEW S \in SUBSET Written(rs)
    PROVE  /\ IsFiniteSet(S) /\ S \in SUBSET Rows
           /\ \A r \in S : Costs(rs)[r] = rs[r].due /\ Costs(rs)[r] \in Nat
  <1>1. IsFiniteSet(S)
    BY FS_Subset DEF Table
  <1> QED
    BY <1>1 DEF Table, Row, Costs, Written

LEMMA DoneFinite ==
    ASSUME NEW rs, Table(rs), NEW d
    PROVE  /\ DoneOn(rs, d) \in SUBSET Written(rs) /\ IsFiniteSet(DoneOn(rs, d))
           /\ Booked(rs, d) \in Nat
  <1> DEFINE S == DoneOn(rs, d)
  <1>1. S \in SUBSET Written(rs)
    BY DEF DoneOn, Written
  <1>2. IsFiniteSet(S) /\ \A r \in S : Costs(rs)[r] \in Nat
    <2> HIDE DEF S
    <2> QED
      BY <1>1, TableFinite
  <1>3. Total(Costs(rs), S) \in Nat
    <2> HIDE DEF S
    <2> QED
      BY <1>2, TotalStep
  <1> QED
    BY <1>1, <1>2, <1>3 DEF Booked

\* Completed rows stay as they are and no row becomes one.
NoneCompleted(rs, ss) ==
    \A r \in Rows : \/ ss[r] = rs[r]
                    \/ rs[r].status # "completed" /\ ss[r].status # "completed"

\* Then what is booked stays.
LEMMA BookedStays ==
    ASSUME NEW rs, NEW ss, Table(rs), Table(ss), NoneCompleted(rs, ss), NEW d
    PROVE  Booked(ss, d) = Booked(rs, d)
  <1> DEFINE S == DoneOn(rs, d)
  <1>1. DoneOn(ss, d) = S
    BY DEF NoneCompleted, DoneOn
  <1>2. \A r \in S : ss[r] = rs[r]
    BY DEF NoneCompleted, DoneOn
  <1>3. IsFiniteSet(S) /\ S \in SUBSET Rows /\ \A r \in S : Costs(rs)[r] \in Nat
    BY DoneFinite, TableFinite
  <1>4. \A r \in S : Costs(rs)[r] \in Nat /\ Costs(ss)[r] = Costs(rs)[r]
    BY <1>2, <1>3 DEF Costs
  <1>5. Total(Costs(ss), S) = Total(Costs(rs), S)
    <2> HIDE DEF S
    <2> QED
      BY <1>3, <1>4, TotalSame
  <1> QED
    BY <1>1, <1>5 DEF Booked

\* A row that is completed adds its payment to the day it is completed on.
LEMMA BookedAdds ==
    ASSUME NEW rs, NEW ss, Table(rs), Table(ss), NEW r \in Rows,
           rs[r].status # "completed", ss[r].status = "completed",
           \A x \in Rows \ {r} : ss[x] = rs[x], NEW d
    PROVE  Booked(ss, d) = Booked(rs, d) + (IF ss[r].day = d THEN ss[r].due ELSE 0)
  <1> DEFINE S == DoneOn(rs, d)
  <1>1. IsFiniteSet(S) /\ S \in SUBSET Rows /\ r \notin S /\ Total(Costs(rs), S) \in Nat
        /\ \A x \in S : Costs(rs)[x] \in Nat /\ Costs(ss)[x] = Costs(rs)[x]
    <2>1. IsFiniteSet(S) /\ S \in SUBSET Rows /\ \A x \in S : Costs(rs)[x] \in Nat
      BY DoneFinite, TableFinite
    <2>2. r \notin S
      BY DEF DoneOn
    <2>3. Total(Costs(rs), S) \in Nat
      BY DoneFinite DEF Booked
    <2> QED
      BY <2>1, <2>2, <2>3 DEF Costs
  <1>2. Total(Costs(ss), S) = Total(Costs(rs), S)
    <2> HIDE DEF S
    <2> QED
      BY <1>1, TotalSame
  <1>3. CASE ss[r].day # d
    <2>1. DoneOn(ss, d) = S
      BY <1>3 DEF DoneOn
    <2> QED
      BY <1>1, <1>2, <1>3, <2>1 DEF Booked
  <1>4. CASE ss[r].day = d
    <2>1. DoneOn(ss, d) = S \cup {r}
      BY <1>4 DEF DoneOn
    <2>2. Costs(ss)[r] = ss[r].due /\ ss[r].due \in Nat
      BY DEF Costs, Table, Row
    <2>3. \A x \in S \cup {r} : Costs(ss)[x] \in Nat
      <3> HIDE DEF S
      <3> QED
        BY <1>1, <2>2
    <2>4. Total(Costs(ss), S \cup {r}) = Costs(ss)[r] + Total(Costs(ss), S)
      <3> HIDE DEF S
      <3> QED
        BY <1>1, <2>3, TotalAdd
    <2> HIDE DEF S
    <2>5. Booked(ss, d) = ss[r].due + Booked(rs, d)
      BY <1>2, <2>1, <2>2, <2>4 DEF Booked, S
    <2>6. Booked(rs, d) \in Nat
      BY DoneFinite
    <2> QED
      BY <1>4, <2>2, <2>5, <2>6
  <1> QED
    BY <1>3, <1>4

\* What is booked on a day is part of what the day has cost.
LEMMA BookedWithinSpend ==
    ASSUME TypeInv, NEW d
    PROVE  Booked(ledger, d) <= DailySpend(d)
  <1> DEFINE S == DoneOn(ledger, d)
             T == SpentOn(ledger, d)
  <1>1. S \subseteq T /\ T \in SUBSET Written(ledger)
    BY DEF DoneOn, SpentOn, Spending, Written
  <1>2. IsFiniteSet(T) /\ \A r \in T : Costs(ledger)[r] \in Nat
    <2> HIDE DEF T
    <2> QED
      BY <1>1, DayFinite
  <1>3. \A r \in S : Costs(ledger)[r] <= Costs(ledger)[r]
    <2> HIDE DEF S, T
    <2> QED
      BY <1>1, <1>2
  <1>4. Total(Costs(ledger), S) <= Total(Costs(ledger), T)
    <2> HIDE DEF S, T
    <2> QED
      BY <1>1, <1>2, <1>3, TotalMono
  <1> QED
    BY <1>4, SpendIs DEF Booked

LEMMA TypedTable == TypeInv => Table(ledger) /\ today \in 0..LastDay
  BY DEF TypeInv, TypeOK, Table

\* The property speaks of what is booked.
LEMMA CapOfBooked ==
    ASSUME TypeInv, \A d \in 0..LastDay : Booked(ledger, d) <= DailyCap
    PROVE  LedgerWithinCap
  <1> SUFFICES ASSUME NEW d \in 0..LastDay
               PROVE  MapThenSumSet(LAMBDA r : ledger[r].due, CompletedOn(d)) <= DailyCap
    BY DEF LedgerWithinCap
  <1> DEFINE S == CompletedOn(d)
  <1>1. S = DoneOn(ledger, d)
    BY DEF CompletedOn, DoneOn
  <1>2. S \in SUBSET Written(ledger)
    BY DEF CompletedOn, Written
  <1>3. MapThenSumSet(LAMBDA r : ledger[r].due, S) = Total(Costs(ledger), S)
    <2> HIDE DEF S
    <2> QED
      BY <1>2, DayFinite, LedgerSum
  <1> QED
    BY <1>1, <1>3 DEF Booked

\* Only the two records of an accepted exchange complete a row.
LEMMA OthersCompleteNone ==
    ASSUME TypeInv, Inv, [Next]_vars, \A p \in Procs : ~RecordApproved(p) /\ ~RecordAuto(p)
    PROVE  NoneCompleted(ledger, ledger')
  <1>1. CASE UNCHANGED ledger
    BY <1>1 DEF NoneCompleted
  <1>2. CASE CancelPending
    BY <1>2 DEF CancelPending, Cancelable, NoneCompleted, TypeInv, TypeOK, Row
  <1>3. CASE \E r \in Rows, status \in {"pending", "failed"} : \E ri, due : InsertRow(r, status, ri, due)
    BY <1>3 DEF InsertRow, SetRow, NoneCompleted, TypeInv, TypeOK
  <1>4. CASE \E p \in Approvers, r \in Rows : Approve(p, r)
    BY <1>4 DEF Approve, CanLeavePending, SetRow, NoneCompleted, TypeInv, TypeOK, Row
  <1>5. CASE \E r \in Rows : Reject(r)
    BY <1>5 DEF Reject, CanLeavePending, SetRow, NoneCompleted, TypeInv, TypeOK, Row
  <1>6. CASE \E p \in Procs : FailApproved(p)
    <2>1. PICK p \in Procs : FailApproved(p)
      BY <1>6
    <2>2. CASE proc[p].row \in Rows
      BY <1>1, <2>1, <2>2, OwnRow DEF FailApproved, SetRow, NoneCompleted, TypeInv, TypeOK, Row
    <2>3. CASE proc[p].row \notin Rows
      BY <1>1, <2>1, <2>3 DEF FailApproved, SetRow, NoneCompleted, TypeInv, TypeOK
    <2> QED
      BY <2>2, <2>3
  <1> QED
    <2>1. CASE \E p \in Reshape, canceling \in BOOLEAN : StartRun(p, canceling)
      BY <1>1, <1>2, <2>1 DEF StartRun
    <2>2. CASE \E p \in Procs, ri \in RIs : TakeUp(p, ri)
      BY <1>1, <1>3, <2>2 DEF TakeUp
    <2>3. CASE \E p \in Procs : FailAuto(p)
      BY <1>1, <1>3, <2>3 DEF FailAuto
    <2>4. CASE \E p \in Procs : \/ EndRun(p) \/ Check(p) \/ RefuseOverCap(p) \/ CheckFails(p)
                                \/ Accept(p) \/ ExchangeFails(p) \/ Crash(p)
      BY <1>1, <2>4 DEF EndRun, Check, RefuseOverCap, CheckFails, Accept, ExchangeFails, Crash
    <2>5. CASE Midnight \/ UNCHANGED vars
      BY <1>1, <2>5 DEF Midnight, vars
    <2> QED
      BY <1>4, <1>5, <1>6, <2>1, <2>2, <2>3, <2>4, <2>5 DEF Next, Step
-----------------------------------------------------------------------------
(* One executor: whatever it is quoted, it may pay what the day has left.   *)

Working == {"check", "execute", "record", "fail"}

\* The processes that execute exchanges.
Executors == Approvers \cup (IF "auto" \in Modes THEN Reshape ELSE {})

OneExecutor == \A p, q \in Executors : p = q

\* What a job says of the process that has it.
RoleOf(p, job) ==
    /\ job.pc = "recs" => p \in Reshape
    /\ job.pc \in Working => p \in Executors
    /\ p \in Reshape /\ job.pc # "idle" => job.mode \in Modes

\* What a job may still pay fits beside what is booked.
Fits(job, rs, d) ==
    /\ job.pc = "execute" => job.cap + Booked(rs, d) <= DailyCap
    /\ job.pc = "record" => job.due + Booked(rs, d) <= DailyCap

Roles == \A p \in Procs : RoleOf(p, proc[p])

SoloInv ==
    /\ \A r \in Rows : ledger[r].status = "completed" => ledger[r].day <= today
    /\ \A d \in 0..LastDay : Booked(ledger, d) <= DailyCap
    /\ \A p \in Procs : Fits(proc[p], ledger, today)

\* Nothing is booked on an empty ledger.
LEMMA NothingBooked ==
    ASSUME NEW rs, Table(rs), NEW d, \A r \in Rows : rs[r].status = "completed" => rs[r].day # d
    PROVE  Booked(rs, d) = 0
  <1>1. DoneOn(rs, d) = {}
    BY DEF DoneOn
  <1> QED
    BY <1>1, FS_EmptySet, TotalStep DEF Booked

LEMMA InitSolo == Init => Roles /\ SoloInv
  <1> SUFFICES ASSUME Init PROVE Roles /\ SoloInv
    OBVIOUS
  <1>1. \A d : Booked(ledger, d) = 0
    BY InitTyped, TypedTable, NothingBooked DEF Init, NoRow
  <1>2. DailyCap \in Nat
    BY ExchangeAssumption
  <1> QED
    BY <1>1, <1>2 DEF Init, Roles, SoloInv, RoleOf, Fits, NoRow, Resting, Working

\* What a step does to the job of the process that takes it.
LEMMA RolesStay ==
    ASSUME TypeInv, Roles, NEW p \in Procs, NEW job, Become(p, job), RoleOf(p, job)
    PROVE  Roles'
  BY DEF Roles, RoleOf, Become, TypeInv, TypeOK

\* Each step gives its process a job that suits it.
LEMMA NextRoles == TypeInv /\ Roles /\ [Next]_vars => Roles'
  <1> SUFFICES ASSUME TypeInv, Roles, [Next]_vars PROVE Roles'
    OBVIOUS
  <1>1. \A p \in Procs : RoleOf(p, Resting)
    BY DEF RoleOf, Resting, Working
  <1>2. \A p \in Procs : DOMAIN proc[p] = Fields /\ RoleOf(p, proc[p])
    BY DEF TypeInv, TypeOK, Proc, Roles, Fields
  <1>3. ASSUME NEW p \in Procs, NEW pc \in Working, Goto(p, pc), p \in Executors,
               ~At(p, "idle")
        PROVE  Roles'
    <2> DEFINE job == [proc[p] EXCEPT !.pc = pc]
    <2>1. Become(p, job)
      BY <1>3 DEF Goto, Become
    <2>2. RoleOf(p, job)
      BY <1>2, <1>3 DEF RoleOf, Fields, Working, At
    <2> QED
      BY <2>1, <2>2, RolesStay
  <1>4. ASSUME NEW p \in Procs, NextRec(p), p \in Reshape, ~At(p, "idle") PROVE Roles'
    <2> DEFINE job == [Resting EXCEPT !.pc = "recs", !.mode = proc[p].mode,
                                      !.todo = proc[p].todo]
    <2>1. RoleOf(p, job)
      BY <1>2, <1>4 DEF RoleOf, Resting, Working, At
    <2> QED
      BY <1>4, <2>1, RolesStay DEF NextRec
  <1>5. ASSUME NEW p \in Procs, proc[p].pc \in Working PROVE p \in Executors /\ ~At(p, "idle")
    BY <1>2, <1>5 DEF RoleOf, Working, At
  <1>6. CASE \E p \in Reshape, canceling \in BOOLEAN : StartRun(p, canceling)
    <2>1. PICK p \in Reshape, mode \in Modes, todo \in SUBSET {ri \in RIs : ~Exchanged(ri)} :
            Become(p, [Resting EXCEPT !.pc = "recs", !.mode = mode, !.todo = todo])
      BY <1>6 DEF StartRun
    <2>2. RoleOf(p, [Resting EXCEPT !.pc = "recs", !.mode = mode, !.todo = todo])
      BY <2>1 DEF RoleOf, Resting, Working
    <2> QED
      BY <2>1, <2>2, RolesStay DEF Procs
  <1>7. CASE \E p \in Approvers, r \in Rows : Approve(p, r)
    <2>1. PICK p \in Approvers, r \in Rows : Approve(p, r)
      BY <1>7
    <2>2. RoleOf(p, [Resting EXCEPT !.pc = "check", !.row = r, !.ri = ledger[r].ri,
                                    !.due = ledger[r].due])
      BY ExchangeAssumption DEF RoleOf, Resting, Working, Executors
    <2> QED
      BY <2>1, <2>2, RolesStay DEF Approve, Procs
  <1>8. CASE \E p \in Procs, ri \in RIs : TakeUp(p, ri)
    <2>1. PICK p \in Procs, ri \in RIs : TakeUp(p, ri)
      BY <1>8
    <2> DEFINE rest == proc[p].todo \ {ri}
    <2>2. p \in Reshape /\ proc[p].mode \in Modes /\ At(p, "recs")
      BY <1>2, <2>1 DEF TakeUp, RoleOf, At
    <2>3. CASE proc[p].mode = "manual"
      <3>1. Become(p, [proc[p] EXCEPT !.todo = rest])
        BY <2>1, <2>3 DEF TakeUp
      <3>2. RoleOf(p, [proc[p] EXCEPT !.todo = rest])
        BY <1>2, <2>2 DEF RoleOf, Fields
      <3> QED
        BY <3>1, <3>2, RolesStay
    <2>4. CASE proc[p].mode # "manual"
      <3>1. PICK due : Become(p, [proc[p] EXCEPT !.pc = "check", !.todo = rest,
                                                 !.ri = ri, !.due = due])
        BY <2>1, <2>4 DEF TakeUp
      <3>2. p \in Executors
        BY <2>2, <2>4, ExchangeAssumption DEF Executors
      <3>3. RoleOf(p, [proc[p] EXCEPT !.pc = "check", !.todo = rest, !.ri = ri, !.due = due])
        BY <1>2, <2>2, <3>2 DEF RoleOf, Fields, Working
      <3> QED
        BY <3>1, <3>3, RolesStay
    <2> QED
      BY <2>3, <2>4
  <1>9. CASE \E p \in Procs : Check(p)
    <2>1. PICK p \in Procs : Check(p)
      BY <1>9
    <2>2. p \in Executors /\ ~At(p, "idle")
      BY <1>5, <2>1 DEF Check, At, Working
    <2>3. RoleOf(p, [proc[p] EXCEPT !.pc = "execute", !.cap = Headroom(DailySpend(today))])
      BY <1>2, <2>2 DEF RoleOf, Fields, Working, At
    <2> QED
      BY <2>1, <2>3, RolesStay DEF Check
  <1>10. CASE \E p \in Procs : RefuseOverCap(p) \/ CheckFails(p) \/ ExchangeFails(p)
    BY <1>3, <1>5, <1>10 DEF RefuseOverCap, CheckFails, ExchangeFails, Working, At
  <1>11. CASE \E p \in Procs : Accept(p)
    <2>1. PICK p \in Procs : Accept(p)
      BY <1>11
    <2>2. p \in Executors /\ ~At(p, "idle")
      BY <1>5, <2>1 DEF Accept, At, Working
    <2>3. CASE Goto(p, "fail")
      BY <1>3, <2>2, <2>3 DEF Working
    <2>4. CASE ~Goto(p, "fail")
      <3>1. PICK amount : Become(p, [proc[p] EXCEPT !.pc = "record", !.due = amount])
        BY <2>1, <2>4 DEF Accept
      <3>2. RoleOf(p, [proc[p] EXCEPT !.pc = "record", !.due = amount])
        BY <1>2, <2>2 DEF RoleOf, Fields, Working, At
      <3> QED
        BY <3>1, <3>2, RolesStay
    <2> QED
      BY <2>3, <2>4
  <1>12. CASE \E p \in Procs : \/ EndRun(p) \/ Crash(p) \/ RecordApproved(p) \/ FailApproved(p)
    BY <1>1, <1>12, RolesStay DEF EndRun, Crash, RecordApproved, FailApproved, Rest
  <1>13. CASE \E p \in Procs : RecordAuto(p) \/ FailAuto(p)
    <2>1. PICK p \in Procs : RecordAuto(p) \/ FailAuto(p)
      BY <1>13
    <2>2. p \in Reshape /\ ~At(p, "idle") /\ (NextRec(p) \/ Rest(p))
      BY <2>1 DEF RecordAuto, FailAuto, At
    <2> QED
      BY <1>1, <1>4, <2>2, RolesStay DEF Rest
  <1>14. CASE \/ \E r \in Rows : Reject(r)
              \/ Midnight \/ UNCHANGED vars
    BY <1>14 DEF Reject, Midnight, vars, Roles
  <1> QED
    BY <1>6, <1>7, <1>8, <1>9, <1>10, <1>11, <1>12, <1>13, <1>14 DEF Next, Step

\* A step that completes no row and gives its process a job that fits.
LEMMA SoloQuiet ==
    ASSUME TypeInv, TypeInv', SoloInv, NoneCompleted(ledger, ledger'), UNCHANGED today,
           \/ UNCHANGED proc
           \/ \E p \in Procs : \E job : Become(p, job) /\ Fits(job, ledger, today)
    PROVE  SoloInv'
  <1>1. \A d : Booked(ledger', d) = Booked(ledger, d)
    BY TypedTable, BookedStays DEF TypeInv, TypeOK, Table
  <1>2. \A p \in Procs : Fits(proc'[p], ledger, today)
    BY DEF SoloInv, Become, TypeInv, TypeOK
  <1>3. \A r \in Rows : ledger'[r].status = "completed" => ledger'[r].day <= today
    BY DEF SoloInv, NoneCompleted
  <1> QED
    BY <1>1, <1>2, <1>3 DEF SoloInv, Fits

\* The one executor completes a row with the payment it kept room for.
LEMMA SoloCompletes ==
    ASSUME TypeInv, TypeInv', Roles, SoloInv, OneExecutor, NEW p \in Procs, At(p, "record"),
           NEW r \in Rows, ledger[r].status # "completed", UNCHANGED today,
           ledger'[r].status = "completed", ledger'[r].due = proc[p].due,
           ledger'[r].day = today, \A x \in Rows \ {r} : ledger'[x] = ledger[x],
           NEW job, Become(p, job), job.pc \in {"idle", "recs"}
    PROVE  SoloInv'
  <1>1. \A d : Booked(ledger', d) = Booked(ledger, d) + (IF today = d THEN proc[p].due ELSE 0)
    BY TypedTable, BookedAdds DEF TypeInv, TypeOK, Table
  <1>2. \A d : Booked(ledger, d) \in Nat
    BY TypedTable, DoneFinite
  <1>3. proc[p].due \in Nat /\ DailyCap \in Nat /\ today \in 0..LastDay
    BY JobFields, TypedTable, ExchangeAssumption
  <1>4. proc[p].due + Booked(ledger, today) <= DailyCap
    BY DEF SoloInv, Fits, At
  <1>5. \A d \in 0..LastDay : Booked(ledger', d) <= DailyCap
    BY <1>1, <1>2, <1>3, <1>4 DEF SoloInv
  <1>6. \A q \in Procs : proc'[q].pc \notin {"execute", "record"}
    <2>1. \A q \in Procs : proc[q].pc \in {"execute", "record"} => q = p
      BY DEF Roles, RoleOf, Working, OneExecutor, At
    <2> QED
      BY <2>1 DEF Become, TypeInv, TypeOK
  <1>7. \A x \in Rows : ledger'[x].status = "completed" => ledger'[x].day <= today
    BY <1>3 DEF SoloInv
  <1> QED
    BY <1>5, <1>6, <1>7 DEF SoloInv, Fits

\* Every step keeps the one executor within the cap.
LEMMA NextSolo ==
    TypeInv /\ Inv /\ Roles /\ SoloInv /\ OneExecutor /\ [Next]_vars => SoloInv'
  <1> SUFFICES ASSUME TypeInv, Inv, Roles, SoloInv, OneExecutor, [Next]_vars PROVE SoloInv'
    OBVIOUS
  <1>1. TypeInv'
    BY NextTyped
  <1>2. CASE \E p \in Procs : RecordApproved(p)
    <2>1. PICK p \in Procs : RecordApproved(p)
      BY <1>2
    <2> DEFINE r == proc[p].row
    <2>2. Become(p, Resting) /\ UNCHANGED today /\ Resting.pc = "idle" /\ At(p, "record")
      BY <2>1 DEF RecordApproved, Rest, Resting
    <2>3. CASE UNCHANGED ledger
      BY <1>1, <2>2, <2>3, SoloQuiet DEF NoneCompleted, Fits
    <2>4. CASE ~UNCHANGED ledger
      <3>1. SetRow(r, [ledger[r] EXCEPT !.status = "completed", !.due = proc[p].due,
                                        !.day = today])
        BY <2>1, <2>4 DEF RecordApproved
      <3>2. r \in Rows
        BY <2>4, <3>1 DEF SetRow, TypeInv, TypeOK
      <3>3. ledger[r] \in Row /\ ledger[r].status = "processing"
        BY <3>2, OwnRow
      <3>4. /\ ledger'[r].status = "completed" /\ ledger'[r].due = proc[p].due
            /\ ledger'[r].day = today /\ \A x \in Rows \ {r} : ledger'[x] = ledger[x]
        BY <3>1, <3>2, <3>3 DEF SetRow, TypeInv, TypeOK, Row
      <3> QED
        BY <1>1, <2>2, <3>2, <3>3, <3>4, SoloCompletes
    <2> QED
      BY <2>3, <2>4
  <1>3. CASE \E p \in Procs : RecordAuto(p)
    <2>1. PICK p \in Procs : RecordAuto(p)
      BY <1>3
    <2>2. PICK job : Become(p, job) /\ job.pc \in {"idle", "recs"}
      <3>1. Become(p, Resting) \/ NextRec(p)
        BY <2>1 DEF RecordAuto, Rest
      <3>2. Resting.pc = "idle"
        BY DEF Resting
      <3>3. [Resting EXCEPT !.pc = "recs", !.mode = proc[p].mode,
                            !.todo = proc[p].todo].pc = "recs"
        BY DEF Resting
      <3> QED
        BY <3>1, <3>2, <3>3 DEF NextRec
    <2>3. At(p, "record") /\ UNCHANGED today
      BY <2>1 DEF RecordAuto
    <2>4. CASE UNCHANGED ledger
      BY <1>1, <2>2, <2>3, <2>4, SoloQuiet DEF NoneCompleted, Fits
    <2>5. CASE ~UNCHANGED ledger
      <3>1. PICK r \in Rows : InsertRow(r, "completed", proc[p].ri, proc[p].due)
        BY <2>1, <2>5 DEF RecordAuto
      <3>2. /\ ledger'[r].status = "completed" /\ ledger'[r].due = proc[p].due
            /\ ledger'[r].day = today /\ \A x \in Rows \ {r} : ledger'[x] = ledger[x]
            /\ ledger[r].status # "completed"
        BY <3>1 DEF InsertRow, SetRow, TypeInv, TypeOK
      <3> QED
        BY <1>1, <2>2, <2>3, <3>2, SoloCompletes
    <2> QED
      BY <2>4, <2>5
  <1>4. CASE \A p \in Procs : ~RecordApproved(p) /\ ~RecordAuto(p)
    <2>1. NoneCompleted(ledger, ledger')
      BY <1>4, OthersCompleteNone
    <2>2. ASSUME UNCHANGED today, NEW p \in Procs, NEW job, Become(p, job),
                 Fits(job, ledger, today)
          PROVE  SoloInv'
      BY <1>1, <2>1, <2>2, SoloQuiet
    <2>3. ASSUME UNCHANGED today, NEW p \in Procs, NEW job, Become(p, job),
                 job.pc \in {"idle", "recs", "check", "fail"}
          PROVE  SoloInv'
      BY <2>2, <2>3 DEF Fits
    <2>4. ASSUME UNCHANGED today, NEW p \in Procs, Goto(p, "fail")
          PROVE  SoloInv'
      <3> DEFINE job == [proc[p] EXCEPT !.pc = "fail"]
      <3>1. Become(p, job) /\ job.pc = "fail"
        BY <2>4, JobFields DEF Goto, Become, Proc
      <3> QED
        BY <2>3, <2>4, <3>1
    <2>5. CASE \E p \in Reshape, canceling \in BOOLEAN : StartRun(p, canceling)
      BY <2>3, <2>5 DEF StartRun, Procs, Resting
    <2>6. CASE \E p \in Approvers, r \in Rows : Approve(p, r)
      BY <2>3, <2>6 DEF Approve, Procs, Resting
    <2>7. CASE \E p \in Procs, ri \in RIs : TakeUp(p, ri)
      <3>1. PICK p \in Procs, ri \in RIs : TakeUp(p, ri)
        BY <2>7
      <3>2. PICK due : \/ Become(p, [proc[p] EXCEPT !.todo = proc[p].todo \ {ri}])
                       \/ Become(p, [proc[p] EXCEPT !.pc = "check", !.ri = ri, !.due = due,
                                                    !.todo = proc[p].todo \ {ri}])
        BY <3>1 DEF TakeUp
      <3>3. /\ [proc[p] EXCEPT !.todo = proc[p].todo \ {ri}].pc = "recs"
            /\ [proc[p] EXCEPT !.pc = "check", !.ri = ri, !.due = due,
                               !.todo = proc[p].todo \ {ri}].pc = "check"
        BY <3>1, JobFields DEF TakeUp, At, Proc
      <3> QED
        BY <2>3, <3>1, <3>2, <3>3 DEF TakeUp
    <2>8. CASE \E p \in Procs : Check(p)
      <3>1. PICK p \in Procs : Check(p)
        BY <2>8
      <3> DEFINE spent == DailySpend(today)
                 job == [proc[p] EXCEPT !.pc = "execute", !.cap = Headroom(spent)]
      <3>2. /\ Headroom(spent) \in Nat /\ Headroom(spent) + spent <= DailyCap
            /\ spent \in Nat /\ Booked(ledger, today) <= spent
            /\ Booked(ledger, today) \in Nat
        BY <3>1, HeadroomIs, SpendIs, BookedWithinSpend, TypedTable, DoneFinite DEF Check
      <3>3. Become(p, job) /\ job.pc = "execute" /\ job.cap = Headroom(spent) /\ UNCHANGED today
        BY <3>1, JobFields DEF Check, Proc
      <3>4. Headroom(spent) + Booked(ledger, today) <= DailyCap
        <4> HIDE DEF spent
        <4> QED
          BY <3>2, ExchangeAssumption
      <3>5. Fits(job, ledger, today)
        BY <3>3, <3>4 DEF Fits
      <3> QED
        BY <2>2, <3>3, <3>5
    <2>9. CASE \E p \in Procs : Accept(p)
      <3>1. PICK p \in Procs : Accept(p)
        BY <2>9
      <3>2. PICK amount \in Requotes(proc[p].due) :
              /\ amount <= proc[p].cap
              /\ \/ Become(p, [proc[p] EXCEPT !.pc = "record", !.due = amount])
                 \/ Goto(p, "fail")
        BY <3>1 DEF Accept
      <3> DEFINE job == [proc[p] EXCEPT !.pc = "record", !.due = amount]
      <3>3. amount \in Nat /\ proc[p].cap \in Nat /\ Booked(ledger, today) \in Nat
        BY JobFields, TypedTable, DoneFinite, ExchangeAssumption DEF Requotes
      <3>4. proc[p].cap + Booked(ledger, today) <= DailyCap
        BY <3>1 DEF SoloInv, Fits, Accept, At
      <3>5. amount + Booked(ledger, today) <= DailyCap
        BY <3>2, <3>3, <3>4, ExchangeAssumption
      <3>6. job.pc = "record" /\ job.due = amount
        BY JobFields DEF Proc
      <3>7. Fits(job, ledger, today)
        BY <3>5, <3>6 DEF Fits
      <3> QED
        BY <2>2, <2>4, <3>1, <3>2, <3>7 DEF Accept
    <2>10. CASE \E p \in Procs : RefuseOverCap(p) \/ CheckFails(p) \/ ExchangeFails(p)
      BY <2>4, <2>10 DEF RefuseOverCap, CheckFails, ExchangeFails
    <2>11. CASE \E p \in Procs : EndRun(p) \/ Crash(p) \/ FailApproved(p) \/ FailAuto(p)
      BY <2>3, <2>11 DEF EndRun, Crash, FailApproved, FailAuto, Rest, NextRec, Resting
    <2>12. CASE (\E r \in Rows : Reject(r)) \/ UNCHANGED vars
      BY <1>1, <2>1, <2>12, SoloQuiet DEF Reject, vars
    <2>13. CASE Midnight
      <3>1. Booked(ledger, today + 1) = 0
        BY TypedTable, NothingBooked DEF SoloInv, TypeInv, TypeOK, Row
      <3>2. \A p \in Procs : Fits(proc[p], ledger, today + 1)
        <4> SUFFICES ASSUME NEW p \in Procs PROVE Fits(proc[p], ledger, today + 1)
          OBVIOUS
        <4>1. /\ Fits(proc[p], ledger, today) /\ proc[p].cap \in Nat /\ proc[p].due \in Nat
              /\ Booked(ledger, today) \in Nat /\ DailyCap \in Nat
          BY JobFields, TypedTable, DoneFinite, ExchangeAssumption DEF SoloInv
        <4> QED
          BY <3>1, <4>1 DEF Fits
      <3>3. \A r \in Rows : ledger[r].status = "completed" => ledger[r].day <= today + 1
        BY DEF SoloInv, TypeInv, TypeOK, Row
      <3> QED
        BY <2>13, <3>2, <3>3 DEF Midnight, SoloInv
    <2> QED
      BY <1>4, <2>5, <2>6, <2>7, <2>8, <2>9, <2>10, <2>11, <2>12, <2>13 DEF Next, Step
  <1> QED
    BY <1>2, <1>3, <1>4

-----------------------------------------------------------------------------
(* Several approvers, at prices as they were quoted and within a day: each  *)
(* holds a row, and the rows held are counted by whoever checks after them. *)

SteadyDay == ~Drift /\ LastDay = 0 /\ "auto" \notin Modes

\* The rows that are completed, or about to be with what they were quoted.
Held(rs, ps) ==
    {r \in Rows : \/ rs[r].status = "completed"
                  \/ \E p \in Procs : ps[p].row = r /\ ps[p].pc \in {"execute", "record"}}

SteadyInv ==
    /\ \A p \in Procs : proc[p].pc \in {"check", "execute", "record"} =>
          /\ proc[p].row \in Rows
          /\ proc[p].due = ledger[proc[p].row].due
    /\ Total(Costs(ledger), Held(ledger, proc)) <= DailyCap

LEMMA InitSteady == Init => SteadyInv
  <1> SUFFICES ASSUME Init PROVE SteadyInv
    OBVIOUS
  <1>1. Held(ledger, proc) = {}
    BY DEF Init, Held, NoRow, Resting
  <1>2. Total(Costs(ledger), {}) = 0
    BY FS_EmptySet, TotalStep
  <1>3. \A p \in Procs : proc[p].pc = "idle"
    BY DEF Init, Resting
  <1> QED
    BY <1>1, <1>2, <1>3, ExchangeAssumption DEF SteadyInv

\* The rows held are written, and those that are not completed are processing.
LEMMA HeldWritten ==
    ASSUME TypeInv, Inv
    PROVE  \A r \in Held(ledger, proc) : ledger[r].status \in Spending
  BY ExchangeAssumption DEF Held, Inv, RowOwned, Spending

\* A row that is there keeps its price when no re-quote differs.
PricesStay == \A r \in Rows : ledger[r].status # "absent" => ledger'[r].due = ledger[r].due

LEMMA NextPrices ==
    ASSUME TypeInv, Inv, SteadyInv, [Next]_vars
    PROVE  PricesStay
  <1>1. CASE UNCHANGED ledger
    BY <1>1 DEF PricesStay
  <1>2. CASE CancelPending
    BY <1>2 DEF CancelPending, PricesStay, TypeInv, TypeOK, Row
  <1>3. CASE \E r \in Rows : \E status, ri, due : InsertRow(r, status, ri, due)
    BY <1>3 DEF InsertRow, SetRow, PricesStay, TypeInv, TypeOK
  <1>4. CASE \E p \in Approvers, r \in Rows : Approve(p, r)
    BY <1>4 DEF Approve, SetRow, PricesStay, TypeInv, TypeOK, Row
  <1>5. CASE \E r \in Rows : Reject(r)
    BY <1>5 DEF Reject, SetRow, PricesStay, TypeInv, TypeOK, Row
  <1>6. CASE \E p \in Procs : FailApproved(p)
    <2>1. PICK p \in Procs : FailApproved(p)
      BY <1>6
    <2>2. CASE proc[p].row \in Rows
      <3> DEFINE r == proc[p].row
      <3>1. ledger \in [Rows -> Row] /\ ledger[r] \in Row
        BY <2>2 DEF TypeInv, TypeOK
      <3>2. UNCHANGED ledger \/ SetRow(r, [ledger[r] EXCEPT !.status = "failed", !.day = today])
        BY <2>1 DEF FailApproved
      <3> HIDE DEF r
      <3> QED
        BY <1>1, <3>1, <3>2 DEF SetRow, PricesStay, Row
    <2>3. CASE proc[p].row \notin Rows
      BY <1>1, <2>1, <2>3 DEF FailApproved, SetRow, PricesStay, TypeInv, TypeOK
    <2> QED
      BY <2>2, <2>3
  <1>7. CASE \E p \in Procs : RecordApproved(p)
    BY <1>1, <1>7 DEF RecordApproved, SetRow, PricesStay, SteadyInv, At, TypeInv, TypeOK, Row
  <1> QED
    <2>1. CASE \E p \in Reshape, canceling \in BOOLEAN : StartRun(p, canceling)
      BY <1>1, <1>2, <2>1 DEF StartRun
    <2>2. CASE \E p \in Procs, ri \in RIs : TakeUp(p, ri)
      BY <1>1, <1>3, <2>2 DEF TakeUp
    <2>3. CASE \E p \in Procs : RecordAuto(p) \/ FailAuto(p)
      BY <1>1, <1>3, <2>3 DEF RecordAuto, FailAuto
    <2>4. CASE \E p \in Procs : \/ EndRun(p) \/ Check(p) \/ RefuseOverCap(p) \/ CheckFails(p)
                                \/ Accept(p) \/ ExchangeFails(p) \/ Crash(p)
      BY <1>1, <2>4 DEF EndRun, Check, RefuseOverCap, CheckFails, Accept, ExchangeFails, Crash
    <2>5. CASE Midnight \/ UNCHANGED vars
      BY <1>1, <2>5 DEF Midnight, vars
    <2> QED
      BY <1>4, <1>5, <1>6, <1>7, <2>1, <2>2, <2>3, <2>4, <2>5 DEF Next, Step

\* Rows that are written cost naturals, and what fewer of them cost is no more.
LEMMA FewerCostLess ==
    ASSUME TypeInv, TypeInv', PricesStay, NEW T \in SUBSET Written(ledger), NEW S \in SUBSET T
    PROVE  Total(Costs(ledger'), S) <= Total(Costs(ledger), T)
  <1>1. IsFiniteSet(T) /\ T \in SUBSET Rows /\ \A r \in T : Costs(ledger)[r] \in Nat
    BY DayFinite
  <1>2. \A r \in T : Costs(ledger')[r] = Costs(ledger)[r]
    BY DEF PricesStay, Costs, Written
  <1>3. \A r \in T : Costs(ledger')[r] \in Nat /\ Costs(ledger)[r] \in Nat
    BY <1>1, <1>2
  <1>4. \A r \in S : Costs(ledger')[r] <= Costs(ledger)[r]
    BY <1>1, <1>2
  <1> QED
    BY <1>1, <1>3, <1>4, TotalMono

\* A step after which no more rows are held than before.
LEMMA SteadyQuiet ==
    ASSUME TypeInv, TypeInv', Inv, SteadyInv, PricesStay,
           Held(ledger', proc') \subseteq Held(ledger, proc)
    PROVE  Total(Costs(ledger'), Held(ledger', proc')) <= DailyCap
  <1> DEFINE S == Held(ledger', proc')
             T == Held(ledger, proc)
  <1>1. T \in SUBSET Written(ledger) /\ S \in SUBSET T
    BY HeldWritten DEF Held, Written, Spending
  <1>2. Total(Costs(ledger'), S) <= Total(Costs(ledger), T)
    <2> HIDE DEF S, T
    <2> QED
      BY <1>1, FewerCostLess
  <1>3. \A r \in S : Costs(ledger')[r] \in Nat
    <2>1. S \subseteq Rows
      BY DEF Held
    <2>2. \A r \in Rows : ledger'[r].due \in Nat
      BY DEF TypeInv, TypeOK, Row
    <2> QED
      BY <2>1, <2>2 DEF Costs
  <1>4. IsFiniteSet(T) /\ \A r \in T : Costs(ledger)[r] \in Nat
    <2> HIDE DEF T
    <2> QED
      BY <1>1, DayFinite
  <1>5. Total(Costs(ledger'), S) \in Nat /\ Total(Costs(ledger), T) \in Nat
    <2> HIDE DEF S, T
    <2>1. IsFiniteSet(S)
      BY <1>1, <1>4, FS_Subset
    <2> QED
      BY <1>3, <1>4, <2>1, TotalStep
  <1>6. Total(Costs(ledger), T) <= DailyCap /\ DailyCap \in Nat
    BY ExchangeAssumption DEF SteadyInv
  <1> HIDE DEF S, T
  <1> QED
    BY <1>2, <1>5, <1>6 DEF S

\* A check counts every row held, and the row of the process that makes it.
LEMMA SteadyCheck ==
    ASSUME SteadyDay, TypeInv, Inv, SteadyInv, NEW p \in Procs, Check(p)
    PROVE  Total(Costs(ledger'), Held(ledger', proc')) <= DailyCap
  <1> DEFINE S == Held(ledger', proc')
             T == SpentOn(ledger, today)
  <1>1. UNCHANGED ledger /\ proc[p].row \in Rows /\ WithinCap(proc[p].due, DailySpend(today))
    BY DEF Check, SteadyInv, At
  <1>2. \A q \in Procs : /\ proc'[q].row = proc[q].row
                         /\ q # p => proc'[q] = proc[q]
    BY JobFields DEF Check, Become, TypeInv, TypeOK, Proc
  <1>3. S \subseteq Held(ledger, proc) \cup {proc[p].row}
    BY <1>1, <1>2 DEF Held
  <1>4. ledger[proc[p].row].status \in Spending
    BY <1>1, OwnRow DEF Spending
  <1>5. \A r \in Rows : ledger[r].day = today
    BY DEF SteadyDay, TypeInv, TypeOK, Row
  <1>6. S \subseteq T
    BY <1>1, <1>3, <1>4, <1>5, HeldWritten DEF SpentOn, Held
  <1>7. T \in SUBSET Written(ledger)
    BY DEF SpentOn, Written, Spending
  <1>8. IsFiniteSet(T) /\ \A r \in T : Costs(ledger)[r] \in Nat
    <2> HIDE DEF T
    <2> QED
      BY <1>7, DayFinite
  <1>9. Total(Costs(ledger), S) <= Total(Costs(ledger), T)
    <2> HIDE DEF S, T
    <2>1. \A r \in S : Costs(ledger)[r] <= Costs(ledger)[r]
      BY <1>6, <1>8
    <2> QED
      BY <1>6, <1>8, <2>1, TotalMono
  <1>10. Total(Costs(ledger), S) \in Nat
    <2> HIDE DEF S, T
    <2> QED
      BY <1>6, <1>8, FS_Subset, TotalStep
  <1>11. Total(Costs(ledger), T) = DailySpend(today) /\ DailySpend(today) \in Nat
         /\ proc[p].due \in Nat /\ DailyCap \in Nat
    BY SpendIs, JobFields, ExchangeAssumption
  <1> HIDE DEF S, T
  <1>12. Total(Costs(ledger), S) <= DailyCap
    BY <1>1, <1>9, <1>10, <1>11 DEF WithinCap
  <1>13. Costs(ledger') = Costs(ledger)
    BY <1>1 DEF Costs
  <1> QED
    BY <1>12, <1>13 DEF S

Busy == {"check", "execute", "record"}

\* What a job that is still to be paid or recorded has in hand.
Quoted(job) ==
    job.pc \in Busy =>
        /\ job.row \in Rows /\ ledger[job.row].status # "absent"
        /\ job.due = ledger[job.row].due

QuotedAll == \A p \in Procs : proc[p].pc \in Busy =>
                proc[p].row \in Rows /\ proc[p].due = ledger[proc[p].row].due

\* A job that goes on being paid goes on with the row it held.
HoldsNoMore(p, job) ==
    job.pc \in {"execute", "record"} =>
        proc[p].pc \in {"execute", "record"} /\ job.row = proc[p].row

\* A job in hand is for a row that is there, at its price.
LEMMA JobQuoted == TypeInv /\ Inv /\ SteadyInv => \A p \in Procs : Quoted(proc[p])
  BY OwnRow DEF SteadyInv, Quoted, Busy

LEMMA QuotesStay ==
    ASSUME TypeInv, Inv, SteadyInv, PricesStay, NEW p \in Procs, NEW job, Become(p, job),
           Quoted(job)
    PROVE  QuotedAll'
  <1>1. \A q \in Procs : Quoted(proc'[q])
    BY JobQuoted DEF Become, TypeInv, TypeOK
  <1> QED
    BY <1>1 DEF QuotedAll, Quoted, PricesStay

\* A step that completes no row but the one in hand and starts no payment.
LEMMA SteadyMove ==
    ASSUME TypeInv, TypeInv', Inv, SteadyInv, PricesStay, NEW p \in Procs, NEW job,
           Become(p, job), Quoted(job), HoldsNoMore(p, job),
           \A r \in Rows : ledger'[r].status = "completed" => r \in Held(ledger, proc)
    PROVE  SteadyInv'
  <1>1. QuotedAll'
    BY QuotesStay
  <1>2. Held(ledger', proc') \subseteq Held(ledger, proc)
    BY DEF Held, Become, HoldsNoMore, TypeInv, TypeOK
  <1>3. Total(Costs(ledger'), Held(ledger', proc')) <= DailyCap
    BY <1>2, SteadyQuiet
  <1> QED
    BY <1>1, <1>3 DEF SteadyInv, QuotedAll, Busy

\* Every step keeps what the approvers hold together within the cap.
LEMMA NextSteady ==
    SteadyDay /\ TypeInv /\ Inv /\ Roles /\ SteadyInv /\ [Next]_vars => SteadyInv'
  <1> SUFFICES ASSUME SteadyDay, TypeInv, Inv, Roles, SteadyInv, [Next]_vars PROVE SteadyInv'
    OBVIOUS
  <1>1. TypeInv' /\ PricesStay
    BY NextTyped, NextPrices
  <1>2. \A p \in Procs : proc[p].pc \in Working => p \in Approvers /\ p \notin Reshape
    BY ExchangeAssumption DEF Roles, RoleOf, Executors, SteadyDay
  <1>3. \A p \in Procs : ~RecordAuto(p)
    BY <1>2 DEF RecordAuto, At, Working
  <1>4. CASE \E p \in Procs : RecordApproved(p)
    <2>1. PICK p \in Procs : RecordApproved(p)
      BY <1>4
    <2>2. Become(p, Resting) /\ Quoted(Resting) /\ HoldsNoMore(p, Resting)
      BY <2>1 DEF RecordApproved, Rest, Resting, Quoted, HoldsNoMore, Busy
    <2>3. proc[p].row \in Rows => proc[p].row \in Held(ledger, proc)
      BY <2>1 DEF RecordApproved, At, Held
    <2>4. \A r \in Rows : ledger'[r] = ledger[r] \/ r = proc[p].row
      BY <2>1 DEF RecordApproved, SetRow, TypeInv, TypeOK
    <2>5. \A r \in Rows : ledger'[r].status = "completed" => r \in Held(ledger, proc)
      BY <2>3, <2>4 DEF Held
    <2> QED
      BY <1>1, <2>2, <2>5, SteadyMove
  <1>5. CASE \A p \in Procs : ~RecordApproved(p)
    <2>1. NoneCompleted(ledger, ledger')
      BY <1>3, <1>5, OthersCompleteNone
    <2>2. \A r \in Rows : ledger'[r].status = "completed" => r \in Held(ledger, proc)
      BY <2>1 DEF NoneCompleted, Held
    <2>3. ASSUME NEW p \in Procs, NEW job, Become(p, job), Quoted(job), HoldsNoMore(p, job)
          PROVE  SteadyInv'
      BY <1>1, <2>2, <2>3, SteadyMove
    <2>4. ASSUME NEW p \in Procs, NEW job, Become(p, job), job.pc \in {"idle", "recs", "fail"}
          PROVE  SteadyInv'
      BY <2>3, <2>4 DEF Quoted, HoldsNoMore, Busy
    <2>5. ASSUME NEW p \in Procs, Goto(p, "fail") PROVE SteadyInv'
      <3> DEFINE job == [proc[p] EXCEPT !.pc = "fail"]
      <3>1. Become(p, job) /\ job.pc = "fail"
        BY <2>5, JobFields DEF Goto, Become, Proc
      <3> QED
        BY <2>4, <3>1
    <2>6. CASE \E p \in Reshape, canceling \in BOOLEAN : StartRun(p, canceling)
      BY <2>4, <2>6 DEF StartRun, Procs, Resting
    <2>7. CASE \E p \in Approvers, r \in Rows : Approve(p, r)
      <3>1. PICK p \in Approvers, r \in Rows : Approve(p, r)
        BY <2>7
      <3> DEFINE job == [Resting EXCEPT !.pc = "check", !.row = r, !.ri = ledger[r].ri,
                                        !.due = ledger[r].due]
      <3>2. job.pc = "check" /\ job.row = r /\ job.due = ledger[r].due
        BY DEF Resting
      <3>3. Become(p, job) /\ ledger[r].status # "absent"
        BY <3>1 DEF Approve, CanLeavePending
      <3> HIDE DEF job
      <3> QED
        BY <2>3, <3>2, <3>3 DEF Quoted, HoldsNoMore, Procs
    <2>8. CASE \E p \in Procs, ri \in RIs : TakeUp(p, ri)
      <3>1. PICK p \in Procs, ri \in RIs : TakeUp(p, ri)
        BY <2>8
      <3>2. proc[p].mode = "manual"
        BY <3>1, ExchangeAssumption DEF TakeUp, At, Roles, RoleOf, SteadyDay
      <3>3. Become(p, [proc[p] EXCEPT !.todo = proc[p].todo \ {ri}])
        BY <3>1, <3>2 DEF TakeUp
      <3>4. [proc[p] EXCEPT !.todo = proc[p].todo \ {ri}].pc = "recs"
        BY <3>1, JobFields DEF TakeUp, At, Proc
      <3> QED
        BY <2>4, <3>3, <3>4
    <2>9. CASE \E p \in Procs : Check(p)
      <3>1. PICK p \in Procs : Check(p)
        BY <2>9
      <3> DEFINE job == [proc[p] EXCEPT !.pc = "execute", !.cap = Headroom(DailySpend(today))]
      <3>2. Become(p, job) /\ job.row = proc[p].row /\ job.due = proc[p].due
            /\ proc[p].pc \in Busy
        BY <3>1, JobFields DEF Check, At, Proc, Busy
      <3> HIDE DEF job
      <3>3. Quoted(job)
        BY <3>2, JobQuoted DEF Quoted
      <3>4. QuotedAll'
        BY <1>1, <3>2, <3>3, QuotesStay
      <3>5. Total(Costs(ledger'), Held(ledger', proc')) <= DailyCap
        BY <3>1, SteadyCheck
      <3> QED
        BY <3>4, <3>5 DEF SteadyInv, QuotedAll, Busy
    <2>10. CASE \E p \in Procs : Accept(p)
      <3>1. PICK p \in Procs : Accept(p)
        BY <2>10
      <3>2. PICK amount \in Requotes(proc[p].due) :
              \/ Become(p, [proc[p] EXCEPT !.pc = "record", !.due = amount])
              \/ Goto(p, "fail")
        BY <3>1 DEF Accept
      <3>3. amount = proc[p].due
        BY DEF Requotes, SteadyDay
      <3> DEFINE job == [proc[p] EXCEPT !.pc = "record", !.due = amount]
      <3>4. job.row = proc[p].row /\ job.due = proc[p].due /\ At(p, "execute")
        BY <3>1, <3>3, JobFields DEF Accept, Proc
      <3> HIDE DEF job
      <3>5. Quoted(job) /\ HoldsNoMore(p, job)
        BY <3>4, JobQuoted DEF Quoted, HoldsNoMore, Busy, At
      <3> QED
        BY <2>3, <2>5, <3>2, <3>5 DEF job
    <2>11. CASE \E p \in Procs : RefuseOverCap(p) \/ CheckFails(p) \/ ExchangeFails(p)
      BY <2>5, <2>11 DEF RefuseOverCap, CheckFails, ExchangeFails
    <2>12. CASE \E p \in Procs : EndRun(p) \/ Crash(p) \/ FailApproved(p) \/ FailAuto(p)
      BY <2>4, <2>12 DEF EndRun, Crash, FailApproved, FailAuto, Rest, NextRec, Resting
    <2>13. CASE (\E r \in Rows : Reject(r)) \/ Midnight \/ UNCHANGED vars
      <3>1. UNCHANGED proc
        BY <2>13 DEF Reject, Midnight, vars
      <3>2. QuotedAll'
        BY <1>1, <3>1, JobQuoted DEF QuotedAll, Quoted, PricesStay
      <3>3. Held(ledger', proc') \subseteq Held(ledger, proc)
        BY <2>2, <3>1 DEF Held
      <3>4. Total(Costs(ledger'), Held(ledger', proc')) <= DailyCap
        BY <1>1, <3>3, SteadyQuiet
      <3> QED
        BY <3>2, <3>4 DEF SteadyInv, QuotedAll, Busy
    <2> QED
      BY <1>3, <1>5, <2>6, <2>7, <2>8, <2>9, <2>10, <2>11, <2>12, <2>13 DEF Next, Step
  <1> QED
    BY <1>4, <1>5

\* What is held covers what is booked.
LEMMA HeldCoversBooked ==
    ASSUME TypeInv, Inv, SteadyInv, NEW d
    PROVE  Booked(ledger, d) <= DailyCap
  <1> DEFINE S == DoneOn(ledger, d)
             T == Held(ledger, proc)
  <1>1. S \subseteq T /\ T \in SUBSET Written(ledger)
    BY HeldWritten DEF DoneOn, Held, Written, Spending
  <1>2. IsFiniteSet(T) /\ \A r \in T : Costs(ledger)[r] \in Nat
    <2> HIDE DEF T
    <2> QED
      BY <1>1, DayFinite
  <1>3. \A r \in S : Costs(ledger)[r] <= Costs(ledger)[r]
    <2> HIDE DEF S, T
    <2> QED
      BY <1>1, <1>2
  <1>4. Total(Costs(ledger), S) <= Total(Costs(ledger), T) /\ Total(Costs(ledger), T) \in Nat
    <2> HIDE DEF S, T
    <2> QED
      BY <1>1, <1>2, <1>3, TotalMono, TotalStep
  <1>5. Total(Costs(ledger), S) \in Nat
    BY TypedTable, DoneFinite DEF Booked
  <1> HIDE DEF S, T
  <1> QED
    BY <1>4, <1>5, ExchangeAssumption DEF SteadyInv, Booked, S, T

-----------------------------------------------------------------------------
(* The cap.                                                                 *)

\* The payments the ledger books for a day stay within the daily cap: of one
\* executor whatever AWS re-quotes, whatever replies and writes are lost and
\* whoever dies (checkDailyCap, chooseEffectiveCap), and of any number of
\* approvers within a day while prices stay as quoted (handlerChooseEffectiveCap,
\* GetRIExchangeDailySpend, which counts the rows others have claimed).
THEOREM LedgerCapKept ==
    ASSUME OneExecutor \/ SteadyDay
    PROVE  Spec => []LedgerWithinCap
  <1> DEFINE Base == TypeInv /\ Inv /\ Roles
  <1>1. Init => Base
    BY InitTyped, InitInv, InitSolo
  <1>2. Base /\ [Next]_vars => Base'
    BY NextTyped, NextInv, NextRoles
  <1>3. CASE OneExecutor
    <2>1. Init => SoloInv
      BY InitSolo
    <2>2. Base /\ SoloInv /\ [Next]_vars => SoloInv'
      BY <1>3, NextSolo
    <2>3. Base /\ SoloInv => LedgerWithinCap
      BY CapOfBooked DEF SoloInv
    <2> HIDE DEF Base
    <2> QED
      BY <1>1, <1>2, <2>1, <2>2, <2>3, PTL DEF Spec
  <1>4. CASE SteadyDay
    <2>1. Init => SteadyInv
      BY InitSteady
    <2>2. Base /\ SteadyInv /\ [Next]_vars => SteadyInv'
      BY <1>4, NextSteady
    <2>3. Base /\ SteadyInv => LedgerWithinCap
      BY HeldCoversBooked, CapOfBooked
    <2> HIDE DEF Base
    <2> QED
      BY <1>1, <1>2, <2>1, <2>2, <2>3, PTL DEF Spec
  <1> QED
    BY <1>3, <1>4
=============================================================================

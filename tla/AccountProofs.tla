------------------------------ MODULE AccountProofs ------------------------------
(* Who may act on what, proved for every number of users, reviews and refreshes: *)
(* the administrators of Users, the reviews of Registrations, the marker of       *)
(* Collection, the two people of Approvals, the usage counts of ApiUsage, and the *)
(* identities of AccountCredentials.                                              *)
EXTENDS Users, Registrations, Collection, Approvals, ApiUsage, AccountCredentials,
        FiniteSetTheorems, TLAPS

-----------------------------------------------------------------------------
(* Users: the first administrator, and the last one.                            *)

UsrTable == usrRow = [u \in UsrIds |-> usrRow[u]]
UsrInv ==
    /\ UsrTable
    /\ usrSetups = 0 \/ (usrSetups = 1 /\ AdminExists(usrRow))

\* The write of one row, which the trigger refuses when it would leave no
\* administrator.
LEMMA UsrCommitKeeps ==
    ASSUME UsrTable, NEW u, NEW new, UsrCommit(u, new)
    PROVE  UsrTable' /\ (AdminExists(usrRow) => AdminExists(usrRow'))
<1> DEFINE row == [usrRow EXCEPT ![u] = new]
<1>1. usrRow' = usrRow \/ usrRow' = row
  BY DEF UsrCommit
<1>2. UsrTable'
  BY <1>1 DEF UsrTable
<1>3. CASE usrRow' = usrRow
  BY <1>2, <1>3
<1>4. CASE usrRow' = row /\ usrRow[u] # UsrAbsent /\ AdminExists(row)
  BY <1>2, <1>4
<1>5. CASE usrRow' = row /\ usrRow[u] # UsrAbsent /\ ~TriggerFires(usrRow[u], new)
  <2> SUFFICES ASSUME AdminExists(usrRow) PROVE AdminExists(usrRow')
    BY <1>2
  <2>1. PICK w \in UsrIds : usrRow[w] # UsrAbsent /\ usrRow[w].admin /\ usrRow[w].active
    BY DEF AdminExists
  <2>2. CASE w # u
    <3>1. usrRow'[w] = usrRow[w]
      BY <1>5, <2>1, <2>2 DEF UsrTable
    <3>2. QED
      BY <2>1, <3>1 DEF AdminExists
  <2>3. CASE w = u
    <3>1. usrRow'[w] = new
      BY <1>5, <2>1, <2>3 DEF UsrTable
    <3>2. new # UsrAbsent /\ new.admin /\ new.active
      BY <1>5, <2>1, <2>3 DEF TriggerFires
    <3>3. QED
      BY <2>1, <3>1, <3>2 DEF AdminExists
  <2>4. QED
    BY <2>2, <2>3
<1>6. QED
  BY <1>1, <1>3, <1>4, <1>5 DEF UsrCommit

\* A row that was not there.
LEMMA UsrInsertKeeps ==
    ASSUME UsrTable, NEW u \in UsrIds, NEW new, usrRow[u] = UsrAbsent,
           usrRow' = [usrRow EXCEPT ![u] = new]
    PROVE  /\ UsrTable' /\ (AdminExists(usrRow) => AdminExists(usrRow'))
           /\ usrRow'[u] = new
<1>1. UsrTable' /\ usrRow'[u] = new /\ \A w \in UsrIds \ {u} : usrRow'[w] = usrRow[w]
  BY DEF UsrTable
<1>2. QED
  BY <1>1 DEF AdminExists

\* Every step keeps the administrators and counts the first one.
LEMMA UsrStep ==
    ASSUME UsrInv, [UsrNext]_usrVars
    PROVE  UsrInv' /\ (AdminExists(usrRow) => AdminExists(usrRow'))
<1>1. CASE UNCHANGED <<usrRow, usrSetups>>
  BY <1>1 DEF UsrInv, UsrTable
<1>2. ASSUME NEW c \in UsrCallers, NEW u \in UsrIds, UsrSetup(c, u)
      PROVE  UsrInv' /\ (AdminExists(usrRow) => AdminExists(usrRow'))
  <2>1. CASE AdminExists(usrRow)
    <3>1. UNCHANGED <<usrRow, usrSetups>>
      BY <1>2, <2>1 DEF UsrSetup, CreateAdminIfNone
    <3>2. QED
      BY <1>1, <3>1
  <2>2. CASE ~AdminExists(usrRow)
    <3> DEFINE new == [admin |-> TRUE, active |-> TRUE]
    <3>1. usrRow[u] = UsrAbsent /\ usrRow' = [usrRow EXCEPT ![u] = new] /\ usrSetups' = usrSetups + 1
      BY <1>2, <2>2 DEF UsrSetup, CreateAdminIfNone
    <3>2. new # UsrAbsent /\ new.admin /\ new.active
      <4>1. new \in UsrRows
        BY DEF UsrRows
      <4>2. new.admin /\ new.active
        OBVIOUS
      <4>3. QED
        BY <4>1, <4>2, UsrAssumption
    <3> HIDE DEF new
    <3>3. UsrTable' /\ usrRow'[u] = new
      BY <3>1, UsrInsertKeeps DEF UsrInv
    <3>4. AdminExists(usrRow')
      BY <3>2, <3>3 DEF AdminExists
    <3>5. usrSetups = 0
      BY <2>2 DEF UsrInv
    <3>6. QED
      BY <2>2, <3>1, <3>3, <3>4, <3>5 DEF UsrInv
  <2>3. QED
    BY <2>1, <2>2
<1>3. ASSUME NEW u \in UsrIds, UsrCreate(u)
      PROVE  UsrInv' /\ (AdminExists(usrRow) => AdminExists(usrRow'))
  <2>1. PICK new : usrRow' = [usrRow EXCEPT ![u] = new]
    BY <1>3 DEF UsrCreate
  <2>2. usrRow[u] = UsrAbsent /\ usrSetups' = usrSetups
    BY <1>3 DEF UsrCreate
  <2>3. QED
    BY <2>1, <2>2, UsrInsertKeeps DEF UsrInv
<1>4. ASSUME NEW c \in UsrCallers, UsrWrite(c) \/ UsrErase(c)
      PROVE  UsrInv' /\ (AdminExists(usrRow) => AdminExists(usrRow'))
  <2>1. PICK new : UsrCommit(usrOp[c].user, new)
    BY <1>4 DEF UsrWrite, UsrErase
  <2>2. PICK u : u = usrOp[c].user
    OBVIOUS
  <2>3. UsrCommit(u, new)
    BY <2>1, <2>2
  <2>4. usrSetups' = usrSetups
    BY <1>4 DEF UsrWrite, UsrErase
  <2>5. QED
    BY <2>3, <2>4, UsrCommitKeeps DEF UsrInv
<1>5. ASSUME NEW c \in UsrCallers,
             \/ UsrSetupCheck(c) \/ UsrGuard(c) \/ UsrDeleteGuard(c) \/ UsrSessionStep(c)
             \/ \E u \in UsrIds, kind \in UsrKinds : UsrRead(c, u, kind)
      PROVE  UNCHANGED <<usrRow, usrSetups>>
  BY <1>5 DEF UsrSetupCheck, UsrGuard, UsrDeleteGuard, UsrSessionStep, UsrRead
<1>6. ASSUME NEW u \in UsrIds, UsrLogout(u) PROVE UNCHANGED <<usrRow, usrSetups>>
  BY <1>6 DEF UsrLogout
<1>7. CASE UNCHANGED usrVars
  BY <1>1, <1>7 DEF usrVars
<1>8. QED
  BY <1>1, <1>2, <1>3, <1>4, <1>5, <1>6, <1>7 DEF UsrNext

\* However the requests about users overlap, the deployment gets one first
\* administrator and never loses its last one (CreateAdminIfNone, check_min_one_admin).
THEOREM UsersSound == UsrSpec => UsrAdminsSound
<1>1. UsrInit => UsrInv
  BY DEF UsrInit, UsrInv, UsrTable
<1>2. UsrInv /\ [UsrNext]_usrVars => UsrInv'
  BY UsrStep
<1>3. UsrInv /\ [UsrNext]_usrVars => [AdminExists(usrRow) => AdminExists(usrRow')]_usrVars
  BY UsrStep
<1>4. UsrInv => UsrBootstrapOnce
  BY DEF UsrInv, UsrBootstrapOnce
<1>5. QED
  BY <1>1, <1>2, <1>3, <1>4, PTL DEF UsrSpec, UsrAdminsSound, UsrAdminRemains

-----------------------------------------------------------------------------
(* Collection: the marker of a collection.                                      *)

ColStages == {"idle", "marked", "queued", "sweeping", "swept", "clearing", "releasing", "done"}
ColShape ==
    /\ colRun \in [ColRuns -> [pc : ColStages, asked : SUBSET ColSubs, seen : SUBSET ColSubs]]
    /\ colMark.owner \in ColTokens \cup {ColNobody}

\* The runs that may still clear the marker.
ColUnderWay == ColCollecting \cup {"marked", "queued"}

ColInv ==
    /\ ColShape
    /\ colMark.owner # ColNobody =>
          colMark.owner \in colLost \/ colRun[colMark.owner].pc \in ColUnderWay
    /\ \A t \in ColTokens \ colPassed : colRun[t].pc \in ColUnderWay => colMark.owner = t

\* A run goes on, and the marker stays.
LEMMA ColGoes ==
    ASSUME ColInv, NEW r \in ColRuns, NEW run,
           run \in [pc : ColStages, asked : SUBSET ColSubs, seen : SUBSET ColSubs],
           colRun' = [colRun EXCEPT ![r] = run],
           r \in ColTokens => colRun[r].pc \in ColUnderWay \/ run.pc \notin ColUnderWay,
           r \in ColTokens => run.pc \in ColUnderWay \/ r \in colLost' \/ r # colMark'.owner,
           colMark' = colMark \/ (colMark'.owner = ColNobody /\ colMark.owner \in {ColNobody, r}
                                  /\ run.pc \notin ColUnderWay),
           colLost \subseteq colLost', UNCHANGED colPassed
    PROVE  ColInv'
<1>1. /\ colRun'[r] = run /\ \A q \in ColRuns \ {r} : colRun'[q] = colRun[q]
      /\ colRun' \in [ColRuns -> [pc : ColStages, asked : SUBSET ColSubs, seen : SUBSET ColSubs]]
  BY DEF ColInv, ColShape
<1>2. ColTokens \subseteq ColRuns /\ ColNobody \notin ColTokens
  BY ColAssumption DEF ColRuns
<1>3. ColShape'
  BY <1>1 DEF ColInv, ColShape
<1>4. colMark'.owner # ColNobody =>
        colMark'.owner \in colLost' \/ colRun'[colMark'.owner].pc \in ColUnderWay
  BY <1>1, <1>2 DEF ColInv, ColShape
<1>5. \A t \in ColTokens \ colPassed : colRun'[t].pc \in ColUnderWay => colMark'.owner = t
  BY <1>1, <1>2 DEF ColInv, ColShape
<1>6. QED
  BY <1>3, <1>4, <1>5 DEF ColInv

\* A run is through: its marker goes with it, or the run is lost.
LEMMA ColClears ==
    ASSUME ColInv, NEW r \in ColRuns, NEW run,
           run \in [pc : ColStages, asked : SUBSET ColSubs, seen : SUBSET ColSubs],
           run.pc \notin ColUnderWay, colRun' = [colRun EXCEPT ![r] = run], UNCHANGED colPassed,
           NEW ok \in BOOLEAN, ColClearing(r, ok)
    PROVE  ColInv'
<1>1. colLost \subseteq colLost' /\ ColNobody \notin ColTokens
  BY ColAssumption DEF ColClearing
<1>2. CASE r \in ColTokens /\ ok /\ colMark.owner = r
  <2>1. colMark'.owner = ColNobody
    BY <1>2 DEF ColClearing, ColCleared, ColNoMark
  <2>2. QED
    BY <1>1, <1>2, <2>1, ColGoes
<1>3. CASE r \in ColTokens /\ ok /\ colMark.owner # r
  <2>1. colMark' = colMark
    BY <1>3 DEF ColClearing, ColCleared
  <2>2. QED
    BY <1>1, <1>3, <2>1, ColGoes
<1>4. CASE r \in ColTokens /\ ~ok
  <2>1. colMark' = colMark /\ r \in colLost'
    BY <1>4 DEF ColClearing, ColCleared
  <2>2. QED
    BY <1>1, <1>4, <2>1, ColGoes
<1>5. CASE r \notin ColTokens
  <2>1. colMark' = colMark
    BY <1>5 DEF ColClearing
  <2>2. QED
    BY <1>1, <1>5, <2>1, ColGoes
<1>6. QED
  BY <1>2, <1>3, <1>4, <1>5

\* What a run is when it has ended.
LEMMA ColEnds ==
    ASSUME NEW r \in ColRuns, ColEnd(r)
    PROVE  \E run \in [pc : ColStages, asked : SUBSET ColSubs, seen : SUBSET ColSubs] :
             run.pc \notin ColUnderWay /\ colRun' = [colRun EXCEPT ![r] = run]
<1> DEFINE run == IF r \in ColTokens THEN [ColIdle EXCEPT !.pc = "done"] ELSE ColIdle
<1>1. /\ run \in [pc : ColStages, asked : SUBSET ColSubs, seen : SUBSET ColSubs]
      /\ run.pc \notin ColUnderWay /\ colRun' = [colRun EXCEPT ![r] = run]
  BY DEF ColIdle, ColStages, ColUnderWay, ColCollecting, ColEnd
<1> HIDE DEF run
<1>2. QED
  BY <1>1

\* A run that goes from one stage to the next.
LEMMA ColProceeds ==
    ASSUME ColInv, NEW r \in ColRuns, NEW pc \in ColStages, ColGo(r, pc),
           UNCHANGED <<colMark, colLost, colPassed>>,
           r \in ColTokens => colRun[r].pc \in ColUnderWay /\ pc \in ColUnderWay
    PROVE  ColInv'
<1> DEFINE run == [colRun[r] EXCEPT !.pc = pc]
<1>1. /\ run \in [pc : ColStages, asked : SUBSET ColSubs, seen : SUBSET ColSubs]
      /\ run.pc = pc /\ colRun' = [colRun EXCEPT ![r] = run]
  BY DEF ColInv, ColShape, ColGo
<1> HIDE DEF run
<1>2. QED
  BY <1>1, ColGoes

\* A refresh marks its collection, over one that is not under way for long.
LEMMA ColMarkStep ==
    ASSUME ColInv, NEW t \in ColTokens, ColMark(t)
    PROVE  ColInv'
<1>1. /\ t \in ColRuns /\ ColTokens \subseteq ColRuns /\ ColNobody \notin ColTokens
      /\ ColShape
  BY ColAssumption DEF ColInv, ColRuns
<1>2. /\ colMark'.owner = t
      /\ colPassed' = colPassed \cup ({colMark.owner} \ {ColNobody})
  BY DEF ColMark
<1>3. colRun' = [colRun EXCEPT ![t].pc = "marked"]
  BY DEF ColMark, ColGo
<1>4. /\ colRun'[t].pc = "marked" /\ \A q \in ColRuns \ {t} : colRun'[q] = colRun[q]
      /\ colRun' \in [ColRuns -> [pc : ColStages, asked : SUBSET ColSubs, seen : SUBSET ColSubs]]
  BY <1>1, <1>3 DEF ColShape, ColStages
<1>5. "marked" \in ColUnderWay
  BY DEF ColUnderWay
<1>6. \A u \in ColTokens \ colPassed' : colRun'[u].pc \in ColUnderWay => colMark'.owner = u
  BY <1>1, <1>2, <1>4 DEF ColInv
<1>7. QED
  BY <1>1, <1>2, <1>4, <1>5, <1>6 DEF ColInv, ColShape

\* A marked collection is sent off, started here or given up.
LEMMA ColSendStep ==
    ASSUME ColInv, NEW t \in ColTokens, ColInvoke(t) \/ ColDeliver(t)
    PROVE  ColInv'
<1>1. t \in ColRuns /\ colRun[t].pc \in {"marked", "queued"} /\ UNCHANGED colPassed
  BY DEF ColRuns, ColInvoke, ColDeliver
<1>2. ASSUME NEW pc \in {"queued", "sweeping"}, ColGo(t, pc), UNCHANGED <<colMark, colLost>>
      PROVE  ColInv'
  <2>1. pc \in ColStages /\ pc \in ColUnderWay /\ colRun[t].pc \in ColUnderWay
    BY <1>1 DEF ColStages, ColUnderWay, ColCollecting
  <2>2. QED
    BY <1>1, <1>2, <2>1, ColProceeds
<1>3. ASSUME ColEnd(t), NEW ok \in BOOLEAN, ColClearing(t, ok) PROVE ColInv'
  BY <1>1, <1>3, ColEnds, ColClears
<1>4. QED
  BY <1>2, <1>3 DEF ColInvoke, ColDeliver

\* A collection: it starts, sweeps, stores, clears its marker and is over.
LEMMA ColRunStep ==
    ASSUME ColInv, NEW r \in ColRuns,
           ColStart(r) \/ ColSweep(r) \/ ColPersist(r) \/ ColFinish(r) \/ ColRelease(r)
             \/ ColCrash(r)
    PROVE  ColInv'
<1>1. UNCHANGED colPassed /\ ColShape
  BY DEF ColInv, ColStart, ColSweep, ColPersist, ColFinish, ColRelease, ColCrash
<1>2. CASE ColStart(r)
  <2>1. r \notin ColTokens
    BY <1>2, ColAssumption DEF ColStart
  <2>2. QED
    BY <1>1, <1>2, <2>1, ColProceeds DEF ColStart, ColStages
<1>3. CASE ColSweep(r)
  <2>1. PICK asked \in SUBSET ColSubs, seen \in SUBSET ColSubs :
          colRun' = [colRun EXCEPT ![r] = [pc |-> "swept", asked |-> asked, seen |-> seen]]
    BY <1>3 DEF ColSweep
  <2> DEFINE run == [pc |-> "swept", asked |-> asked, seen |-> seen]
  <2>2. /\ run \in [pc : ColStages, asked : SUBSET ColSubs, seen : SUBSET ColSubs]
        /\ run.pc \in ColUnderWay /\ colRun[r].pc \in ColUnderWay
    BY <1>3 DEF ColSweep, ColStages, ColUnderWay, ColCollecting
  <2>3. colMark' = colMark /\ colLost' = colLost
    BY <1>3 DEF ColSweep
  <2> HIDE DEF run
  <2>4. colRun' = [colRun EXCEPT ![r] = run]
    BY <2>1 DEF run
  <2>5. QED
    BY <1>1, <2>2, <2>3, <2>4, ColGoes
<1>4. CASE ColPersist(r)
  <2> DEFINE run == [ColIdle EXCEPT !.pc = "clearing"]
  <2>1. /\ run \in [pc : ColStages, asked : SUBSET ColSubs, seen : SUBSET ColSubs]
        /\ run.pc \in ColUnderWay /\ colRun[r].pc \in ColUnderWay
    BY <1>4 DEF ColPersist, ColIdle, ColStages, ColUnderWay, ColCollecting
  <2>2. colMark' = colMark /\ colLost' = colLost /\ colRun' = [colRun EXCEPT ![r] = run]
    BY <1>4 DEF ColPersist
  <2> HIDE DEF run
  <2>3. QED
    BY <1>1, <2>1, <2>2, ColGoes
<1>5. CASE ColFinish(r)
  <2>1. PICK ok \in BOOLEAN : ColClearing(r, ok)
    BY <1>5 DEF ColFinish
  <2>2. CASE ColGo(r, "releasing")
    <3> DEFINE run == [colRun[r] EXCEPT !.pc = "releasing"]
    <3>1. /\ run \in [pc : ColStages, asked : SUBSET ColSubs, seen : SUBSET ColSubs]
          /\ run.pc \notin ColUnderWay /\ colRun' = [colRun EXCEPT ![r] = run]
      BY <1>1, <2>2 DEF ColShape, ColGo, ColStages, ColUnderWay, ColCollecting
    <3> HIDE DEF run
    <3>2. QED
      BY <1>1, <2>1, <3>1, ColClears
  <2>3. CASE ColEnd(r)
    BY <1>1, <2>1, <2>3, ColEnds, ColClears
  <2>4. QED
    BY <1>5, <2>2, <2>3 DEF ColFinish
<1>6. CASE ColRelease(r)
  <2>1. /\ colRun[r].pc = "releasing" /\ "releasing" \notin ColUnderWay
        /\ colMark' = colMark /\ colLost' = colLost
    BY <1>6 DEF ColRelease, ColUnderWay, ColCollecting
  <2>2. PICK run \in [pc : ColStages, asked : SUBSET ColSubs, seen : SUBSET ColSubs] :
          run.pc \notin ColUnderWay /\ colRun' = [colRun EXCEPT ![r] = run]
    BY <1>6, ColEnds DEF ColRelease
  <2>3. r \in ColTokens => r \in colLost' \/ r # colMark'.owner
    BY <2>1, ColAssumption DEF ColInv
  <2>4. QED
    BY <1>1, <2>1, <2>2, <2>3, ColGoes
<1>7. CASE ColCrash(r)
  <2>1. colMark' = colMark /\ colLost' = colLost \cup ({r} \cap ColTokens)
    BY <1>7 DEF ColCrash
  <2>2. PICK run \in [pc : ColStages, asked : SUBSET ColSubs, seen : SUBSET ColSubs] :
          run.pc \notin ColUnderWay /\ colRun' = [colRun EXCEPT ![r] = run]
    BY <1>7, ColEnds DEF ColCrash
  <2>3. QED
    BY <1>1, <2>1, <2>2, ColGoes
<1>8. QED
  BY <1>2, <1>3, <1>4, <1>5, <1>6, <1>7

\* Nothing is marked and nothing runs.
LEMMA ColStarts == ColInit => ColInv
<1> SUFFICES ASSUME ColInit PROVE ColInv
  OBVIOUS
<1>1. /\ ColIdle \in [pc : ColStages, asked : SUBSET ColSubs, seen : SUBSET ColSubs]
      /\ ColIdle.pc = "idle" /\ "idle" \notin ColUnderWay
  BY DEF ColIdle, ColStages, ColUnderWay, ColCollecting
<1>2. ColTokens \subseteq ColRuns /\ colMark.owner = ColNobody
  BY DEF ColRuns, ColInit, ColNoMark
<1>3. /\ colRun \in [ColRuns -> [pc : ColStages, asked : SUBSET ColSubs, seen : SUBSET ColSubs]]
      /\ \A r \in ColRuns : colRun[r].pc = "idle"
  BY <1>1 DEF ColInit
<1>4. QED
  BY <1>1, <1>2, <1>3 DEF ColInv, ColShape

\* Every step keeps the invariant.
LEMMA ColStep == ColInv /\ [ColNext]_colVars => ColInv'
<1> SUFFICES ASSUME ColInv, [ColNext]_colVars PROVE ColInv'
  OBVIOUS
<1>1. CASE ColWait \/ UNCHANGED colVars
  BY <1>1 DEF ColWait, colVars, ColInv, ColShape
<1>2. QED
  BY <1>1, ColMarkStep, ColSendStep, ColRunStep DEF ColNext

\* The marker of a collection stays until the collection is over, and no longer
\* unless its run was lost (MarkCollectionStarted, ClearCollectionStarted), for any
\* number of refreshes, background collections and subscriptions.
THEOREM MarkerSound == ColSpec => []ColMarkerSound
<1>1. ColInit => ColInv
  BY ColStarts
<1>2. ColInv => ColMarkerSound
  BY DEF ColInv, ColMarkerSound, ColMarkerBacked, ColMarkerHeld, ColUnderWay
<1>3. QED
  BY <1>1, <1>2, ColStep, PTL DEF ColSpec

\* A persist takes out of the cache what its complete sweep did not see, and nothing
\* else does (tolerateIncompleteSweep, persistCollection).
THEOREM EvictionSound == ColSpec => ColNothingLost
<1> DEFINE Told == \A s \in colCache \ colCache' : \E r \in ColRuns :
                     /\ colRun[r].pc = "swept" /\ colRun'[r].pc = "clearing"
                     /\ s \in colRun[r].asked /\ s \notin colRun[r].seen
<1>1. ColInit => ColInv
  BY ColStarts
<1>2. ColInv /\ [ColNext]_colVars => [Told]_colVars
  <2> SUFFICES ASSUME ColInv, ColNext PROVE Told
    OBVIOUS
  <2>1. CASE colCache' = colCache
    BY <2>1
  <2>2. ASSUME NEW r \in ColRuns, ColPersist(r) PROVE Told
    <3>1. ASSUME NEW s \in colCache \ colCache'
          PROVE  s \in colRun[r].asked /\ s \notin colRun[r].seen
      BY <2>2 DEF ColPersist, ColEvicted
    <3>2. colRun[r].pc = "swept" /\ colRun'[r].pc = "clearing"
      BY <2>2 DEF ColPersist, ColIdle, ColInv, ColShape
    <3>3. QED
      BY <3>1, <3>2
  <2>3. QED
    BY <2>1, <2>2 DEF ColNext, ColMark, ColInvoke, ColDeliver, ColStart, ColSweep, ColFinish,
                      ColRelease, ColCrash, ColWait
<1>3. QED
  BY <1>1, <1>2, ColStep, PTL DEF ColSpec, ColNothingLost

-----------------------------------------------------------------------------
(* Registrations: one review of a row, and one account for it.                  *)

RegOpType ==
    {RegNoOp} \cup [kind : {"approve", "reject", "create"}, row : RegIds]
      \cup [kind : {"link"}, row : RegIds, account : Nat]
      \cup [kind : {"remove"}, account : Nat]
RegRowType ==
    [key : RegKeys \cup {RegNone},
     status : {"new", "pending", "approved", "rejected", "deleted"},
     account : Nat \cup {RegNone}]
RegAcctType == [key : RegKeys, live : BOOLEAN]
RegShape ==
    /\ regRow \in [RegIds -> RegRowType]
    /\ regAcct \in Seq(RegAcctType)
    /\ regOp \in [RegCallers -> RegOpType]

RegAdmitted == {"create", "link"}

\* A row with an account is approved, and the account is there and no other row's.
RegOwns == \A i \in RegIds : regRow[i].account # RegNone =>
    /\ regRow[i].status = "approved" /\ RegLive(regRow[i].account)
    /\ \A j \in RegIds \ {i} : regRow[j].account # regRow[i].account

\* A review that was won is the only one of its row, which has no account yet; the
\* account it made is no row's, and no other review's.
RegWon == \A c \in RegCallers : regOp[c].kind \in RegAdmitted =>
    /\ regRow[regOp[c].row].status \in {"approved", "deleted"}
    /\ regRow[regOp[c].row].account = RegNone
    /\ \A d \in RegCallers \ {c} : regOp[d].kind \in RegAdmitted => regOp[d].row # regOp[c].row
RegMade == \A c \in RegCallers : regOp[c].kind = "link" =>
    /\ regOp[c].account \in DOMAIN regAcct
    /\ \A i \in RegIds : regRow[i].account # regOp[c].account
    /\ \A d \in RegCallers \ {c} : regOp[d].kind = "link" => regOp[d].account # regOp[c].account

RegInv == RegShape /\ RegOwns /\ RegWon /\ RegMade

\* What an operation says.
LEMMA RegOpFacts ==
    ASSUME RegShape, NEW c \in RegCallers
    PROVE  /\ regOp[c] \in RegOpType
           /\ regOp[c].kind \in {"none", "approve", "reject", "create", "link", "remove"}
           /\ regOp[c].kind \in {"approve", "reject", "create", "link"} => regOp[c].row \in RegIds
           /\ regOp[c].kind \in {"link", "remove"} => regOp[c].account \in Nat
           /\ regOp[c] = RegNoOp => regOp[c].kind = "none"
  BY DEF RegShape, RegOpType, RegNoOp

\* An operation takes the place of another.
LEMMA RegOpSet ==
    ASSUME RegShape, NEW c \in RegCallers, NEW op \in RegOpType, regOp' = [regOp EXCEPT ![c] = op]
    PROVE  /\ regOp' \in [RegCallers -> RegOpType]
           /\ regOp'[c] = op /\ \A d \in RegCallers \ {c} : regOp'[d] = regOp[d]
  BY DEF RegShape

\* An operation that admits nothing, or no more than it did.
LEMMA RegOpStep ==
    ASSUME RegInv, NEW c \in RegCallers, NEW op \in RegOpType, op.kind \notin RegAdmitted,
           regOp' = [regOp EXCEPT ![c] = op], UNCHANGED <<regRow, regAcct>>
    PROVE  RegInv'
<1>1. /\ regOp' \in [RegCallers -> RegOpType]
      /\ regOp'[c] = op /\ \A d \in RegCallers \ {c} : regOp'[d] = regOp[d]
  BY RegOpSet DEF RegInv
<1>2. RegShape' /\ RegOwns'
  BY <1>1 DEF RegInv, RegShape, RegOwns, RegLive
<1>3. RegWon'
  BY <1>1 DEF RegInv, RegWon
<1>4. RegMade'
  BY <1>1 DEF RegInv, RegMade, RegAdmitted
<1>5. QED
  BY <1>2, <1>3, <1>4 DEF RegInv

\* A row changes and gets no account; a row that was won stays won.
LEMMA RegRowStep ==
    ASSUME RegInv, NEW i \in RegIds,
           NEW row \in RegRowType,
           row.account = RegNone,
           row.status = "deleted" \/ regRow[i].status \in {"new", "pending"},
           regRow' = [regRow EXCEPT ![i] = row], UNCHANGED <<regAcct, regOp>>
    PROVE  RegInv'
<1>1. /\ regRow'[i] = row /\ \A j \in RegIds \ {i} : regRow'[j] = regRow[j]
      /\ RegShape'
  BY DEF RegInv, RegShape
<1>2. \A c \in RegCallers : regOp[c].kind \in RegAdmitted => regOp[c].row \in RegIds
  BY RegOpFacts DEF RegInv, RegAdmitted
<1>3. RegOwns'
  BY <1>1 DEF RegInv, RegOwns, RegLive
<1>4. RegWon'
  BY <1>1, <1>2 DEF RegInv, RegWon
<1>5. RegMade'
  BY <1>1, RegAssumption, RegOpFacts DEF RegInv, RegMade
<1>6. QED
  BY <1>1, <1>3, <1>4, <1>5 DEF RegInv

\* Submissions, erasures, and what is read for a review or a deletion.
LEMMA RegSimpleStep ==
    ASSUME RegInv,
           \/ \E i \in RegIds : RegErase(i) \/ \E key \in RegKeys : RegSubmit(i, key)
           \/ \E c \in RegCallers, i \in RegIds, kind \in {"approve", "reject"} : RegRead(c, i, kind)
           \/ \E c \in RegCallers, a \in DOMAIN regAcct : RegCount(c, a)
           \/ \E a \in DOMAIN regAcct : RegExecute(a) \/ RegFinish(a) \/ RegClean(a)
           \/ UNCHANGED regVars
    PROVE  RegInv'
<1>1. ASSUME NEW i \in RegIds, RegErase(i) PROVE RegInv'
  <2> DEFINE row == [regRow[i] EXCEPT !.status = "deleted", !.account = RegNone]
  <2>1. /\ row \in RegRowType
        /\ row.account = RegNone /\ row.status = "deleted"
    BY DEF RegInv, RegShape, RegRowType
  <2>2. regRow' = [regRow EXCEPT ![i] = row] /\ UNCHANGED <<regAcct, regOp>>
    BY <1>1 DEF RegErase
  <2> HIDE DEF row
  <2>3. QED
    BY <2>1, <2>2, RegRowStep
<1>2. ASSUME NEW i \in RegIds, NEW key \in RegKeys, RegSubmit(i, key) PROVE RegInv'
  <2> DEFINE row == [regRow[i] EXCEPT !.key = key, !.status = "pending"]
  <2>1. regRow[i].account = RegNone /\ regRow[i].status = "new"
    BY <1>2 DEF RegSubmit, RegInv, RegOwns
  <2>2. /\ row \in RegRowType
        /\ row.account = RegNone
    BY <2>1 DEF RegInv, RegShape, RegRowType
  <2>3. regRow' = [regRow EXCEPT ![i] = row] /\ UNCHANGED <<regAcct, regOp>>
    BY <1>2 DEF RegSubmit
  <2> HIDE DEF row
  <2>4. QED
    BY <2>1, <2>2, <2>3, RegRowStep
<1>3. ASSUME NEW c \in RegCallers, NEW i \in RegIds, NEW kind \in {"approve", "reject"},
             RegRead(c, i, kind)
      PROVE  RegInv'
  <2> DEFINE op == [kind |-> kind, row |-> i]
  <2>1. op \in RegOpType /\ op.kind \notin RegAdmitted
    BY DEF RegOpType, RegAdmitted
  <2>2. regOp' = [regOp EXCEPT ![c] = op] /\ UNCHANGED <<regRow, regAcct>>
    BY <1>3 DEF RegRead
  <2> HIDE DEF op
  <2>3. QED
    BY <2>1, <2>2, RegOpStep
<1>4. ASSUME NEW c \in RegCallers, NEW a \in DOMAIN regAcct, RegCount(c, a) PROVE RegInv'
  <2> DEFINE op == [kind |-> "remove", account |-> a]
  <2>1. a \in Nat
    BY DEF RegInv, RegShape
  <2>2. op \in RegOpType /\ op.kind \notin RegAdmitted
    BY <2>1 DEF RegOpType, RegAdmitted
  <2>3. regOp' = [regOp EXCEPT ![c] = op] /\ UNCHANGED <<regRow, regAcct>>
    BY <1>4 DEF RegCount
  <2> HIDE DEF op
  <2>4. QED
    BY <2>2, <2>3, RegOpStep
<1>5. CASE UNCHANGED <<regRow, regAcct, regOp>>
  BY <1>5 DEF RegInv, RegShape, RegOwns, RegLive, RegWon, RegMade
<1>6. QED
  BY <1>1, <1>2, <1>3, <1>4, <1>5 DEF RegExecute, RegFinish, RegClean, regVars

\* The winner of a review is admitted, the others are done.
LEMMA RegTransitionStep ==
    ASSUME RegInv, NEW c \in RegCallers, RegTransition(c)
    PROVE  RegInv'
<1>1. /\ regOp[c].kind \in {"approve", "reject"} /\ UNCHANGED regAcct
      /\ regOp[c] \in RegOpType /\ regOp[c].row \in RegIds /\ RegNoOp \in RegOpType
      /\ RegNoOp.kind = "none"
  BY RegOpFacts DEF RegTransition, RegInv, RegOpType, RegNoOp
<1>2. CASE regRow[regOp[c].row].status # "pending"
  <2>1. regRow' = regRow /\ regOp' = [regOp EXCEPT ![c] = RegNoOp]
    BY <1>2 DEF RegTransition
  <2>2. QED
    BY <1>1, <2>1, RegOpStep DEF RegAdmitted
<1>3. CASE regRow[regOp[c].row].status = "pending"
  <2>1. PICK i \in RegIds : i = regOp[c].row
    BY <1>1
  <2> DEFINE approved == regOp[c].kind = "approve"
             row == [regRow[i] EXCEPT !.status = IF approved THEN "approved" ELSE "rejected"]
             op == IF approved THEN [regOp[c] EXCEPT !.kind = "create"] ELSE RegNoOp
  <2>2. regRow' = [regRow EXCEPT ![i] = row] /\ regOp' = [regOp EXCEPT ![c] = op]
    BY <1>3, <2>1 DEF RegTransition
  <2>3. regRow[i].account = RegNone /\ regRow[i].status = "pending"
    BY <1>3, <2>1 DEF RegInv, RegOwns
  <2>4. /\ row \in RegRowType
        /\ row.account = RegNone /\ row.status = IF approved THEN "approved" ELSE "rejected"
    BY <2>3 DEF RegInv, RegShape, RegRowType
  <2>5. /\ op \in RegOpType /\ op.kind = IF approved THEN "create" ELSE "none"
        /\ approved => op.row = i
    BY <1>1, <2>1 DEF RegOpType, RegNoOp
  <2> HIDE DEF row, op
  <2>6. /\ regOp' \in [RegCallers -> RegOpType]
        /\ regOp'[c] = op /\ \A d \in RegCallers \ {c} : regOp'[d] = regOp[d]
    BY <2>2, <2>5, RegOpSet DEF RegInv
  <2>7. regRow'[i] = row /\ \A j \in RegIds \ {i} : regRow'[j] = regRow[j]
    BY <2>2 DEF RegInv, RegShape
  <2>8. RegShape'
    BY <1>1, <2>2, <2>4, <2>6 DEF RegInv, RegShape
  <2>9. RegOwns'
    BY <1>1, <2>3, <2>4, <2>7 DEF RegInv, RegOwns, RegLive
  <2>10. \A d \in RegCallers : regOp[d].kind \in RegAdmitted =>
            regOp[d].row # i /\ regOp[d].row \in RegIds
    BY <2>3, RegOpFacts DEF RegInv, RegWon, RegAdmitted
  <2>11. RegWon'
    BY <2>4, <2>5, <2>6, <2>7, <2>10 DEF RegInv, RegWon, RegAdmitted
  <2>12. RegMade'
    BY <1>1, <2>4, <2>5, <2>6, <2>7, RegAssumption, RegOpFacts DEF RegInv, RegMade
  <2>13. QED
    BY <2>8, <2>9, <2>11, <2>12 DEF RegInv
<1>4. QED
  BY <1>2, <1>3

\* One more account, and the ones there are.
LEMMA RegAccountAdded ==
    ASSUME RegShape, NEW key \in RegKeys, RegAddAccount(key)
    PROVE  /\ regAcct' \in Seq(RegAcctType)
           /\ Len(regAcct) + 1 \in Nat /\ Len(regAcct) + 1 \notin DOMAIN regAcct
           /\ DOMAIN regAcct' = DOMAIN regAcct \cup {Len(regAcct) + 1}
           /\ \A a : RegLive(a) => RegLive(a)'
<1> DEFINE one == [key |-> key, live |-> TRUE]
<1>1. one \in RegAcctType /\ regAcct' = Append(regAcct, one)
  BY DEF RegAddAccount, RegAcctType
<1> HIDE DEF one
<1>2. /\ regAcct' \in Seq(RegAcctType)
      /\ Len(regAcct) + 1 \in Nat /\ Len(regAcct) + 1 \notin DOMAIN regAcct
      /\ DOMAIN regAcct' = DOMAIN regAcct \cup {Len(regAcct) + 1}
      /\ \A a \in DOMAIN regAcct : regAcct'[a] = regAcct[a]
  BY <1>1 DEF RegShape
<1>3. QED
  BY <1>2 DEF RegLive

\* An account is added, or the identity of one changes; no row is written.
LEMMA RegAccountStep ==
    ASSUME RegInv,
           \/ \E key \in RegKeys : RegAdd(key)
           \/ \E a \in DOMAIN regAcct, key \in RegKeys : RegUpdate(a, key)
    PROVE  RegInv'
<1>1. /\ UNCHANGED <<regRow, regOp>> /\ regAcct' \in Seq(RegAcctType)
      /\ DOMAIN regAcct \subseteq DOMAIN regAcct' /\ \A a : RegLive(a) => RegLive(a)'
  <2>1. ASSUME NEW key \in RegKeys, RegAdd(key)
        PROVE  /\ UNCHANGED <<regRow, regOp>> /\ regAcct' \in Seq(RegAcctType)
               /\ DOMAIN regAcct \subseteq DOMAIN regAcct' /\ \A a : RegLive(a) => RegLive(a)'
    BY <2>1, RegAccountAdded DEF RegAdd, RegInv
  <2>2. ASSUME NEW a \in DOMAIN regAcct, NEW key \in RegKeys, RegUpdate(a, key)
        PROVE  /\ UNCHANGED <<regRow, regOp>> /\ regAcct' \in Seq(RegAcctType)
               /\ DOMAIN regAcct \subseteq DOMAIN regAcct' /\ \A b : RegLive(b) => RegLive(b)'
    <3> DEFINE one == [regAcct[a] EXCEPT !.key = key]
    <3>1. regAcct[a] \in RegAcctType
      BY DEF RegInv, RegShape
    <3>2. one \in RegAcctType /\ one.live = regAcct[a].live
      BY <3>1 DEF RegAcctType
    <3>3. regAcct' = [regAcct EXCEPT ![a] = one]
      BY <2>2 DEF RegUpdate
    <3> HIDE DEF one
    <3>4. /\ regAcct' \in Seq(RegAcctType)
          /\ DOMAIN regAcct' = DOMAIN regAcct
          /\ regAcct'[a] = one /\ \A b \in DOMAIN regAcct \ {a} : regAcct'[b] = regAcct[b]
      BY <3>2, <3>3 DEF RegInv, RegShape
    <3>5. \A b : RegLive(b) => RegLive(b)'
      BY <3>2, <3>4 DEF RegLive
    <3>6. QED
      BY <2>2, <3>4, <3>5 DEF RegUpdate
  <2>3. QED
    BY <2>1, <2>2
<1>2. RegShape' /\ RegWon'
  BY <1>1 DEF RegInv, RegShape, RegWon
<1>3. RegOwns'
  <2>1. \A i \in RegIds : RegLive(regRow[i].account) => RegLive(regRow[i].account)'
    BY <1>1 DEF RegLive
  <2>2. QED
    BY <1>1, <2>1 DEF RegInv, RegOwns, RegLive
<1>4. RegMade'
  BY <1>1 DEF RegInv, RegMade
<1>5. QED
  BY <1>2, <1>3, <1>4 DEF RegInv

\* A review that was won creates its account, or finds the identity taken.
LEMMA RegCreateStep ==
    ASSUME RegInv, NEW c \in RegCallers, RegCreate(c)
    PROVE  RegInv'
<1>1. /\ regOp[c].kind = "create" /\ regOp[c].row \in RegIds /\ regRow' = regRow
      /\ RegNoOp \in RegOpType /\ RegNoOp.kind \notin RegAdmitted
  BY RegOpFacts DEF RegCreate, RegInv, RegOpType, RegNoOp, RegAdmitted
<1>2. CASE RegDone(c) /\ UNCHANGED regAcct
  BY <1>1, <1>2, RegOpStep DEF RegDone
<1>3. ASSUME NEW key \in RegKeys, RegAddAccount(key),
             regOp' = [regOp EXCEPT ![c] =
               [kind |-> "link", row |-> regOp[c].row, account |-> Len(regAcct) + 1]]
      PROVE  RegInv'
  <2>1. /\ regAcct' \in Seq(RegAcctType)
        /\ Len(regAcct) + 1 \in Nat /\ Len(regAcct) + 1 \notin DOMAIN regAcct
        /\ DOMAIN regAcct' = DOMAIN regAcct \cup {Len(regAcct) + 1}
        /\ \A a : RegLive(a) => RegLive(a)'
    BY <1>3, RegAccountAdded DEF RegInv
  <2>2. PICK n \in Nat : n = Len(regAcct) + 1
    BY <2>1
  <2> DEFINE op == [kind |-> "link", row |-> regOp[c].row, account |-> n]
  <2>3. /\ op \in RegOpType /\ op.kind = "link" /\ op.row = regOp[c].row /\ op.account = n
        /\ regOp' = [regOp EXCEPT ![c] = op]
    BY <1>1, <1>3, <2>2 DEF RegOpType
  <2> HIDE DEF op
  <2>4. /\ regOp' \in [RegCallers -> RegOpType]
        /\ regOp'[c] = op /\ \A d \in RegCallers \ {c} : regOp'[d] = regOp[d]
    BY <2>3, RegOpSet DEF RegInv
  <2>5. RegShape'
    BY <1>1, <2>1, <2>4 DEF RegInv, RegShape
  <2>6. RegOwns'
    BY <1>1, <2>1 DEF RegInv, RegOwns, RegLive
  <2>7. RegWon'
    BY <1>1, <2>3, <2>4 DEF RegInv, RegWon, RegAdmitted
  <2>8. n \notin DOMAIN regAcct /\ n \in DOMAIN regAcct' /\ DOMAIN regAcct \subseteq DOMAIN regAcct'
    BY <2>1, <2>2
  <2>9. \A i \in RegIds : regRow[i].account # n
    BY <2>8, <2>2, RegAssumption DEF RegInv, RegOwns, RegLive
  <2>10. RegMade'
    BY <1>1, <2>3, <2>4, <2>8, <2>9 DEF RegInv, RegMade
  <2>11. QED
    BY <2>5, <2>6, <2>7, <2>10 DEF RegInv
<1>4. QED
  BY <1>2, <1>3 DEF RegCreate

\* The account is linked to the row it was made for, if both are still there.
LEMMA RegLinkStep ==
    ASSUME RegInv, NEW c \in RegCallers, RegLink(c)
    PROVE  RegInv'
<1>1. /\ regOp[c].kind = "link" /\ regOp[c].row \in RegIds /\ regOp[c].account \in Nat
      /\ regAcct' = regAcct /\ regOp' = [regOp EXCEPT ![c] = RegNoOp]
      /\ RegNoOp \in RegOpType /\ RegNoOp.kind = "none"
  BY RegOpFacts DEF RegLink, RegInv, RegOpType, RegNoOp, RegDone
<1>2. CASE regRow' = regRow
  BY <1>1, <1>2, RegOpStep DEF RegAdmitted
<1>3. CASE /\ regOp[c].row \in RegPresent /\ RegLive(regOp[c].account)
           /\ regRow' = [regRow EXCEPT ![regOp[c].row].status = "approved",
                                       ![regOp[c].row].account = regOp[c].account]
  <2>1. PICK i \in RegIds, a \in Nat : i = regOp[c].row /\ a = regOp[c].account
    BY <1>1
  <2> DEFINE row == [regRow[i] EXCEPT !.status = "approved", !.account = a]
  <2>2. /\ row \in RegRowType
        /\ row.account = a /\ row.status = "approved" /\ regRow' = [regRow EXCEPT ![i] = row]
    BY <1>3, <2>1 DEF RegInv, RegShape, RegRowType
  <2> HIDE DEF row
  <2>3. regRow'[i] = row /\ \A j \in RegIds \ {i} : regRow'[j] = regRow[j]
    BY <2>2 DEF RegInv, RegShape
  <2>4. /\ regOp' \in [RegCallers -> RegOpType]
        /\ regOp'[c] = RegNoOp /\ \A d \in RegCallers \ {c} : regOp'[d] = regOp[d]
    BY <1>1, RegOpSet DEF RegInv
  <2>5. RegShape'
    BY <1>1, <2>2, <2>4 DEF RegInv, RegShape
  <2>6. /\ RegLive(a) /\ \A j \in RegIds : regRow[j].account # a
        /\ \A d \in RegCallers \ {c} :
              /\ regOp[d].kind \in RegAdmitted => regOp[d].row # i
              /\ regOp[d].kind = "link" => regOp[d].account # a
    BY <1>1, <1>3, <2>1 DEF RegInv, RegWon, RegMade, RegAdmitted
  <2>7. RegOwns'
    BY <1>1, <2>2, <2>3, <2>6 DEF RegInv, RegOwns, RegLive
  <2>8. RegWon'
    <3>1. \A d \in RegCallers \ {c} : regOp[d].kind \in RegAdmitted =>
             regOp[d].row \in RegIds /\ regRow'[regOp[d].row] = regRow[regOp[d].row]
      BY <2>3, <2>6, RegOpFacts DEF RegInv, RegAdmitted
    <3>2. regOp'[c].kind \notin RegAdmitted
      BY <1>1, <2>4 DEF RegAdmitted
    <3>3. QED
      BY <2>4, <3>1, <3>2 DEF RegInv, RegWon
  <2>9. RegMade'
    <3>1. \A d \in RegCallers \ {c} : regOp[d].kind = "link" =>
             \A j \in RegIds : regRow'[j].account # regOp[d].account
      BY <2>2, <2>3, <2>6 DEF RegInv, RegMade
    <3>2. regOp'[c].kind # "link"
      BY <1>1, <2>4
    <3>3. QED
      BY <1>1, <2>4, <3>1, <3>2 DEF RegInv, RegMade
  <2>10. QED
    BY <2>5, <2>7, <2>8, <2>9 DEF RegInv
<1>4. QED
  BY <1>2, <1>3 DEF RegLink

\* An account goes, and the row that had it is open again.
LEMMA RegRemoveStep ==
    ASSUME RegInv, NEW c \in RegCallers, RegRemove(c)
    PROVE  RegInv'
<1>1. /\ regOp[c].kind = "remove" /\ regOp[c].account \in Nat
      /\ regOp' = [regOp EXCEPT ![c] = RegNoOp]
      /\ RegNoOp \in RegOpType /\ RegNoOp.kind = "none"
  BY RegOpFacts DEF RegRemove, RegInv, RegOpType, RegNoOp, RegDone
<1>2. CASE UNCHANGED <<regRow, regAcct>>
  BY <1>1, <1>2, RegOpStep DEF RegAdmitted
<1>3. CASE /\ RegLive(regOp[c].account) /\ regRow' = RegReopen(regOp[c].account)
           /\ regAcct' = [regAcct EXCEPT ![regOp[c].account].live = FALSE]
  <2>1. PICK a \in Nat : a = regOp[c].account
    BY <1>1
  <2>2. /\ regOp' \in [RegCallers -> RegOpType]
        /\ regOp'[c] = RegNoOp /\ \A d \in RegCallers \ {c} : regOp'[d] = regOp[d]
    BY <1>1, RegOpSet DEF RegInv
  <2>3. /\ regRow' \in [RegIds -> RegRowType]
        /\ \A i \in RegIds : IF i \in RegLinkedTo(a)
              THEN regRow'[i].account = RegNone /\ regRow'[i].status = "pending"
              ELSE regRow'[i] = regRow[i]
    <3>1. regRow' = [i \in RegIds |-> IF i \in RegLinkedTo(a)
             THEN [regRow[i] EXCEPT !.status = "pending", !.account = RegNone] ELSE regRow[i]]
      BY <1>3, <2>1 DEF RegReopen
    <3>2. QED
      BY <3>1 DEF RegInv, RegShape, RegRowType
  <2>4. \A i \in RegIds : regRow[i].account = a <=> i \in RegLinkedTo(a)
    BY RegAssumption DEF RegInv, RegOwns, RegLinkedTo
  <2>5. /\ regAcct' \in Seq(RegAcctType) /\ DOMAIN regAcct' = DOMAIN regAcct
        /\ \A b \in DOMAIN regAcct \ {a} : regAcct'[b] = regAcct[b]
    <3> DEFINE one == [regAcct[a] EXCEPT !.live = FALSE]
    <3>1. a \in DOMAIN regAcct /\ regAcct[a] \in RegAcctType
      BY <1>3, <2>1 DEF RegLive, RegInv, RegShape
    <3>2. one \in RegAcctType
      BY <3>1 DEF RegAcctType
    <3>3. regAcct' = [regAcct EXCEPT ![a] = one]
      BY <1>3, <2>1
    <3> HIDE DEF one
    <3>4. QED
      BY <3>1, <3>2, <3>3 DEF RegInv, RegShape
  <2>6. RegShape'
    BY <2>2, <2>3, <2>5 DEF RegInv, RegShape
  <2>7. RegOwns'
    BY <2>3, <2>4, <2>5 DEF RegInv, RegOwns, RegLive
  <2>8. \A d \in RegCallers : regOp[d].kind \in RegAdmitted =>
           regOp[d].row \in RegIds /\ regRow'[regOp[d].row] = regRow[regOp[d].row]
    BY <2>3, <2>4, RegAssumption, RegOpFacts DEF RegInv, RegWon, RegAdmitted
  <2>9. RegWon'
    BY <1>1, <2>2, <2>8 DEF RegInv, RegWon, RegAdmitted
  <2>10. RegMade'
    BY <1>1, <2>2, <2>3, <2>5, RegAssumption, RegOpFacts DEF RegInv, RegMade
  <2>11. QED
    BY <2>6, <2>7, <2>9, <2>10 DEF RegInv
<1>4. QED
  BY <1>2, <1>3 DEF RegRemove

\* However reviews, deletions and discoveries overlap, a registration has one review
\* that wins, and the account it is linked to is there and its own
\* (TransitionRegistrationStatus, DeleteCloudAccount), for any number of them.
THEOREM ReviewsSound == RegSpec => []RegSound
<1>1. RegInit => RegInv
  BY DEF RegInit, RegInv, RegShape, RegRowType, RegAcctType, RegOwns, RegWon, RegMade,
         RegOpType, RegNoOp, RegAdmitted
<1>2. RegInv /\ [RegNext]_regVars => RegInv'
  BY RegSimpleStep, RegTransitionStep, RegAccountStep, RegCreateStep, RegLinkStep, RegRemoveStep
     DEF RegNext
<1>3. RegInv => RegSound
  <2> SUFFICES ASSUME RegInv PROVE RegSound
    OBVIOUS
  <2>1. RegOneReview
    BY DEF RegInv, RegWon, RegAdmitted, RegOneReview
  <2>2. RegLinkSound
    BY DEF RegInv, RegOwns, RegLinkSound, RegPresent, RegLinkedTo
  <2>3. QED
    BY <2>1, <2>2 DEF RegSound
<1>4. QED
  BY <1>1, <1>2, <1>3, PTL DEF RegSpec

-----------------------------------------------------------------------------
(* Approvals: two people, one decision.                                         *)

AppStages == {"idle", "policy", "delay", "schedule", "enforce", "claim"}
AppStatuses == {"pending", "approved", "scheduled", "canceled", "completed", "revoking"}

AppReqType == [at : AppStages \ {"idle"}, path : {"message", "session", "link", "direct"},
               session : {"none", "bearer", "key"}, held : BOOLEAN]
AppRowType == [status : AppStatuses, creator : AppPeople \cup {AppNobody},
               link : {"live", "expired"}, window : {"open", "closed"}]

AppShape ==
    /\ appReq \in [AppPeople -> {AppIdle} \cup AppReqType]
    /\ appRow \in AppRowType
    /\ appTwo \in BOOLEAN
    /\ appDecision.is \in {"none", "approved", "scheduled", "canceled"}

\* A request is held by the policy only while the policy is on; past the check of
\* the policy it is then somebody else's than the creator's.
AppHolds == \A p \in AppPeople : appReq[p] # AppIdle /\ appReq[p].held =>
    /\ appTwo
    /\ appReq[p].at \in {"delay", "schedule", "claim"} => appRow.creator \notin {AppNobody, p}

\* What the row has come to is what was decided.
AppRow ==
    /\ appRow.status = "pending" <=> appDecision = AppUndecided
    /\ appDecision.is = "none" <=> appDecision = AppUndecided
    /\ appRow.status = "canceled" <=> appDecision.is = "canceled"
    /\ appRow.status = "approved" => appDecision.is = "approved"
    /\ appRow.status = "scheduled" => appDecision.is = "scheduled"

AppInv == AppShape /\ AppHolds /\ AppRow /\ AppTwoPeople /\ AppRequesterHears

\* What a request in flight is.
LEMMA AppReqFacts ==
    ASSUME AppShape, NEW p \in AppPeople, appReq[p] # AppIdle
    PROVE  /\ appReq[p] \in AppReqType /\ appReq[p].at # "idle"
           /\ DOMAIN appReq[p] = {"at", "path", "session", "held"}
<1>1. appReq[p] \in AppReqType
  BY DEF AppShape
<1>2. QED
  BY <1>1 DEF AppReqType

\* A step of one request that leaves everything else: the policy is kept when the
\* request has a policy that is on, and somebody else's row once past its check.
LEMMA AppGoStep ==
    ASSUME AppInv, NEW p \in AppPeople, NEW req \in {AppIdle} \cup AppReqType, AppGo(p, req),
           req # AppIdle /\ req.held => appTwo
             /\ (req.at \in {"delay", "schedule", "claim"} => appRow.creator \notin {AppNobody, p}),
           UNCHANGED <<appRow, appMailed, appDecision, appTwo>>
    PROVE  AppInv'
<1>1. /\ appReq' \in [AppPeople -> {AppIdle} \cup AppReqType]
      /\ appReq'[p] = req /\ \A q \in AppPeople \ {p} : appReq'[q] = appReq[q]
  BY DEF AppGo, AppInv, AppShape
<1>2. AppShape'
  BY <1>1 DEF AppInv, AppShape
<1>3. AppHolds'
  BY <1>1 DEF AppInv, AppHolds
<1>4. AppRow' /\ AppTwoPeople' /\ AppRequesterHears'
  BY DEF AppInv, AppRow, AppTwoPeople, AppRequesterHears, AppRequester
<1>5. QED
  BY <1>2, <1>3, <1>4 DEF AppInv

\* A request comes in with the policy of that moment and before its check.
LEMMA AppAskStep ==
    ASSUME AppInv, NEW p \in AppPeople,
           \/ \E way \in AppWays : AppApprove(p, way)
           \/ \E session \in {"bearer", "key"} : AppDirect(p, session)
    PROVE  AppInv'
<1>1. CASE \E way \in AppWays : AppApprove(p, way)
  <2>1. PICK way \in AppWays : AppApprove(p, way)
    BY <1>1
  <2> DEFINE at == IF way = AppMessage THEN "enforce" ELSE "policy"
             path == AppPath(p, way, AppMayApprove(p))
             req == [at |-> at, path |-> path, session |-> way.session, held |-> appTwo]
  <2>2. at \in {"enforce", "policy"} /\ path \in {"message", "session", "link"}
    BY DEF AppPath
  <2>3. way.session \in {"none", "bearer", "key"}
    BY DEF AppWays, AppMessage
  <2>4. AppGo(p, req) /\ UNCHANGED <<appRow, appMailed, appDecision, appTwo>>
    BY <2>1 DEF AppApprove, appWorld
  <2> HIDE DEF at, path
  <2>5. req \in AppReqType /\ req.at \notin {"delay", "schedule", "claim"}
    BY <2>2, <2>3 DEF AppReqType, AppStages, AppInv, AppShape
  <2>6. req.held => appTwo
    OBVIOUS
  <2> HIDE DEF req
  <2>7. QED
    BY <2>4, <2>5, <2>6, AppGoStep
<1>2. CASE \E session \in {"bearer", "key"} : AppDirect(p, session)
  <2>1. PICK session \in {"bearer", "key"} : AppDirect(p, session)
    BY <1>2
  <2> DEFINE req == [at |-> "enforce", path |-> "direct", session |-> session, held |-> appTwo]
  <2>2. AppGo(p, req) /\ UNCHANGED <<appRow, appMailed, appDecision, appTwo>>
    BY <2>1 DEF AppDirect, appWorld
  <2>3. req \in AppReqType /\ req.at \notin {"delay", "schedule", "claim"}
    BY DEF AppReqType, AppStages, AppInv, AppShape
  <2>4. req.held => appTwo
    OBVIOUS
  <2> HIDE DEF req
  <2>5. QED
    BY <2>2, <2>3, <2>4, AppGoStep
<1>3. QED
  BY <1>1, <1>2

\* The checks of a request: of the policy, of the delay, of the link and the policy.
LEMMA AppCheckStep ==
    ASSUME AppInv, NEW p \in AppPeople, AppCheckPolicy(p) \/ AppCheckDelay(p) \/ AppEnforce(p)
    PROVE  AppInv'
<1>1. /\ UNCHANGED <<appRow, appMailed, appDecision, appTwo>>
      /\ appReq[p].at \in {"policy", "delay", "enforce"} /\ appReq[p] # AppIdle
  BY DEF AppCheckPolicy, AppCheckDelay, AppEnforce, appWorld, AppIdle
<1>2. /\ appReq[p] \in AppReqType /\ appReq[p].at # "idle"
      /\ DOMAIN appReq[p] = {"at", "path", "session", "held"}
  BY <1>1, AppReqFacts DEF AppInv
<1>3. /\ appReq[p].held => appTwo
      /\ appReq[p].held /\ appReq[p].at = "delay" => appRow.creator \notin {AppNobody, p}
  BY <1>1 DEF AppInv, AppHolds
<1>4. ASSUME NEW at \in AppStages \ {"idle"}
      PROVE  /\ [appReq[p] EXCEPT !.at = at] \in AppReqType
             /\ [appReq[p] EXCEPT !.at = at].at = at
             /\ [appReq[p] EXCEPT !.at = at].held = appReq[p].held
  BY <1>2 DEF AppReqType
<1>5. ASSUME NEW at \in AppStages \ {"idle"}, AppGo(p, [appReq[p] EXCEPT !.at = at]),
             appReq[p].held /\ at \in {"delay", "schedule", "claim"}
                => appRow.creator \notin {AppNobody, p}
      PROVE  AppInv'
  <2> DEFINE req == [appReq[p] EXCEPT !.at = at]
  <2>1. req \in AppReqType /\ req.at = at /\ req.held = appReq[p].held /\ AppGo(p, req)
    BY <1>4, <1>5
  <2> HIDE DEF req
  <2>2. /\ req.held => appTwo
        /\ req.held /\ req.at \in {"delay", "schedule", "claim"}
              => appRow.creator \notin {AppNobody, p}
    BY <1>3, <1>5, <2>1
  <2>3. QED
    BY <1>1, <2>1, <2>2, AppGoStep
<1>6. ASSUME AppGo(p, AppIdle) PROVE AppInv'
  <2> DEFINE req == AppIdle
  <2>1. req \in {AppIdle} \cup AppReqType /\ AppGo(p, req) /\ req = AppIdle
    BY <1>6
  <2> HIDE DEF req
  <2>2. QED
    BY <1>1, <2>1, AppGoStep
<1>7. CASE AppCheckPolicy(p)
  <2>1. CASE AppDifferent(p)
    <3>1. AppGo(p, [appReq[p] EXCEPT !.at = "delay"])
      BY <1>7, <2>1 DEF AppCheckPolicy
    <3>2. appReq[p].held => appRow.creator \notin {AppNobody, p}
      BY <1>3, <2>1 DEF AppDifferent
    <3>3. QED
      BY <1>5, <3>1, <3>2 DEF AppStages
  <2>2. CASE ~AppDifferent(p)
    BY <1>6, <1>7, <2>2 DEF AppCheckPolicy
  <2>3. QED
    BY <2>1, <2>2
<1>8. CASE AppCheckDelay(p)
  <2>1. PICK at \in {"schedule", "enforce"} : AppGo(p, [appReq[p] EXCEPT !.at = at])
    BY <1>8 DEF AppCheckDelay
  <2>2. appReq[p].held => appRow.creator \notin {AppNobody, p}
    BY <1>3, <1>8 DEF AppCheckDelay
  <2>3. QED
    BY <1>5, <2>1, <2>2 DEF AppStages
<1>9. CASE AppEnforce(p)
  <2>1. CASE appTwo /\ ~AppOtherPerson(p)
    BY <1>6, <1>9, <2>1 DEF AppEnforce
  <2>2. CASE appTwo => AppOtherPerson(p)
    <3>1. AppGo(p, [appReq[p] EXCEPT !.at = "claim"]) \/ AppGo(p, AppIdle)
      BY <1>9 DEF AppEnforce
    <3>2. appReq[p].held => appRow.creator \notin {AppNobody, p}
      BY <1>3, <2>2 DEF AppOtherPerson
    <3>3. QED
      BY <1>5, <1>6, <3>1, <3>2 DEF AppStages
  <2>3. QED
    BY <2>1, <2>2
<1>10. QED
  BY <1>7, <1>8, <1>9

\* The row is decided: approved at once, or scheduled.
LEMMA AppDecideStep ==
    ASSUME AppInv, NEW p \in AppPeople, AppClaim(p) \/ AppSchedule(p)
    PROVE  AppInv'
<1>1. /\ appReq[p].at \in {"claim", "schedule"} /\ appReq[p] # AppIdle /\ appTwo' = appTwo
      /\ AppGo(p, AppIdle)
  BY DEF AppClaim, AppSchedule, AppLeave, AppDecide, appWorld, AppIdle
<1>2. /\ appReq[p] \in AppReqType
      /\ appReq[p].held => appRow.creator \notin {AppNobody, p}
  BY <1>1, AppReqFacts DEF AppInv, AppHolds
<1>3. CASE UNCHANGED <<appRow, appMailed, appDecision>>
  <2> DEFINE req == AppIdle
  <2>1. req \in {AppIdle} \cup AppReqType /\ AppGo(p, req) /\ req = AppIdle
    BY <1>1
  <2> HIDE DEF req
  <2>2. QED
    BY <1>1, <1>3, <2>1, AppGoStep
<1>4. ASSUME NEW is \in {"approved", "scheduled"}, AppAwaits, AppDecide(p, is, is)
      PROVE  AppInv'
  <2>1. /\ appRow.status = "pending" /\ appRow' = [appRow EXCEPT !.status = is]
        /\ appDecision' = [is |-> is, by |-> p, path |-> appReq[p].path, held |-> appReq[p].held]
    BY <1>4 DEF AppDecide, AppAwaits, AppInv, AppShape, AppRowType, AppStatuses
  <2>2. /\ appRow' \in AppRowType /\ appRow'.status = is /\ appRow'.creator = appRow.creator
    BY <2>1 DEF AppInv, AppShape, AppRowType, AppStatuses
  <2>3. /\ appDecision'.is = is /\ appDecision'.by = p /\ appDecision' # AppUndecided
        /\ appDecision'.held = appReq[p].held
    BY <2>1 DEF AppUndecided
  <2>4. /\ appReq' \in [AppPeople -> {AppIdle} \cup AppReqType]
        /\ appReq'[p] = AppIdle /\ \A q \in AppPeople \ {p} : appReq'[q] = appReq[q]
    BY <1>1 DEF AppGo, AppInv, AppShape
  <2>5. AppShape'
    BY <1>1, <2>2, <2>3, <2>4 DEF AppInv, AppShape
  <2>6. AppHolds'
    BY <1>1, <2>2, <2>4 DEF AppInv, AppHolds
  <2>7. AppRow'
    BY <2>2, <2>3 DEF AppRow, AppUndecided
  <2>8. AppTwoPeople'
    BY <1>2, <2>2, <2>3 DEF AppTwoPeople
  <2>9. AppRequesterHears'
    BY <2>2 DEF AppRequesterHears
  <2>10. QED
    BY <2>5, <2>6, <2>7, <2>8, <2>9 DEF AppInv
<1>5. QED
  BY <1>3, <1>4 DEF AppClaim, AppSchedule

\* The row is canceled, bought, revoked, or time passes for it: no request changes.
LEMMA AppRowStep ==
    ASSUME AppInv,
           \/ \E p \in AppPeople, way \in AppWays : AppCancel(p, way) \/ AppRevoke(p, way)
           \/ AppBuy \/ AppTime
    PROVE  AppInv'
<1>1. UNCHANGED <<appReq, appTwo>>
  BY DEF AppCancel, AppRevoke, AppBuy, AppTime, appWorld
<1>2. /\ appRow' \in AppRowType /\ appRow'.creator = appRow.creator
      /\ appRow'.status \in {appRow.status, "canceled", "completed", "revoking"}
  BY DEF AppCancel, AppRevoke, AppBuy, AppTime, AppInv, AppShape, AppRowType, AppStatuses
<1>3. AppHolds'
  BY <1>1, <1>2 DEF AppInv, AppHolds
<1>4. CASE \E p \in AppPeople, way \in AppWays : AppCancel(p, way)
  <2>1. PICK p \in AppPeople, way \in AppWays : AppCancel(p, way)
    BY <1>4
  <2>2. appRow.status = "pending" /\ appRow'.status = "canceled" /\ appDecision = AppUndecided
    BY <2>1 DEF AppCancel, AppCancelable, AppInv, AppShape, AppRow, AppRowType, AppStatuses
  <2>3. appDecision' = [is |-> "canceled", by |-> p, path |-> "cancel", held |-> FALSE]
    BY <2>1, <2>2 DEF AppCancel
  <2>4. appDecision'.is = "canceled" /\ appDecision' # AppUndecided
    BY <2>3 DEF AppUndecided
  <2>5. AppShape' /\ AppRow' /\ AppTwoPeople' /\ AppRequesterHears'
    BY <1>1, <1>2, <2>2, <2>4 DEF AppInv, AppShape, AppRow, AppTwoPeople, AppRequesterHears
  <2>6. QED
    BY <1>3, <2>5 DEF AppInv
<1>5. CASE (\E p \in AppPeople, way \in AppWays : AppRevoke(p, way)) \/ AppTime
  <2>1. /\ UNCHANGED <<appMailed, appDecision>>
        /\ appRow'.status = appRow.status
             \/ (appRow.status \in {"completed", "partially_completed"}
                 /\ appRow'.status = "revoking")
    BY <1>5 DEF AppRevoke, AppRevokable, AppTime, AppInv, AppShape, AppRowType
  <2>2. AppShape' /\ AppRow' /\ AppTwoPeople' /\ AppRequesterHears'
    BY <1>1, <1>2, <2>1
       DEF AppInv, AppShape, AppRow, AppTwoPeople, AppRequesterHears, AppRequester
  <2>3. QED
    BY <1>3, <2>2 DEF AppInv
<1>6. CASE AppBuy
  <2>1. /\ appRow.status \in {"approved", "scheduled"} /\ appRow'.status = "completed"
        /\ appDecision' = appDecision
        /\ appRow.status = "approved" /\ appDecision.path # "message"
              => AppExecutedTo \subseteq appMailed'
    BY <1>6 DEF AppBuy, AppInv, AppShape, AppRowType
  <2>2. AppShape' /\ AppRow' /\ AppTwoPeople'
    BY <1>1, <1>2, <2>1 DEF AppInv, AppShape, AppRow, AppTwoPeople
  <2>3. AppRequesterHears'
    BY <1>2, <2>1 DEF AppInv, AppRow, AppRequesterHears, AppRequester, AppExecutedTo
  <2>4. QED
    BY <1>3, <2>2, <2>3 DEF AppInv
<1>7. QED
  BY <1>4, <1>5, <1>6

\* A policy that is changed holds for no request it was off for.
LEMMA AppChangeStep ==
    ASSUME AppInv, AppChange
    PROVE  AppInv'
<1>1. /\ UNCHANGED <<appRow, appMailed, appDecision>> /\ appTwo' \in BOOLEAN
      /\ appReq' = [p \in AppPeople |->
                      IF appReq[p] = AppIdle THEN AppIdle
                      ELSE [appReq[p] EXCEPT !.held = @ /\ appTwo']]
  BY DEF AppChange, AppInv, AppShape
<1>2. ASSUME NEW p \in AppPeople, appReq[p] # AppIdle
      PROVE  /\ appReq'[p] \in AppReqType /\ appReq'[p].at = appReq[p].at
             /\ appReq'[p].held => (appReq[p].held /\ appTwo')
  <2>1. /\ appReq[p] \in AppReqType /\ DOMAIN appReq[p] = {"at", "path", "session", "held"}
    BY <1>2, AppReqFacts DEF AppInv
  <2> DEFINE held == appReq[p].held /\ appTwo'
  <2>2. held \in BOOLEAN
    OBVIOUS
  <2>3. appReq'[p] = [appReq[p] EXCEPT !.held = held]
    BY <1>1, <1>2
  <2> HIDE DEF held
  <2>4. appReq'[p] \in AppReqType /\ appReq'[p].at = appReq[p].at /\ appReq'[p].held = held
    BY <2>1, <2>2, <2>3 DEF AppReqType
  <2>5. held => (appReq[p].held /\ appTwo')
    BY DEF held
  <2>6. QED
    BY <2>4, <2>5
<1>3. \A p \in AppPeople : appReq[p] = AppIdle => appReq'[p] = AppIdle
  BY <1>1
<1>4. appReq' \in [AppPeople -> {AppIdle} \cup AppReqType]
  <2>1. \A p \in AppPeople : appReq'[p] \in {AppIdle} \cup AppReqType
    BY <1>2, <1>3
  <2>2. appReq' = [p \in AppPeople |-> appReq'[p]]
    BY <1>1
  <2>3. QED
    BY <2>1, <2>2
<1>5. AppShape'
  BY <1>1, <1>4 DEF AppInv, AppShape
<1>6. AppHolds'
  BY <1>1, <1>2, <1>3 DEF AppInv, AppHolds
<1>7. AppRow' /\ AppTwoPeople' /\ AppRequesterHears'
  BY <1>1 DEF AppInv, AppRow, AppTwoPeople, AppRequesterHears, AppRequester
<1>8. QED
  BY <1>5, <1>6, <1>7 DEF AppInv

\* Under a policy that is on throughout, nobody approves the own purchase; a row is
\* decided once; and whoever asked hears of it (approvePurchase, ApproveAndExecute,
\* cancelPurchase), whatever else is read and changed in between, for any people.
THEOREM ApprovalsSound == AppSpec => []AppSound
<1>1. AppInit => AppInv
  BY DEF AppInit, AppInv, AppShape, AppHolds, AppRow, AppTwoPeople, AppRequesterHears,
         AppRowType, AppStatuses, AppUndecided
<1>2. AppInv /\ [AppNext]_appVars => AppInv'
  <2> SUFFICES ASSUME AppInv, [AppNext]_appVars PROVE AppInv'
    OBVIOUS
  <2>1. CASE AppNext
    BY <2>1, AppAskStep, AppCheckStep, AppDecideStep, AppRowStep, AppChangeStep DEF AppNext
  <2>2. CASE UNCHANGED appVars
    BY <2>2 DEF appVars, AppInv, AppShape, AppHolds, AppRow, AppTwoPeople, AppRequesterHears,
                AppRequester
  <2>3. QED
    BY <2>1, <2>2
<1>3. AppInv => AppSound
  BY DEF AppInv, AppShape, AppRow, AppSound, AppDecidedOnce
<1>4. QED
  BY <1>1, <1>2, <1>3, PTL DEF AppSpec

-----------------------------------------------------------------------------
(* ApiUsage: every use of a key is counted once, and what is counted in memory *)
(* has somebody to write it down.                                              *)

UseStages == {"new", "round", "waiting", "peek", "done"}
UseSeen == {r \in UseRequests : usePc[r] # "new"}

UseShape ==
    /\ usePending \in Nat /\ useStored \in Nat /\ useLost \in Nat
    /\ useFlight.delta \in Nat /\ useFlight.drained \in BOOLEAN
    /\ useFlight = [delta |-> useFlight.delta, drained |-> useFlight.drained,
                    members |-> useFlight.members]
    /\ usePc \in [UseRequests -> UseStages]
    /\ useLeft \in [UseRequests -> 0..UseRounds]

\* Finitely many requests were booked at any time, although any number may be.
UseFinite == IsFiniteSet(UseSeen)

\* A flush that has not drained the counter carries nothing, and its callers are
\* those who wait for it.
UseFlightHeld ==
    /\ ~useFlight.drained => useFlight.delta = 0
    /\ useFlight.members = {r \in UseRequests : usePc[r] = "waiting"}

\* Who has rounds left: all of them before the first, one before each.
UseRoundsLeft ==
    \A r \in UseRequests :
        /\ usePc[r] = "new" => useLeft[r] = UseRounds
        /\ usePc[r] = "round" => useLeft[r] >= 1

\* A goroutine that will still flush the counter. Once the flush in flight has
\* drained it, only who has a round left when that flush lands.
UseFlusher ==
    usePending > 0 => \E r \in UseRequests :
        IF useFlight.drained
        THEN \/ usePc[r] = "round" /\ useLeft[r] >= 2
             \/ usePc[r] = "waiting" /\ useLeft[r] >= 1
        ELSE \/ usePc[r] \in {"round", "waiting"}
             \/ usePc[r] = "peek" /\ useLeft[r] >= 1

UseInv == UseShape /\ UseFinite /\ UseFlightHeld /\ UseRoundsLeft /\ UseFlusher /\ UseCountedOnce

\* No request has been made.
LEMMA UseStarts == UseInit => UseInv
<1> SUFFICES ASSUME UseInit PROVE UseInv
  OBVIOUS
<1>1. UseSeen = {}
  BY DEF UseInit, UseSeen
<1>2. UseFinite /\ UseCountedOnce
  BY <1>1, FS_EmptySet DEF UseFinite, UseCountedOnce, UseBooked, UseSeen, UseInit, UseLanded
<1>3. UseShape /\ UseFlightHeld /\ UseRoundsLeft /\ UseFlusher
  BY UseAssumption DEF UseInit, UseLanded, UseShape, UseStages, UseFlightHeld, UseRoundsLeft,
                       UseFlusher
<1>4. QED
  BY <1>2, <1>3 DEF UseInv

\* Each step of a request or of a flush keeps the books.
LEMMA UseStaysSound == UseInv /\ [UseNext]_useVars => UseInv'
<1> SUFFICES ASSUME UseInv, [UseNext]_useVars PROVE UseInv'
  OBVIOUS
<1> USE DEF UseInv
<1> USE UseAssumption
<1>1. CASE UNCHANGED useVars
  BY <1>1 DEF useVars, UseShape, UseFinite, UseSeen, UseFlightHeld, UseRoundsLeft, UseFlusher,
              UseCountedOnce, UseBooked
<1>2. CASE UseDrain
  <2>1. UseShape'
    BY <1>2 DEF UseDrain, UseShape
  <2>2. UseFlightHeld' /\ UseRoundsLeft' /\ UseFlusher'
    BY <1>2 DEF UseDrain, UseShape, UseFlightHeld, UseRoundsLeft, UseFlusher
  <2>3. UseFinite' /\ UseCountedOnce'
    BY <1>2 DEF UseDrain, UseShape, UseFlightHeld, UseFinite, UseSeen, UseCountedOnce, UseBooked
  <2>4. QED
    BY <2>1, <2>2, <2>3
<1>3. CASE UseLand
  <2>1. UseShape'
    BY <1>3 DEF UseLand, UseLanded, UseShape, UseStages
  <2>2. UseFlightHeld' /\ UseRoundsLeft' /\ UseFlusher'
    BY <1>3 DEF UseLand, UseLanded, UseShape, UseStages, UseFlightHeld, UseRoundsLeft, UseFlusher
  <2>3. UseSeen' = UseSeen
    BY <1>3 DEF UseLand, UseSeen, UseFlightHeld
  <2>4. /\ usePending' = usePending /\ useFlight'.delta = 0
        /\ useStored' + useLost' = useFlight.delta + useStored + useLost
    BY <1>3 DEF UseLand, UseLanded, UseShape
  <2>5. UseBooked' = UseBooked /\ UseFinite'
    BY <2>3 DEF UseFinite, UseSeen, UseBooked
  <2>6. UseCountedOnce'
    BY <2>1, <2>4, <2>5 DEF UseShape, UseCountedOnce
  <2>7. QED
    BY <2>1, <2>2, <2>5, <2>6
<1>4. ASSUME NEW r \in UseRequests, UseBook(r) PROVE UseInv'
  <2>1. UseShape'
    BY <1>4 DEF UseBook, UseShape, UseStages
  <2>2. UseFlightHeld' /\ UseRoundsLeft'
    BY <1>4 DEF UseBook, UseShape, UseStages, UseFlightHeld, UseRoundsLeft
  <2>3. UseFlusher'
    BY <1>4 DEF UseBook, UseShape, UseStages, UseRoundsLeft, UseFlusher
  <2>4. UseSeen' = UseSeen \cup {r} /\ r \notin UseSeen
    BY <1>4 DEF UseBook, UseShape, UseSeen
  <2>5. IsFiniteSet(UseSeen') /\ Cardinality(UseSeen') = Cardinality(UseSeen) + 1
    BY <2>4, FS_AddElement DEF UseFinite
  <2>6. UseFinite' /\ UseCountedOnce'
    BY <1>4, <2>5 DEF UseBook, UseShape, UseFinite, UseCountedOnce, UseBooked, UseSeen
  <2>7. QED
    BY <2>1, <2>2, <2>3, <2>6
<1>5. ASSUME NEW r \in UseRequests, UseDo(r) PROVE UseInv'
  <2>1. UseShape'
    <3>1. /\ usePending' = usePending /\ useStored' = useStored /\ useLost' = useLost
          /\ useFlight' = [delta |-> useFlight.delta, drained |-> useFlight.drained,
                           members |-> useFlight.members \cup {r}]
      BY <1>5 DEF UseDo, UseShape
    <3>2. usePc' \in [UseRequests -> UseStages]
      BY <1>5 DEF UseDo, UseShape, UseStages
    <3>3. useLeft[r] \in 1..UseRounds
      BY <1>5 DEF UseDo, UseShape, UseRoundsLeft
    <3>4. useLeft' \in [UseRequests -> 0..UseRounds]
      BY <1>5, <3>3 DEF UseDo, UseShape
    <3>5. QED
      BY <3>1, <3>2, <3>4 DEF UseShape
  <2>2. UseFlightHeld' /\ UseRoundsLeft'
    BY <1>5 DEF UseDo, UseShape, UseStages, UseFlightHeld, UseRoundsLeft
  <2>3. UseFlusher'
    BY <1>5 DEF UseDo, UseShape, UseStages, UseFlightHeld, UseRoundsLeft, UseFlusher
  <2>4. UseSeen' = UseSeen
    BY <1>5 DEF UseDo, UseShape, UseSeen
  <2>5. UseFinite' /\ UseCountedOnce'
    BY <1>5, <2>4 DEF UseDo, UseShape, UseFinite, UseCountedOnce, UseBooked, UseSeen
  <2>6. QED
    BY <2>1, <2>2, <2>3, <2>5
<1>6. ASSUME NEW r \in UseRequests, UsePeek(r) PROVE UseInv'
  <2>1. UseShape'
    BY <1>6 DEF UsePeek, UseShape, UseStages
  <2>2. UseFlightHeld' /\ UseRoundsLeft'
    BY <1>6 DEF UsePeek, UseStays, UseShape, UseStages, UseFlightHeld, UseRoundsLeft
  <2>3. UseFlusher'
    BY <1>6 DEF UsePeek, UseStays, UseShape, UseStages, UseFlusher
  <2>4. UseSeen' = UseSeen
    BY <1>6 DEF UsePeek, UseShape, UseSeen
  <2>5. UseFinite' /\ UseCountedOnce'
    BY <1>6, <2>4 DEF UsePeek, UseShape, UseFinite, UseCountedOnce, UseBooked, UseSeen
  <2>6. QED
    BY <2>1, <2>2, <2>3, <2>5
<1>7. QED
  BY <1>1, <1>2, <1>3, <1>4, <1>5, <1>6 DEF UseNext

\* Every use of a key is counted exactly once, pending, in flight, stored or dropped
\* with a failed write, and a pending count has a goroutine that has rounds enough to
\* flush it (RecordUsageAsync, flushPendingUsage): for any number of requests and any
\* bound of two rounds or more.
THEOREM BooksSound == UseSpec => []UseBooksSound
<1>1. UseInv => UseBooksSound
  BY DEF UseInv, UseFlusher, UseBooksSound, UseNothingStranded
<1>2. QED
  BY UseStarts, UseStaysSound, <1>1, PTL DEF UseSpec

-----------------------------------------------------------------------------
(* AccountCredentials: a test that passes is worth something, and who collects    *)
(* is who buys.                                                                   *)

CrdClouds == {"aws", "azure", "gcp"}

\* A row that was let through: its mode is one of its cloud's, or none.
CrdLetThrough(row) ==
    \/ row.cloud = "aws" /\ row.mode \in CrdModes.aws \cup {""}
    \/ row.cloud = "azure" /\ row.mode \in CrdModes.azure \cup {""}
    \/ row.cloud = "gcp" /\ row.mode \in CrdModes.gcp \cup {""}

\* What is stored has a type, and the row, and the copy of it under test, were let
\* through.
CrdInv ==
    /\ crdStored \subseteq CrdTypes
    /\ crdRow # CrdNoRow => CrdLetThrough(crdRow)
    /\ crdTest.at # "idle" => CrdLetThrough(crdTest.row)

\* Validation holds the mode against the modes of the cloud.
LEMMA CrdValidRow ==
    ASSUME NEW row, row.cloud \in DOMAIN CrdModes, CrdValid(row)
    PROVE  CrdLetThrough(row)
<1>1. DOMAIN CrdModes = CrdClouds
  BY DEF CrdModes, CrdClouds
<1>2. row.mode \in CrdModes[row.cloud] \cup {""}
  BY DEF CrdValid
<1>3. QED
  BY <1>1, <1>2 DEF CrdLetThrough, CrdClouds

\* A test that says yes says it of a row whose credentials a purchase can load.
LEMMA CrdYes ==
    ASSUME CrdInv, CrdNext, crdTest.at = "check", crdTest'.at = "answered", crdTest'.ok,
           CrdFilled(crdTest.row)
    PROVE  CrdPurchase(crdTest.row, crdStored) # "none"
<1> DEFINE row == crdTest.row
<1>1. CrdLetThrough(row) /\ "" \notin crdStored
  BY DEF CrdInv, CrdTypes
<1>2. CASE CrdTestAmbient
  <2>1. CrdKnowsAmbient(row) /\ CrdAmbientOK(row)
    BY <1>2 DEF CrdTestAmbient, CrdAnswer
  <2> HIDE DEF row
  <2>2. CASE row.cloud = "aws"
    <3>1. CrdResolveAWS(row, crdStored, "host") # "none"
      BY <2>1, <2>2 DEF row, CrdKnowsAmbient, CrdAmbientOK, CrdFilled, CrdResolveAWS,
         CrdRole, CrdBastion, CrdWebIdentity, CrdWif
    <3>2. QED
      BY <2>2, <3>1 DEF row, CrdPurchase
  <2>3. CASE row.cloud # "aws"
    <3>1. \/ row.cloud = "azure" /\ row.mode = "managed_identity"
          \/ row.cloud = "gcp" /\ row.mode = "application_default"
      BY <2>1, <2>3 DEF CrdKnowsAmbient
    <3>2. row.mode = "managed_identity" => CrdResolveAzure(row, crdStored) = "host"
      BY DEF CrdResolveAzure, CrdWif
    <3>3. row.mode = "application_default" => CrdResolveGCP(row, crdStored) = "host"
      BY DEF CrdResolveGCP, CrdWif
    <3>4. QED
      BY <3>1, <3>2, <3>3 DEF row, CrdPurchase
  <2>4. QED
    BY <2>2, <2>3
<1>3. ASSUME NEW accepted \in BOOLEAN, NEW failed \in BOOLEAN, CrdTestExchange(accepted, failed)
      PROVE  CrdPurchase(row, crdStored) # "none"
  <2>1. \/ CrdKnowsAzureFederated(row) /\ CrdAzureFederated(row) # "none"
        \/ CrdKnowsGCPFederated(row, failed) /\ CrdGCPFederated(row) # "none"
    <3>1. ASSUME NEW ok \in BOOLEAN, CrdAnswer(ok) PROVE ok
      <4>1. crdTest'.ok = ok
        BY <3>1 DEF CrdAnswer
      <4>2. QED
        BY <4>1
    <3>2. /\ CrdAnswer(CrdAzureFederated(row) # "none" /\ accepted) => CrdAzureFederated(row) # "none"
          /\ CrdAnswer(CrdGCPFederated(row) # "none" /\ accepted) => CrdGCPFederated(row) # "none"
      <4> DEFINE azure == CrdAzureFederated(row) # "none" /\ accepted
                 gcp == CrdGCPFederated(row) # "none" /\ accepted
      <4>1. azure \in BOOLEAN /\ gcp \in BOOLEAN
        OBVIOUS
      <4>2. (azure => CrdAzureFederated(row) # "none") /\ (gcp => CrdGCPFederated(row) # "none")
        OBVIOUS
      <4> HIDE DEF azure, gcp
      <4>3. (CrdAnswer(azure) => azure) /\ (CrdAnswer(gcp) => gcp)
        BY <3>1, <4>1
      <4>4. QED
        BY <4>2, <4>3 DEF azure, gcp
    <3>3. QED
      BY <1>3, <3>2 DEF CrdTestExchange
  <2> HIDE DEF row
  <2>2. CASE CrdKnowsAzureFederated(row) /\ CrdAzureFederated(row) # "none"
    BY <2>2 DEF CrdKnowsAzureFederated, CrdPurchase, CrdResolveAzure, CrdWif
  <2>3. CASE CrdKnowsGCPFederated(row, failed) /\ CrdGCPFederated(row) # "none"
    BY <2>3 DEF CrdKnowsGCPFederated, CrdPurchase, CrdResolveGCP, CrdGCPWif, CrdWif
  <2>4. QED
    BY <2>1, <2>2, <2>3
<1>4. ASSUME NEW failed \in BOOLEAN, CrdTestPresence(failed)
      PROVE  CrdPurchase(row, crdStored) # "none"
  <2>1. /\ ~CrdKnowsAmbient(row) /\ CrdTypeFor(row) \in crdStored
    BY <1>4 DEF CrdTestPresence, CrdAnswer
  <2>2. CrdFilled(row)
    OBVIOUS
  <2> HIDE DEF row
  <2>3. CASE row.cloud = "aws"
    <3>1. row.mode = "access_keys"
      BY <1>1, <2>1, <2>2, <2>3 DEF CrdLetThrough, CrdModes, CrdKnowsAmbient, CrdFilled, CrdWif
    <3>2. "aws_access_keys" \in crdStored
      BY <2>1, <2>3 DEF CrdTypeFor
    <3>3. QED
      BY <2>3, <3>1, <3>2 DEF CrdPurchase, CrdResolveAWS, CrdAccessKeys, CrdWif
  <2>4. CASE row.cloud = "azure"
    <3>1. row.mode # CrdWif /\ row.mode # "managed_identity"
      BY <1>1, <2>1, <2>4 DEF CrdKnowsAmbient, CrdTypeFor
    <3>2. "azure_client_secret" \in crdStored
      BY <2>1, <2>4, <3>1 DEF CrdTypeFor
    <3>3. {"tenant", "client"} \subseteq row.has
      BY <2>2, <2>4, <3>1 DEF CrdFilled
    <3>4. QED
      BY <2>4, <3>1, <3>2, <3>3 DEF CrdPurchase, CrdResolveAzure, CrdAzureSecret
  <2>5. CASE row.cloud = "gcp"
    <3>1. row.mode # "application_default"
      BY <2>1, <2>5 DEF CrdKnowsAmbient
    <3>2. CASE row.mode = CrdWif
      <4>1. "gcp_workload_identity_config" \in crdStored
        BY <2>1, <2>5, <3>2 DEF CrdTypeFor
      <4>2. QED
        BY <2>5, <3>1, <3>2, <4>1 DEF CrdPurchase, CrdResolveGCP, CrdGCPWif, CrdStoredGCP
    <3>3. CASE row.mode # CrdWif
      <4>1. "gcp_service_account" \in crdStored
        BY <2>1, <2>5, <3>3 DEF CrdTypeFor
      <4>2. QED
        BY <2>5, <3>1, <3>3, <4>1 DEF CrdPurchase, CrdResolveGCP, CrdStoredGCP
    <3>4. QED
      BY <3>2, <3>3
  <2>6. QED
    BY <1>1, <2>3, <2>4, <2>5 DEF CrdLetThrough
<1>5. QED
  <2>1. ~CrdReadRow /\ ~CrdForget
    BY DEF CrdReadRow, CrdForget, CrdIdle
  <2>2. crdTest' # crdTest
    OBVIOUS
  <2>3. \/ CrdTestAmbient
        \/ \E accepted, failed \in BOOLEAN : CrdTestExchange(accepted, failed)
        \/ \E failed \in BOOLEAN : CrdTestPresence(failed)
    BY <2>1, <2>2 DEF CrdNext, CrdCreate, CrdUpdate, CrdCreateSelf, CrdWrite, CrdDiscover,
       CrdDelete, CrdSave
  <2>4. QED
    BY <1>2, <1>3, <1>4, <2>3

\* Collection and purchase resolve a row alike, but for the ambient identity.
LEMMA CrdAlike ==
    ASSUME NEW row, NEW stored, CrdLetThrough(row), row.cloud = "aws" => "role" \in row.has
    PROVE  CrdCollect(row, stored) \in {"none", CrdPurchase(row, stored)}
<1>1. CASE row.cloud = "aws"
  <2>1. CrdResolveAWS(row, stored, "none") = CrdResolveAWS(row, stored, "host")
    BY <1>1 DEF CrdResolveAWS, CrdRole
  <2>2. QED
    BY <1>1, <2>1 DEF CrdCollect, CrdCollectAWS, CrdPurchase
<1>2. CASE row.cloud = "azure"
  BY <1>2 DEF CrdCollect, CrdCollectAzure, CrdPurchase
<1>3. CASE row.cloud = "gcp"
  BY <1>3 DEF CrdCollect, CrdCollectGCP, CrdPurchase
<1>4. QED
  BY <1>1, <1>2, <1>3 DEF CrdLetThrough

\* Every write is validated, made here, or discovered.
LEMMA CrdStays == CrdInv /\ [CrdNext]_crdVars => CrdInv'
<1> SUFFICES ASSUME CrdInv, [CrdNext]_crdVars PROVE CrdInv'
  OBVIOUS
<1>1. CASE UNCHANGED crdVars
  BY <1>1 DEF CrdInv, crdVars
<1>2. ASSUME NEW row, CrdLetThrough(row), crdRow' = row, UNCHANGED <<crdStored, crdEnv, crdTest>>
      PROVE  CrdInv'
  BY <1>2 DEF CrdInv
<1>3. CASE \E row \in CrdRows : CrdCreate(row) \/ CrdUpdate(row)
  <2>1. PICK row \in CrdRows : CrdWrite(row)
    BY <1>3 DEF CrdCreate, CrdUpdate
  <2>2. row.cloud \in DOMAIN CrdModes
    BY CrdRowsAssumption
  <2>3. QED
    BY <1>2, <2>1, <2>2, CrdValidRow DEF CrdWrite
<1>4. CASE \E cloud \in DOMAIN CrdModes : CrdCreateSelf(cloud)
  <2>1. PICK cloud \in DOMAIN CrdModes : CrdWrite(CrdSelf(cloud))
    BY <1>4 DEF CrdCreateSelf
  <2>2. cloud \in CrdClouds
    BY DEF CrdModes, CrdClouds
  <2>3. CrdLetThrough(CrdSelf(cloud))
    BY <2>2 DEF CrdSelf, CrdClouds, CrdLetThrough, CrdModes
  <2>4. QED
    BY <1>2, <2>1, <2>3 DEF CrdWrite
<1>5. CASE CrdDiscover
  <2>1. CrdLetThrough(CrdMember)
    BY DEF CrdMember, CrdLetThrough
  <2>2. QED
    BY <1>2, <1>5, <2>1 DEF CrdDiscover
<1>6. CASE CrdDelete
  BY <1>6 DEF CrdDelete, CrdInv, CrdTypes
<1>7. CASE \E type \in CrdTypes : CrdSave(type)
  BY <1>7 DEF CrdSave, CrdInv
<1>8. CASE CrdReadRow
  BY <1>8 DEF CrdReadRow, CrdInv
<1>9. CASE CrdForget
  BY <1>9 DEF CrdForget, CrdInv, CrdIdle
<1>10. ASSUME NEW ok, crdTest.at = "check", CrdAnswer(ok) PROVE CrdInv'
  BY <1>10 DEF CrdAnswer, CrdInv
<1>11. CASE CrdTestAmbient
  BY <1>10, <1>11 DEF CrdTestAmbient
<1>12. CASE \E accepted, failed \in BOOLEAN : CrdTestExchange(accepted, failed)
  BY <1>10, <1>12 DEF CrdTestExchange
<1>13. CASE \E failed \in BOOLEAN : CrdTestPresence(failed)
  BY <1>10, <1>13 DEF CrdTestPresence
<1>14. QED
  BY <1>1, <1>3, <1>4, <1>5, <1>6, <1>7, <1>8, <1>9, <1>11, <1>12, <1>13 DEF CrdNext

\* A passed test means that the purchase has credentials to load, and collection and
\* purchase act as one identity (testAccountCredentials, resolveAccountProvider): for
\* every row the forms and the API can write, in any order of writes and reads.
THEOREM CredentialsHonest == CrdSpec => CrdHonest
<1>1. CrdInit => CrdInv
  <2> SUFFICES ASSUME CrdInit PROVE CrdInv
    OBVIOUS
  <2>1. crdTest.at = "idle"
    BY DEF CrdInit, CrdIdle
  <2>2. QED
    BY <2>1 DEF CrdInit, CrdInv
<1>2. CrdInv => CrdSameIdentity
  BY CrdAlike DEF CrdInv, CrdSameIdentity
<1>3. CrdInv /\ [CrdNext]_crdVars =>
        [crdTest.at = "check" /\ crdTest'.at = "answered" /\ crdTest'.ok /\ CrdFilled(crdTest.row)
           => CrdPurchase(crdTest.row, crdStored) # "none"]_crdVars
  <2>1. CrdInv /\ CrdNext =>
          (crdTest.at = "check" /\ crdTest'.at = "answered" /\ crdTest'.ok /\ CrdFilled(crdTest.row)
             => CrdPurchase(crdTest.row, crdStored) # "none")
    BY CrdYes
  <2>2. QED
    BY <2>1
<1>4. QED
  BY <1>1, <1>2, <1>3, CrdStays, PTL DEF CrdSpec, CrdHonest, CrdTestKept

=============================================================================

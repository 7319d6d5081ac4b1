--------------------------------- MODULE Ladder ---------------------------------
(* The commitment ladder of one account. A scheduled run compares the usage   *)
(* floor with what is committed and what earlier runs have scheduled, and     *)
(* schedules the difference as tranches; nothing fires them yet. Amounts are  *)
(* in cents per hour, the least amount that is allocated; the code's exact    *)
(* fractions of a cent are rounded down. One tick is ten hours.               *)
EXTENDS Integers, Sequences, FiniteSets, FiniteSetsExt, Functions

CONSTANTS
    LadRunners,     \* invocations of the ladder_run task
    LadConfigs,     \* configurations an administrator may save
    LadFloors,      \* low-water readings of the usage
    LadHeld,        \* commitments in force, less what is about to expire
    LadChanges,     \* bound on edits and changes of the environment
    LadUnknown      \* the usage could not be measured

\* A configuration is validated before it is saved: percentages, a ramp with a
\* step, a base layer that is not everything, no cap or a positive one.
ASSUME LadAssumption ==
    /\ LadFloors \subseteq Nat /\ LadHeld \subseteq Nat /\ LadChanges \in Nat
    /\ LadUnknown \notin LadFloors
    /\ \A cfg \in LadConfigs :
          /\ {cfg.target, cfg.buffer, cfg.cap} \subseteq Nat /\ cfg.buffer < 100
          /\ cfg.ramp \in Seq([afterDays : Nat, percent : Nat]) /\ cfg.ramp # <<>>

VARIABLES ladCfg, ladEnv, ladSched, ladAge, ladLock, ladRun, ladLost, ladLeft
ladVars == <<ladCfg, ladEnv, ladSched, ladAge, ladLock, ladRun, ladLost, ladLeft>>

Buffer == "convertible_ri"
Flex == "compute_sp"
LadLayers == {Buffer, Flex}

LadTotal(amounts) == FoldFunction(+, 0, amounts)
LadLesser(a, b) == IF a <= b THEN a ELSE b

\* The daily and the weekly threshold; an older run is as good as none.
CadenceTicks(cadence) == IF cadence = "daily" THEN 2 ELSE 4
LadAgeless == 5

LadIdle == [stage |-> "idle"]
LadBusy(r) == ladRun[r] # LadIdle

LadInit ==
    /\ ladCfg \in LadConfigs
    /\ ladEnv \in [low : LadFloors \cup {LadUnknown}, net : LadHeld, idle : BOOLEAN]
    /\ ladSched = [l \in LadLayers |-> 0]       \* scheduled tranches, by layer
    /\ ladAge = LadAgeless                      \* ticks since the latest run started
    /\ ladLock = {}                             \* the holder of the task's lock
    /\ ladRun = [r \in LadRunners |-> LadIdle]
    /\ ladLost = FALSE                          \* a session, and its lock, was lost
    /\ ladLeft = LadChanges

------------------------------------------------------------------------------
(* The plan of one run.                                                        *)

LadTarget(cfg, low) == (low * cfg.target) \div 100

\* Mutant: the tranches already scheduled are not netted.
LadGapGross(in) == LadLesser(LadTarget(in.cfg, in.low), in.low) - in.net

\* Allocate: what is missing, net of the tranches that have not fired.
LadGap(in) == LadLesser(LadTarget(in.cfg, in.low), in.low) - in.net - in.inFlight

\* splitGap: the base layer gets nothing while stable usage is not measured.
LadSplit(cfg, gap) ==
    LET buffer == (gap * cfg.buffer) \div 100
    IN [l \in LadLayers |-> IF l = Buffer THEN buffer ELSE gap - buffer]

\* applyCapGuardrail scales all layers alike; a cap of 0 stands for none.
LadCapped(cfg, amounts) ==
    LET total == LadTotal(amounts)
    IN IF cfg.cap = 0 \/ total <= cfg.cap THEN amounts
       ELSE [l \in LadLayers |-> (amounts[l] * cfg.cap) \div total]

\* truncateToMaxActions: a reshape of an idle buffer goes first, then the
\* largest purchases; what is left over is deferred to a later run.
LadKept(in, amounts) ==
    LET slots == in.cfg.maxActions - (IF in.idle THEN 1 ELSE 0)
        bought == {l \in LadLayers : amounts[l] > 0}
        ahead(l) == {k \in bought : amounts[k] > amounts[l]
                                     \/ (amounts[k] = amounts[l] /\ k = Flex /\ l = Buffer)}
    IN [l \in LadLayers |-> IF Cardinality(ahead(l)) < slots THEN amounts[l] ELSE 0]

Allocate(in) ==
    IF in.low = LadUnknown \/ LadGap(in) <= 1 THEN [l \in LadLayers |-> 0]
    ELSE LadKept(in, LadCapped(in.cfg, LadSplit(in.cfg, LadGap(in))))

\* computeStepAmount: each step its fraction, the last one what is left.
LadStepSum(ramp, amount) ==
    LET upTo[i \in 0 .. Len(ramp)] ==
            IF i = 0 THEN 0
            ELSE IF i = Len(ramp) THEN amount
            ELSE upTo[i - 1] + LadLesser((amount * ramp[i].percent) \div 100,
                                         amount - upTo[i - 1])
    IN upTo

\* BuildTranches: a step of day zero is a purchase to make now, which the plan
\* shows and nothing makes; every later step becomes a scheduled tranche.
LadTranches(ramp, amount) ==
    IF ramp[1].afterDays = 0 THEN amount - LadStepSum(ramp, amount)[1] ELSE amount

------------------------------------------------------------------------------
\* handleLadderRun: the lock, the kill switch and the configurations; "now" is
\* taken here. A disabled configuration is skipped.
LadBegin(r) ==
    /\ ~LadBusy(r) /\ ladLock = {} /\ ladCfg.enabled
    /\ ladLock' = {r}
    /\ ladRun' = [ladRun EXCEPT ![r] = [stage |-> "gate", cfg |-> ladCfg, age |-> 0]]
    /\ UNCHANGED <<ladCfg, ladEnv, ladSched, ladAge, ladLost, ladLeft>>

LadEnd(r) ==
    /\ ladRun' = [ladRun EXCEPT ![r] = LadIdle]
    /\ ladLock' = ladLock \ {r}

LadWithin(r) == ladAge - ladRun[r].age < CadenceTicks(ladRun[r].cfg.cadence)

LadPass(r) ==
    /\ ladRun' = [ladRun EXCEPT ![r].stage = "read"]
    /\ UNCHANGED <<ladLock, ladCfg, ladEnv, ladSched, ladAge, ladLost, ladLeft>>

\* Mutant: a failed look-up of the latest run lets the run proceed.
LadGateOpen(r) == \E found \in BOOLEAN :
    /\ ladRun[r].stage = "gate"
    /\ IF found /\ LadWithin(r)
       THEN LadEnd(r) /\ UNCHANGED <<ladCfg, ladEnv, ladSched, ladAge, ladLost, ladLeft>>
       ELSE LadPass(r)

\* ladderWithinCadenceWindow: a failed look-up counts as an error of the run.
LadGate(r) == \E found \in BOOLEAN :
    /\ ladRun[r].stage = "gate"
    /\ IF ~found \/ LadWithin(r)
       THEN LadEnd(r) /\ UNCHANGED <<ladCfg, ladEnv, ladSched, ladAge, ladLost, ladLeft>>
       ELSE LadPass(r)

\* executeLadderRun reads the usage, the layers and the scheduled tranches.
LadRead(r) ==
    /\ ladRun[r].stage = "read"
    /\ ladRun' = [ladRun EXCEPT ![r] = [stage |-> "save", cfg |-> @.cfg, age |-> @.age,
            low |-> ladEnv.low, net |-> ladEnv.net, idle |-> ladEnv.idle,
            inFlight |-> LadTotal(ladSched)]]
    /\ UNCHANGED <<ladCfg, ladEnv, ladSched, ladAge, ladLock, ladLost, ladLeft>>

LadAdded(r) == LET plan == Allocate(ladRun[r])
               IN [l \in LadLayers |-> LadTranches(ladRun[r].cfg.ramp, plan[l])]

\* Mutant: the tranches of earlier runs are cancelled and replaced.
LadSaveReplaces(r) ==
    /\ ladRun[r].stage = "save"
    /\ ladSched' = LET added == LadAdded(r)
                   IN IF LadTotal(added) = 0 THEN ladSched ELSE added
    /\ ladAge' = LadLesser(ladAge, ladRun[r].age)
    /\ LadEnd(r)
    /\ UNCHANGED <<ladCfg, ladEnv, ladLost, ladLeft>>

\* SaveLadderRunWithTranches: the run and its tranches, in one transaction.
LadSave(r) ==
    /\ ladRun[r].stage = "save"
    /\ ladSched' = LET added == LadAdded(r)
                   IN [l \in LadLayers |-> ladSched[l] + added[l]]
    /\ ladAge' = LadLesser(ladAge, ladRun[r].age)
    /\ LadEnd(r)
    /\ UNCHANGED <<ladCfg, ladEnv, ladLost, ladLeft>>

\* A read or the transaction fails, or the process dies.
LadFail(r) ==
    /\ LadBusy(r)
    /\ LadEnd(r)
    /\ UNCHANGED <<ladCfg, ladEnv, ladSched, ladAge, ladLost, ladLeft>>

\* The database session that holds the lock drops; the run goes on.
LadLoseLock ==
    /\ ladLock # {} /\ ladLock' = {} /\ ladLost' = TRUE
    /\ UNCHANGED <<ladCfg, ladEnv, ladSched, ladAge, ladRun, ladLeft>>

\* A run is over well within two ticks.
LadTick ==
    /\ \A r \in LadRunners : LadBusy(r) => ladRun[r].age = 0
    /\ ladAge' = LadLesser(ladAge + 1, LadAgeless)
    /\ ladRun' = [r \in LadRunners |-> IF LadBusy(r) THEN [ladRun[r] EXCEPT !.age = 1]
                                                    ELSE LadIdle]
    /\ UNCHANGED <<ladCfg, ladEnv, ladSched, ladLock, ladLost, ladLeft>>

\* UpsertLadderConfig.
LadEdit ==
    /\ ladLeft > 0 /\ ladLeft' = ladLeft - 1
    /\ ladCfg' \in LadConfigs \ {ladCfg}
    /\ UNCHANGED <<ladEnv, ladSched, ladAge, ladLock, ladRun, ladLost>>

\* Usage, utilization and the commitments in force change at the provider.
LadDrift ==
    /\ ladLeft > 0 /\ ladLeft' = ladLeft - 1
    /\ ladEnv' \in [low : LadFloors \cup {LadUnknown}, net : LadHeld, idle : BOOLEAN]
    /\ UNCHANGED <<ladCfg, ladSched, ladAge, ladLock, ladRun, ladLost>>

LadNext ==
    \/ LadLoseLock \/ LadTick \/ LadEdit \/ LadDrift
    \/ \E r \in LadRunners :
          LadBegin(r) \/ LadGate(r) \/ LadRead(r) \/ LadSave(r) \/ LadFail(r)

\* The task is scheduled, time passes, and runs do not fail for ever.
LadFairness ==
    /\ WF_ladVars(LadTick)
    /\ \A r \in LadRunners :
          /\ SF_ladVars(LadBegin(r)) /\ SF_ladVars(LadRead(r))
          /\ WF_ladVars(LadGate(r)) /\ SF_ladVars(LadSave(r))
          /\ SF_ladVars(LadGate(r) /\ ladRun'[r] # LadIdle)

LadSpec == LadInit /\ [][LadNext]_ladVars /\ LadFairness

------------------------------------------------------------------------------
LadSaves(r) == LadBusy(r) /\ ladRun[r].stage = "save" /\ ladRun'[r] = LadIdle
               /\ ladSched' # ladSched

\* Repeated runs do not pile up: whatever a run schedules, all that is scheduled
\* then and all that it found committed stay within the usage floor and the target
\* it worked from, although its reads and its write are apart and the
\* configuration and the usage move in between; unless the lock was lost
\* (executeLadderRun, GetInFlightLadderCommitUSDHr).
LadNoPileUp ==
    [][\A r \in LadRunners : (LadSaves(r) /\ ~ladLost) =>
         LadTotal(ladSched') + ladRun[r].net
            <= LadLesser(ladRun[r].low, LadTarget(ladRun[r].cfg, ladRun[r].low))]_ladVars

\* The money of one cadence window is bounded: a run schedules at most its cap,
\* and no other run of the configuration started within the window of its cadence
\* (ladderWithinCadenceWindow, applyCapGuardrail); unless the lock was lost.
LadRateBounded ==
    [][\A r \in LadRunners : (LadSaves(r) /\ ~ladLost) =>
         /\ ladRun[r].cfg.cap # 0 =>
               LadTotal(ladSched') - LadTotal(ladSched) <= ladRun[r].cfg.cap
         /\ ladAge - ladRun[r].age >= CadenceTicks(ladRun[r].cfg.cadence)]_ladVars

\* Neither the schedule nor the rate at which it grows exceeds what the
\* configuration allows.
LadBounded == LadNoPileUp /\ LadRateBounded

LadShort == LadGap([cfg |-> ladCfg, low |-> ladEnv.low, net |-> ladEnv.net,
                    inFlight |-> LadTotal(ladSched)])

\* Once usage and configuration stand still, what is committed and scheduled
\* reaches the target to within the least amount that is allocated, through caps,
\* deferred layers, failed runs and steps of the ramp that are not scheduled
\* (persistLadderRun: cancelling and replacing was "never converging").
LadConverges == <>[](ladCfg.enabled /\ ladEnv.low # LadUnknown => LadShort <= 1)

\* "trancheRows carries exactly the delta needed to reach target-E"
\* (persistLadderRun): an uncapped run leaves nothing for the next one.
LadExactDelta ==
    [][\A r \in LadRunners : (LadSaves(r) /\ ~ladLost /\ ladRun[r].cfg.cap = 0
                                /\ ladRun[r].cfg.maxActions > 2) =>
         LadTotal(ladSched') + ladRun[r].net
            = LadLesser(ladRun[r].low, LadTarget(ladRun[r].cfg, ladRun[r].low))]_ladVars

=================================================================================

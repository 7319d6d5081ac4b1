------------------------------ MODULE MCRecovery ------------------------------
(* Small instances of the modules in which something must eventually happen:   *)
(* a failed write is made good, what waits is flushed, a goal is reached. They *)
(* share no state: a behaviour is one of any of the parts.                     *)
EXTENDS Revocation, ApiUsage, Ladder

VARIABLE part

recoveryVars == <<part, revVars, useVars, ladVars>>

(* The configurations a ladder may have. *)
LadStep(afterDays, percent) == [afterDays |-> afterDays, percent |-> percent]

LadSmall ==
    [enabled |-> TRUE, target |-> 100, buffer |-> 25, cap |-> 0, maxActions |-> 5,
     cadence |-> "daily", ramp |-> <<LadStep(0, 50), LadStep(30, 50)>>]

LadWeekly ==
    [LadSmall EXCEPT !.target = 50, !.cap = 3, !.maxActions = 2, !.cadence = "weekly",
                     !.ramp = <<LadStep(30, 60), LadStep(60, 40)>>]

LadConfigsMC == {LadSmall, LadWeekly, [LadSmall EXCEPT !.enabled = FALSE]}

\* A part that is not the one of this behaviour has one initial state.
RecoveryInit ==
    /\ part \in {"revocation", "usage", "ladder"}
    /\ RevInit /\ UseInit /\ LadInit
    /\ part # "ladder" => ladCfg = LadSmall /\ ladEnv = [low |-> LadUnknown, net |-> 0, idle |-> FALSE]

\* The behaviour is one of part p: the others stand still.
Only(p) ==
    /\ part = p
    /\ UNCHANGED part
    /\ IF p = "revocation" THEN TRUE ELSE UNCHANGED revVars
    /\ IF p = "usage" THEN TRUE ELSE UNCHANGED useVars
    /\ IF p = "ladder" THEN TRUE ELSE UNCHANGED ladVars

RecoveryNext ==
    \/ Only("revocation") /\ RevNext
    \/ Only("usage") /\ UseNext
    \/ Only("ladder") /\ LadNext

\* The fairness of each module, of its own behaviours: the actions of a part that
\* stands still are not owed a step.
RecoveryFairness ==
    /\ WF_recoveryVars(Only("revocation") /\ RevSweepList)
    /\ SF_recoveryVars(Only("revocation") /\ RevSweepMark)
    /\ WF_recoveryVars(Only("usage") /\ UseDrain)
    /\ WF_recoveryVars(Only("usage") /\ UseLand)
    /\ \A r \in UseRequests : /\ WF_recoveryVars(Only("usage") /\ UseDo(r))
                             /\ WF_recoveryVars(Only("usage") /\ UsePeek(r))
    /\ WF_recoveryVars(Only("ladder") /\ LadTick)
    /\ \A r \in LadRunners :
          /\ SF_recoveryVars(Only("ladder") /\ LadBegin(r))
          /\ SF_recoveryVars(Only("ladder") /\ LadRead(r))
          /\ WF_recoveryVars(Only("ladder") /\ LadGate(r))
          /\ SF_recoveryVars(Only("ladder") /\ LadSave(r))
          /\ SF_recoveryVars(Only("ladder") /\ LadGate(r) /\ ladRun'[r] # LadIdle)

RecoverySpec == RecoveryInit /\ [][RecoveryNext]_recoveryVars /\ RecoveryFairness
================================================================================

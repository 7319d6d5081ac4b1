--------------------------------- MODULE Users ---------------------------------
(* Dashboard users and the rule that an active administrator always remains.   *)
(* Every handler reads a row, decides, and writes the whole row back; the rule *)
(* is checked before the write by counting rows and again, under one lock, by  *)
(* a trigger of the database when the write commits.                           *)
EXTENDS Naturals, FiniteSets

CONSTANTS
    UsrIds,         \* user rows
    UsrCallers,     \* requests in flight
    UsrAbsent          \* no such row

VARIABLES usrRow, usrOp, usrSetups, usrSession
usrVars == <<usrRow, usrOp, usrSetups, usrSession>>

UsrNoOp == [kind |-> "none"]
UsrRows == [admin : BOOLEAN, active : BOOLEAN]
ASSUME UsrAssumption == UsrAbsent \notin UsrRows
UsrLive == {u \in UsrIds : usrRow[u] # UsrAbsent}

\* AdminExists counts the active members, CountGroupMembers all of them.
AdminExists(row) == \E u \in UsrIds : row[u] # UsrAbsent /\ row[u].admin /\ row[u].active
CountGroupMembers == Cardinality({u \in UsrLive : usrRow[u].admin})

UsrInit ==
    /\ usrRow = [u \in UsrIds |-> UsrAbsent]
    /\ usrOp = [c \in UsrCallers |-> UsrNoOp]
    /\ usrSetups = 0
    /\ usrSession = {}

UsrLeave(c) == usrOp' = [usrOp EXCEPT ![c] = UsrNoOp]
------------------------------------------------------------------------------
\* SetupAdmin: the fast check, and later the insert that repeats it under the
\* lock the trigger takes too. A new session goes to the caller that inserted.
UsrSetupCheck(c) ==
    /\ usrOp[c] = UsrNoOp /\ ~AdminExists(usrRow)
    /\ usrOp' = [usrOp EXCEPT ![c] = [kind |-> "setup"]]
    /\ UNCHANGED <<usrRow, usrSetups, usrSession>>

\* Mutant: the insert does not repeat the check.
CreateAdminUnchecked(u) ==
    /\ usrRow' = [usrRow EXCEPT ![u] = [admin |-> TRUE, active |-> TRUE]]
    /\ usrSetups' = usrSetups + 1

CreateAdminIfNone(u) ==
    IF AdminExists(usrRow) THEN UNCHANGED <<usrRow, usrSetups>>
    ELSE /\ usrRow' = [usrRow EXCEPT ![u] = [admin |-> TRUE, active |-> TRUE]]
         /\ usrSetups' = usrSetups + 1

UsrSetup(c, u) ==
    /\ usrOp[c].kind = "setup" /\ usrRow[u] = UsrAbsent
    /\ CreateAdminIfNone(u)
    /\ usrSession' = IF AdminExists(usrRow) THEN usrSession ELSE usrSession \cup {u}
    /\ UsrLeave(c)

\* CreateUser: an invited user is inactive until its password is set.
UsrCreate(u) == \E admin, invite \in BOOLEAN :
    /\ usrRow[u] = UsrAbsent /\ UsrLive # {}
    /\ usrRow' = [usrRow EXCEPT ![u] = [admin |-> admin, active |-> ~invite]]
    /\ UNCHANGED <<usrOp, usrSetups, usrSession>>

------------------------------------------------------------------------------
\* Each handler starts with the row it will write back. A login and a password
\* change need an active user; a reset link works for an invited one as well.
UsrKinds == {"update", "delete", "login", "failed", "password", "reset"}

UsrRead(c, u, kind) ==
    /\ usrOp[c] = UsrNoOp /\ usrRow[u] # UsrAbsent
    /\ kind \in {"login", "failed", "password"} => usrRow[u].active
    /\ usrOp' = [usrOp EXCEPT ![c] = [kind |-> kind, user |-> u, copy |-> usrRow[u]]]
    /\ UNCHANGED <<usrRow, usrSetups, usrSession>>

\* guardGroupChange and guardDeactivation: a write that takes a user's
\* membership, or deactivates a member, needs another member, active or not.
UsrNeedsAnother(old, new) ==
    \/ old.admin /\ ~new.admin
    \/ new.admin /\ old.active /\ ~new.active

UsrGuard(c) ==
    LET old == usrOp[c].copy
    IN /\ usrOp[c].kind = "update"
       /\ \E new \in UsrRows :
            usrOp' = [usrOp EXCEPT ![c] =
                IF UsrNeedsAnother(old, new) /\ CountGroupMembers <= 1 THEN UsrNoOp
                ELSE [kind |-> "write", user |-> usrOp[c].user, copy |-> new]]
       /\ UNCHANGED <<usrRow, usrSetups, usrSession>>

\* DeleteUser: the same count, and the sessions are deleted before the row.
UsrDeleteGuard(c) ==
    /\ usrOp[c].kind = "delete"
    /\ IF usrOp[c].copy.admin /\ CountGroupMembers <= 1
       THEN UsrLeave(c) /\ UNCHANGED usrSession
       ELSE /\ usrOp' = [usrOp EXCEPT ![c].kind = "erase"]
            /\ usrSession' = usrSession \ {usrOp[c].user}
    /\ UNCHANGED <<usrRow, usrSetups>>

\* Login creates the session, ChangePassword and ConfirmPasswordReset delete
\* the user's sessions; each then writes its copy, the last one activated.
UsrSessionStep(c) ==
    LET op == usrOp[c]
    IN /\ op.kind \in {"login", "password", "reset"}
       /\ usrSession' = IF op.kind # "login" THEN usrSession \ {op.user}
                        ELSE IF usrRow[op.user] = UsrAbsent THEN usrSession
                        ELSE usrSession \cup {op.user}
       /\ usrOp' = [usrOp EXCEPT ![c] =
            IF op.kind = "login" /\ usrRow[op.user] = UsrAbsent THEN UsrNoOp
            ELSE [op EXCEPT !.kind = "write",
                            !.copy.active = @ \/ op.kind = "reset"]]
       /\ UNCHANGED <<usrRow, usrSetups>>

\* Mutant: the trigger looks at the membership only, and not at a deletion.
TriggerIgnoresDeactivation(old, new) == new # UsrAbsent /\ old.admin /\ old.active /\ ~new.admin

\* check_min_one_admin: the trigger refuses the commit that would leave none.
TriggerFires(old, new) ==
    \/ new = UsrAbsent /\ old.admin
    \/ new # UsrAbsent /\ old.admin /\ old.active /\ ~(new.admin /\ new.active)

UsrCommit(u, new) ==
    LET row == [usrRow EXCEPT ![u] = new]
    IN usrRow' = IF usrRow[u] = UsrAbsent \/ (TriggerFires(usrRow[u], new) /\ ~AdminExists(row))
                 THEN usrRow ELSE row

\* UpdateUser of the store writes every column; recordFailedLogin does too.
UsrWrite(c) ==
    /\ usrOp[c].kind \in {"write", "failed"}
    /\ UsrCommit(usrOp[c].user, usrOp[c].copy)
    /\ UsrLeave(c)
    /\ UNCHANGED <<usrSetups, usrSession>>

\* DeleteUser of the store; the row's sessions go with it by ON DELETE CASCADE.
UsrErase(c) ==
    /\ usrOp[c].kind = "erase"
    /\ UsrCommit(usrOp[c].user, UsrAbsent)
    /\ usrSession' = {u \in usrSession : usrRow'[u] # UsrAbsent}
    /\ UsrLeave(c)
    /\ UNCHANGED usrSetups

\* Logout, CleanupExpiredSessions.
UsrLogout(u) ==
    /\ u \in usrSession
    /\ usrSession' = usrSession \ {u}
    /\ UNCHANGED <<usrRow, usrOp, usrSetups>>

UsrNext ==
    \/ \E c \in UsrCallers :
        \/ UsrSetupCheck(c) \/ UsrGuard(c) \/ UsrDeleteGuard(c) \/ UsrSessionStep(c)
        \/ UsrWrite(c) \/ UsrErase(c)
        \/ \E u \in UsrIds : UsrSetup(c, u)
        \/ \E u \in UsrIds, kind \in UsrKinds : UsrRead(c, u, kind)
    \/ \E u \in UsrIds : UsrCreate(u) \/ UsrLogout(u)

UsrSpec == UsrInit /\ [][UsrNext]_usrVars
------------------------------------------------------------------------------
\* Once there is an active administrator there always is one, whatever rows two
\* requests read before either wrote (checkLastAdminConstraint counts before
\* the write and counts inactive members; the trigger is what decides).
UsrAdminRemains == [][AdminExists(usrRow) => AdminExists(usrRow')]_usrVars

\* However many callers set up the deployment, one of them creates its first
\* administrator (SetupAdmin, CreateAdminIfNone).
UsrBootstrapOnce == usrSetups <= 1

\* The deployment gets one first administrator and never loses its last one.
UsrAdminsSound == UsrAdminRemains /\ []UsrBootstrapOnce

================================================================================

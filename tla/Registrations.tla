------------------------------ MODULE Registrations ------------------------------
(* Registrations of cloud accounts, the accounts their approval creates, and   *)
(* the executions that keep an account from being deleted. An approval is      *)
(* three writes here: the transition, the account, and the link back.          *)
EXTENDS Naturals, Sequences

CONSTANTS
    RegIds,             \* registration rows, numbered as they are inserted
    RegKeys,            \* cloud identities: a provider and an external id
    RegCallers,         \* reviews and deletions in flight
    RegMaxAccounts,     \* bound on the accounts ever created
    RegNone

ASSUME RegAssumption == RegNone \notin Nat /\ RegMaxAccounts \in Nat

VARIABLES regRow, regAcct, regExec, regOp
regVars == <<regRow, regAcct, regExec, regOp>>

RegNoOp == [kind |-> "none"]
RegPresent == {i \in RegIds : regRow[i].status \notin {"new", "deleted"}}
RegLive(a) == a \in DOMAIN regAcct /\ regAcct[a].live

RegInit ==
    /\ regRow = [i \in RegIds |-> [key |-> RegNone, status |-> "new", account |-> RegNone]]
    /\ regAcct = <<>>
    /\ regExec = {}                 \* <<account, status>> of purchase_executions
    /\ regOp = [c \in RegCallers |-> RegNoOp]

RegDone(c) == regOp' = [regOp EXCEPT ![c] = RegNoOp]
RegPendingFor(key) == \E i \in RegIds : regRow[i].status = "pending" /\ regRow[i].key = key
------------------------------------------------------------------------------
\* submitRegistration: one pending registration for an identity, by a partial
\* unique index; decided ones do not count.
RegSubmit(i, key) ==
    /\ regRow[i].status = "new" /\ ~RegPendingFor(key)
    /\ \A j \in RegIds : j < i => regRow[j].status # "new"
    /\ regRow' = [regRow EXCEPT ![i].key = key, ![i].status = "pending"]
    /\ UNCHANGED <<regAcct, regExec, regOp>>

\* deleteRegistration, in any status.
RegErase(i) ==
    /\ i \in RegPresent
    /\ regRow' = [regRow EXCEPT ![i].status = "deleted", ![i].account = RegNone]
    /\ UNCHANGED <<regAcct, regExec, regOp>>

\* getPendingRegistration, for both reviews.
RegRead(c, i, kind) ==
    /\ regOp[c] = RegNoOp /\ regRow[i].status = "pending"
    /\ regOp' = [regOp EXCEPT ![c] = [kind |-> kind, row |-> i]]
    /\ UNCHANGED <<regRow, regAcct, regExec>>

\* Mutant: the status is set whatever it is by then.
RegSetStatus(c) ==
    LET op == regOp[c]
    IN /\ op.kind \in {"approve", "reject"}
       /\ regRow' = [regRow EXCEPT ![op.row].status =
                        IF op.kind = "approve" THEN "approved" ELSE "rejected"]
       /\ regOp' = [regOp EXCEPT ![c] =
            IF op.kind = "approve" THEN [op EXCEPT !.kind = "create"] ELSE RegNoOp]
       /\ UNCHANGED <<regAcct, regExec>>

\* TransitionRegistrationStatus from "pending"; another review's is a conflict.
RegTransition(c) ==
    LET op == regOp[c]
        mine == regRow[op.row].status = "pending"
    IN /\ op.kind \in {"approve", "reject"}
       /\ regRow' = IF ~mine THEN regRow ELSE [regRow EXCEPT ![op.row].status =
                        IF op.kind = "approve" THEN "approved" ELSE "rejected"]
       /\ regOp' = [regOp EXCEPT ![c] =
            IF mine /\ op.kind = "approve" THEN [op EXCEPT !.kind = "create"] ELSE RegNoOp]
       /\ UNCHANGED <<regAcct, regExec>>

\* CreateCloudAccount: an identity has one account, by a unique constraint.
RegTaken(key) == \E a \in DOMAIN regAcct : regAcct[a].live /\ regAcct[a].key = key
RegAddAccount(key) == regAcct' = Append(regAcct, [key |-> key, live |-> TRUE])

\* The reviewer may have edited the identity. A duplicate is the reply 409.
RegCreate(c) == \E key \in RegKeys :
    LET op == regOp[c]
    IN /\ op.kind = "create"
       /\ IF RegTaken(key) THEN RegDone(c) /\ UNCHANGED regAcct
          ELSE /\ Len(regAcct) < RegMaxAccounts /\ RegAddAccount(key)
               /\ regOp' = [regOp EXCEPT ![c] =
                    [kind |-> "link", row |-> op.row, account |-> Len(regAcct) + 1]]
       /\ UNCHANGED <<regRow, regExec>>

\* UpdateAccountRegistration: a link to a deleted account breaks the foreign
\* key, and the error is logged. The row is written as it was approved.
RegLink(c) ==
    LET op == regOp[c]
    IN /\ op.kind = "link"
       /\ regRow' = IF op.row \in RegPresent /\ RegLive(op.account)
                    THEN [regRow EXCEPT ![op.row].status = "approved",
                                        ![op.row].account = op.account] ELSE regRow
       /\ RegDone(c)
       /\ UNCHANGED <<regAcct, regExec>>

------------------------------------------------------------------------------
\* createAccount, createSelfAccount, persistDiscoveredMembers.
RegAdd(key) ==
    /\ ~RegTaken(key) /\ Len(regAcct) < RegMaxAccounts
    /\ RegAddAccount(key)
    /\ UNCHANGED <<regRow, regExec, regOp>>

\* updateAccount: the external id is among the columns it writes.
RegUpdate(a, key) ==
    /\ RegLive(a) /\ ~RegTaken(key)
    /\ regAcct' = [regAcct EXCEPT ![a].key = key]
    /\ UNCHANGED <<regRow, regExec, regOp>>

\* Executions of an account: pending, then ended (completed or canceled), and
\* deleted by the records cleanup a retention period later. Bound: one at a time.
RegExecute(a) ==
    /\ RegLive(a) /\ \A e \in regExec : e[1] # a
    /\ regExec' = regExec \cup {<<a, "pending">>}
    /\ UNCHANGED <<regRow, regAcct, regOp>>

RegFinish(a) ==
    /\ <<a, "pending">> \in regExec
    /\ regExec' = (regExec \ {<<a, "pending">>}) \cup {<<a, "ended">>}
    /\ UNCHANGED <<regRow, regAcct, regOp>>

RegClean(a) ==
    /\ <<a, "ended">> \in regExec
    /\ regExec' = regExec \ {<<a, "ended">>}
    /\ UNCHANGED <<regRow, regAcct, regOp>>

\* deleteAccount counts the open executions first.
RegOpenFor(a) == <<a, "pending">> \in regExec
RegCount(c, a) ==
    /\ regOp[c] = RegNoOp /\ RegLive(a) /\ ~RegOpenFor(a)
    /\ regOp' = [regOp EXCEPT ![c] = [kind |-> "remove", account |-> a]]
    /\ UNCHANGED <<regRow, regAcct, regExec>>

\* DeleteCloudAccount: the linked registration becomes pending again and the
\* account goes, or neither. Any execution row restricts the deletion, and the
\* reset may meet another pending registration of the same identity.
RegLinkedTo(a) == {i \in RegIds : regRow[i].status = "approved" /\ regRow[i].account = a}

\* Mutant: the linked registration is left as it is.
RegNotReopened(a) == regRow

RegReopen(a) == [i \in RegIds |-> IF i \in RegLinkedTo(a)
    THEN [regRow[i] EXCEPT !.status = "pending", !.account = RegNone] ELSE regRow[i]]

RegRemove(c) ==
    LET a == regOp[c].account
        restricted == \E e \in regExec : e[1] = a
        conflict == \E i \in RegLinkedTo(a) : RegPendingFor(regRow[i].key)
    IN /\ regOp[c].kind = "remove"
       /\ IF ~RegLive(a) \/ restricted \/ conflict THEN UNCHANGED <<regRow, regAcct>>
          ELSE regRow' = RegReopen(a) /\ regAcct' = [regAcct EXCEPT ![a].live = FALSE]
       /\ RegDone(c)
       /\ UNCHANGED regExec

RegNext ==
    \/ \E i \in RegIds : RegErase(i) \/ \E key \in RegKeys : RegSubmit(i, key)
    \/ \E c \in RegCallers :
        \/ \E i \in RegIds, kind \in {"approve", "reject"} : RegRead(c, i, kind)
        \/ RegTransition(c) \/ RegCreate(c) \/ RegLink(c) \/ RegRemove(c)
        \/ \E a \in DOMAIN regAcct : RegCount(c, a)
    \/ \E key \in RegKeys : RegAdd(key)
    \/ \E a \in DOMAIN regAcct :
        \/ RegExecute(a) \/ RegFinish(a) \/ RegClean(a)
        \/ \E key \in RegKeys : RegUpdate(a, key)

RegSpec == RegInit /\ [][RegNext]_regVars
------------------------------------------------------------------------------
\* Two reviews of one registration never both create an account for it, even
\* when the deletion of an account reopens it (approveRegistration: "prevents
\* double-approval").
RegOneReview ==
    \A c, d \in RegCallers :
        /\ c # d
        /\ regOp[c].kind \in {"create", "link"} /\ regOp[d].kind \in {"create", "link"}
        => regOp[c].row # regOp[d].row

\* A linked registration's account exists and no other registration has it: a
\* deletion reopens the row it was linked to (DeleteCloudAccount).
RegLinkSound ==
    \A i \in RegPresent : regRow[i].account # RegNone =>
        /\ RegLive(regRow[i].account) /\ regRow[i].status = "approved"
        /\ RegLinkedTo(regRow[i].account) = {i}

\* Reviews, deletions and discoveries that overlap leave each registration with one
\* review and a link to an account that stands for it.
RegSound == RegOneReview /\ RegLinkSound

\* An approved registration with no approval in flight has its account
\* (000021_reset_orphaned_approved_registrations: "this state should not recur").
RegApprovedHasAccount ==
    \A i \in RegIds : regRow[i].status = "approved" =>
        \/ regRow[i].account # RegNone
        \/ \E c \in RegCallers : regOp[c].kind \in {"create", "link"} /\ regOp[c].row = i

\* An account is refused deletion only while an execution of it is open
\* (deleteAccount: "pending purchase(s) must be canceled first").
RegRefusedOnlyOpen ==
    \A a \in DOMAIN regAcct : RegLive(a) /\ ~RegOpenFor(a) => \A e \in regExec : e[1] # a

================================================================================

------------------------------- MODULE Approvals -------------------------------
(* Who may approve, cancel or revoke one purchase: the rights of a session, the *)
(* contacts of the accounts for the links of the mails and for the messages of  *)
(* the queue, and the policy that asks for a second person. The policy, the     *)
(* delay and the row are read one after the other, and each of them and the     *)
(* contacts may change between two reads.                                       *)
EXTENDS FiniteSets, Naturals

CONSTANTS
    AppPeople,          \* users; a user's address is the user
    AppNobody,          \* no creator on the row, no address on the account
    AppAccounts,        \* accounts of the recommendations of the row
    AppMaxChanges       \* bound: changes of the settings and of the contacts

ASSUME AppAssumption == AppNobody \notin AppPeople /\ AppMaxChanges \in Nat

VARIABLES
    appRow,             \* the execution: status, creator, link, window
    appRights,          \* what each user's groups allow: "any", "own" or nothing
    appContact,         \* contact_email of each account
    appGlobal,          \* the notification address of the settings
    appTwo, appDelay,   \* require_different_approver, and whether a delay is set
    appReq,             \* the approval each user has in flight
    appMailed,          \* whom a mail about the purchase was sent to
    appDecision,        \* how the row left "pending"
    appChanges
appVars == <<appRow, appRights, appContact, appGlobal, appTwo, appDelay, appReq, appMailed,
             appDecision, appChanges>>
appWorld == <<appRights, appContact, appGlobal, appTwo, appDelay, appChanges>>

AppIdle == [at |-> "idle"]
AppUndecided == [is |-> "none"]

\* A bearer session knows the address, a user's API key only the user; the link
\* of a mail brings the token along, a message of the queue has no session.
AppMessage == [session |-> "none", token |-> TRUE]
AppWays == [session : {"bearer", "key"}, token : BOOLEAN] \cup {AppMessage}

\* The recipients of the two mails: the contacts first, the address of the
\* settings beside or instead of them; once executed the requester as well.
AppContacts == {appContact[a] : a \in AppAccounts} \ {AppNobody}
AppApprovers == AppContacts
AppRequestTo == (AppContacts \cup {appGlobal}) \ {AppNobody}
\* Mutant: the requester is written to when nobody else is.
AppExecutedToOthers == IF AppRequestTo # {} THEN AppRequestTo ELSE {appRow.creator} \ {AppNobody}
AppRequester == {appRow.creator} \ {AppNobody}
AppExecutedTo == AppRequestTo \cup AppRequester

\* approve-any, cancel-any, ..., or the -own right on a row one has created.
AppAllows(p) == "any" \in appRights[p] \/ ("own" \in appRights[p] /\ appRow.creator = p)
AppMayApprove(p) == AppAllows(p)
AppMayCancel(p) == AppAllows(p)
AppMayExecute(p) == AppAllows(p)

\* The link's way in: the signed-in address is a contact of an account.
AppIsApprover(p, way) == way.session = "bearer" /\ p \in AppApprovers
\* The queue names the actor itself.
AppIsActor(p) == p \in AppContacts

\* A session that may decide decides; one that may not falls back on the link.
AppViaSession(p, way, may) == way.session = "bearer" /\ may
AppPath(p, way, may) ==
    IF way.session = "none" THEN "message"
    ELSE IF AppViaSession(p, way, may) \/ ~way.token THEN "session"
    ELSE "link"
AppAdmitted(p, way, may) ==
    CASE AppPath(p, way, may) = "message" -> AppIsActor(p) /\ way.token
      [] AppPath(p, way, may) = "session" -> may
      [] AppPath(p, way, may) = "link" -> AppIsApprover(p, way)

AppInit ==
    /\ appRow \in [status : {"pending"}, creator : AppPeople \cup {AppNobody},
                   link : {"live"}, window : {"open"}]
    /\ appRights \in [AppPeople -> {{}, {"own"}, {"any"}}]
    /\ appContact \in [AppAccounts -> AppPeople \cup {AppNobody}]
    /\ appGlobal \in AppPeople \cup {AppNobody}
    /\ appTwo \in BOOLEAN /\ appDelay \in BOOLEAN
    /\ appReq = [p \in AppPeople |-> AppIdle]
    /\ appMailed = AppRequestTo
    /\ appDecision = AppUndecided
    /\ appChanges = 0
------------------------------------------------------------------------------
AppGo(p, req) == appReq' = [appReq EXCEPT ![p] = req]
AppLeave(p) == AppGo(p, AppIdle)
AppAwaits == appRow.status \in {"pending", "notified"}

\* approvePurchase, and handleApproveMessage: the session path looks at the
\* status of its copy, the queue skips what only the handlers of the API check.
AppApprove(p, way) ==
    /\ appReq[p] = AppIdle
    /\ AppAdmitted(p, way, AppMayApprove(p))
    /\ AppPath(p, way, AppMayApprove(p)) = "session" => AppAwaits
    /\ AppGo(p, [at |-> IF way = AppMessage THEN "enforce" ELSE "policy",
                 path |-> AppPath(p, way, AppMayApprove(p)), session |-> way.session,
                 held |-> appTwo])
    /\ UNCHANGED <<appRow, appMailed, appDecision>> /\ UNCHANGED appWorld

\* executePurchase with execute_mode "direct": the creator is the approver.
AppDirect(p, session) ==
    /\ appReq[p] = AppIdle /\ appRow.creator = p /\ AppAwaits
    /\ AppMayExecute(p)
    /\ AppGo(p, [at |-> "enforce", path |-> "direct", session |-> session, held |-> appTwo])
    /\ UNCHANGED <<appRow, appMailed, appDecision>> /\ UNCHANGED appWorld

\* requireDifferentApprover, by the user id of the session.
AppDifferent(p) == appTwo => appRow.creator \notin {AppNobody, p}
AppCheckPolicy(p) ==
    /\ appReq[p].at = "policy"
    /\ AppGo(p, IF AppDifferent(p) THEN [appReq[p] EXCEPT !.at = "delay"] ELSE AppIdle)
    /\ UNCHANGED <<appRow, appMailed, appDecision>> /\ UNCHANGED appWorld

AppCheckDelay(p) ==
    /\ appReq[p].at = "delay"
    /\ AppGo(p, [appReq[p] EXCEPT !.at = IF appDelay THEN "schedule" ELSE "enforce"])
    /\ UNCHANGED <<appRow, appMailed, appDecision>> /\ UNCHANGED appWorld

\* Mutant: people are told apart by their address alone, and the session of an
\* API key has none.
AppByAddressAlone(p) == appRow.creator # AppNobody /\ (appReq[p].session = "key" \/ appRow.creator # p)
\* checkDifferentApprover: by the id when the session has one, else by address.
AppOtherPerson(p) == appRow.creator # AppNobody /\ appRow.creator # p
\* validateApprovalToken: the token of the row, and in time.
AppLinkLive == appRow.link = "live"
\* ApproveExecution checks the link; every path then passes the policy.
AppEnforce(p) ==
    /\ appReq[p].at = "enforce"
    /\ LET linked == appReq[p].path \in {"link", "message"}
           passes == (linked => AppLinkLive) /\ (appTwo => AppOtherPerson(p))
       IN  AppGo(p, IF passes THEN [appReq[p] EXCEPT !.at = "claim"] ELSE AppIdle)
    /\ UNCHANGED <<appRow, appMailed, appDecision>> /\ UNCHANGED appWorld

AppDecide(p, is, status) ==
    /\ appRow' = [appRow EXCEPT !.status = status]
    /\ appDecision' = [is |-> is, by |-> p, path |-> appReq[p].path, held |-> appReq[p].held]
    /\ UNCHANGED appWorld

\* The guarded transition of ApproveAndExecute. A successful link is spent for
\* approvals: the row gets one that revokes.
AppClaim(p) ==
    /\ appReq[p].at = "claim" /\ AppLeave(p)
    /\ IF AppAwaits THEN AppDecide(p, "approved", "approved")
       ELSE UNCHANGED <<appRow, appDecision>> /\ UNCHANGED appWorld
    /\ UNCHANGED appMailed

\* Of the delayed purchase hears the address of the settings, or the approver.
AppScheduledTo(p) == IF appGlobal # AppNobody THEN {appGlobal} ELSE {p}
\* scheduleApprovedExecution: the guarded transition alone.
AppSchedule(p) ==
    /\ appReq[p].at = "schedule" /\ AppLeave(p)
    /\ IF AppAwaits
       THEN /\ AppDecide(p, "scheduled", "scheduled")
            /\ appMailed' = appMailed \cup AppScheduledTo(p)
       ELSE UNCHANGED <<appRow, appMailed, appDecision>> /\ UNCHANGED appWorld

\* Mutant: the session path cancels what its copy let it cancel.
AppCancelableStale == appRow.status \in {"pending", "notified", "approved"}
\* guardCancelableViaSession and the statement that repeats it.
AppCancelable == appRow.status \in {"pending", "notified"}
AppCancel(p, way) ==
    /\ appReq[p] = AppIdle /\ AppCancelable
    /\ AppAdmitted(p, way, AppMayCancel(p))
    /\ AppPath(p, way, AppMayCancel(p)) # "session" => AppLinkLive
    /\ appRow' = [appRow EXCEPT !.status = "canceled"]
    /\ appDecision' = IF appDecision = AppUndecided
                      THEN [is |-> "canceled", by |-> p, path |-> "cancel", held |-> FALSE]
                      ELSE [appDecision EXCEPT !.is = "both"]
    /\ UNCHANGED <<appReq, appMailed>> /\ UNCHANGED appWorld

\* The purchase runs, at once or when its delay is over. The handlers of the API
\* write to everyone concerned; the queue and the delayed purchase do not.
AppBuy ==
    /\ appRow.status \in {"approved", "scheduled"}
    /\ appRow' = [appRow EXCEPT !.status = "completed"]
    /\ appMailed' = IF appRow.status = "approved" /\ appDecision.path # "message"
                    THEN appMailed \cup AppExecutedTo ELSE appMailed
    /\ UNCHANGED <<appReq, appDecision>> /\ UNCHANGED appWorld

AppRevokable == appRow.status \in {"completed", "partially_completed"}
AppLinkRevokes == AppLinkLive /\ appRow.window = "open"
\* revokeViaEmailToken: only the link's way looks at the window here.
AppRevoke(p, way) ==
    /\ AppRevokable /\ way.session = "bearer"
    /\ AppAdmitted(p, way, AppMayCancel(p))
    /\ AppPath(p, way, AppMayCancel(p)) = "link" => AppLinkRevokes
    /\ appRow' = [appRow EXCEPT !.status = "revoking"]
    /\ UNCHANGED <<appReq, appMailed, appDecision>> /\ UNCHANGED appWorld

\* The link expires, the window of revocation closes.
AppTime ==
    /\ \/ appRow.link = "live" /\ appRow' = [appRow EXCEPT !.link = "expired"]
       \/ appRow.window = "open" /\ appRow.status = "completed"
          /\ appRow' = [appRow EXCEPT !.window = "closed"]
    /\ UNCHANGED <<appReq, appMailed, appDecision>> /\ UNCHANGED appWorld

\* An administrator changes a setting or a contact. A policy that was off at
\* some time of a request did not hold for it.
AppChange ==
    /\ appChanges < AppMaxChanges /\ appChanges' = appChanges + 1
    /\ \/ appTwo' = ~appTwo /\ UNCHANGED <<appDelay, appContact>>
       \/ appDelay' = ~appDelay /\ UNCHANGED <<appTwo, appContact>>
       \/ \E a \in AppAccounts, e \in AppPeople \cup {AppNobody} :
             /\ e # appContact[a] /\ appContact' = [appContact EXCEPT ![a] = e]
             /\ UNCHANGED <<appTwo, appDelay>>
    /\ appReq' = [p \in AppPeople |->
                    IF appReq[p] = AppIdle THEN AppIdle
                    ELSE [appReq[p] EXCEPT !.held = @ /\ appTwo']]
    /\ UNCHANGED <<appRow, appRights, appGlobal, appMailed, appDecision>>

AppNext ==
    \/ \E p \in AppPeople :
          \/ \E way \in AppWays :
                AppApprove(p, way) \/ AppCancel(p, way) \/ AppRevoke(p, way)
          \/ \E session \in {"bearer", "key"} : AppDirect(p, session)
          \/ AppCheckPolicy(p) \/ AppCheckDelay(p) \/ AppEnforce(p)
          \/ AppClaim(p) \/ AppSchedule(p)
    \/ AppBuy \/ AppTime \/ AppChange

AppSpec == AppInit /\ [][AppNext]_appVars
------------------------------------------------------------------------------
\* With the policy on for the whole of a request, the row it approves or
\* schedules was created by someone, and by someone else.
AppTwoPeople ==
    appDecision.is \in {"approved", "scheduled"} /\ appDecision.held
        => appRow.creator \notin {AppNobody, appDecision.by}

\* A row leaves "pending" once, however many approvals and cancellations of it
\* are in flight.
AppDecidedOnce ==
    /\ appDecision.is # "both"
    /\ appRow.status = "canceled" <=> appDecision.is = "canceled"

\* Whoever asked for a purchase approved through the API hears that it was made.
AppRequesterHears ==
    appRow.status = "completed" /\ appDecision.is = "approved" /\ appDecision.path # "message"
        => AppRequester \subseteq appMailed

AppSound == AppTwoPeople /\ AppDecidedOnce /\ AppRequesterHears
==============================================================================

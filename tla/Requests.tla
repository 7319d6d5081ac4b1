--------------------------------- MODULE Requests ---------------------------------
(* One request to the HTTP API from its way in to its answer: the checks before *)
(* the router, the first route that matches, the level it asks for, and the     *)
(* steps of its handler, each of which may refuse or fail, with other requests  *)
(* writing in between and a crash at any point.                                 *)
EXTENDS RequestHandlers, SequencesExt

CONSTANTS
    ReqCallers,     \* what comes with a request, as the handlers tell it apart
    ReqSomeId       \* what a path names after its prefix

\* What a path names, a UUID mostly, is none of the words that other routes have there.
ASSUME ReqSomeIdAssumption ==
    ReqSomeId \notin {"accounts", "approve", "calculate", "cancel", "list", "planned", "retry",
                      "revoke", "service-overrides"}

VARIABLES
    reqRoute, reqCaller, reqSteps,
    reqAt,          \* the next step
    reqHeld,        \* rows read
    reqStale,       \* rows read that somebody has written since
    reqDone,        \* rows written
    reqLost,        \* rows in which somebody's write was overwritten unseen
    reqAns          \* the code, once there is one; 1: none ever, as the server is gone
reqVars == <<reqRoute, reqCaller, reqSteps, reqAt, reqHeld, reqStale, reqDone, reqLost, reqAns>>
------------------------------------------------------------------------------
(* The routes, in the order in which they are tried. *)
ReqPath(pre, suf) == pre \o <<ReqSomeId>> \o suf
ReqRoute(m, kind, pre, suf, level, ways) ==
    [m |-> m, kind |-> kind, pre |-> pre, suf |-> suf, level |-> level, ways |-> ways]
ReqExact(m, path, level, steps) == ReqRoute(m, "exact", path, <<>>, level, {steps})
ReqUnder(m, pre, suf, level, steps) == ReqRoute(m, "under", pre, suf, level, {steps})

ReqPageRoutes ==
    LET d == <<"api", "dashboard">>
        c == <<"api", "config">>
        r == <<"api", "recommendations">>
    IN <<ReqExact("GET", d \o <<"summary">>, "user", ReqDashboard),
         ReqExact("GET", d \o <<"upcoming">>, "user", ReqUpcoming),
         ReqExact("GET", c, "user", ReqGetConfig),
         ReqExact("PUT", c, "admin", ReqUpdateConfig),
         ReqUnder("GET", c \o <<"service">>, <<>>, "user", ReqGetService),
         ReqUnder("PUT", c \o <<"service">>, <<>>, "admin", ReqUpdateService),
         ReqExact("GET", <<"api", "commitment-options">>, "user", ReqOptions),
         ReqExact("GET", r, "user", ReqRecommendations),
         ReqExact("GET", r \o <<"freshness">>, "user", ReqFreshness),
         ReqExact("POST", r \o <<"refresh">>, "user", ReqRefresh),
         ReqUnder("GET", r, <<"detail">>, "user", ReqDetail)>>

ReqPlanRoutes ==
    LET p == <<"api", "plans">>
    IN <<ReqExact("GET", p, "user", ReqListPlans), ReqExact("POST", p, "user", ReqCreatePlan),
         ReqUnder("POST", p, <<"purchases">>, "user", ReqCreatePlanned),
         ReqUnder("GET", p, <<"accounts">>, "user", ReqListPlanAccounts),
         ReqUnder("PUT", p, <<"accounts">>, "user", ReqSetPlanAccounts),
         ReqUnder("GET", p, <<>>, "user", ReqGetPlan),
         ReqUnder("PUT", p, <<>>, "user", ReqReplacePlan),
         ReqUnder("PATCH", p, <<>>, "user", ReqPatchPlan),
         ReqUnder("DELETE", p, <<>>, "user", ReqDeletePlan)>>

ReqPurchaseRoutes ==
    LET p == <<"api", "purchases">>
        planned == p \o <<"planned">>
    IN <<ReqExact("POST", p \o <<"execute">>, "user", ReqSubmit),
         ReqUnder("GET", p \o <<"approve">>, <<>>, "public", ReqApprovePurchase),
         ReqUnder("POST", p \o <<"approve">>, <<>>, "public", ReqApprovePurchase),
         ReqUnder("GET", p \o <<"cancel">>, <<>>, "public", ReqCancelPurchase),
         ReqUnder("POST", p \o <<"cancel">>, <<>>, "public", ReqCancelPurchase),
         ReqUnder("GET", p \o <<"revoke">>, <<>>, "public", ReqRevokeByMail),
         ReqUnder("POST", p \o <<"revoke">>, <<>>, "public", ReqRevokeByMail),
         ReqUnder("POST", p \o <<"retry">>, <<>>, "user", ReqRetry),
         ReqUnder("POST", p, <<"revoke">>, "user", ReqRevoke),
         ReqUnder("GET", p, <<"revoke", "calculate">>, "user", ReqRefundQuote),
         ReqUnder("POST", p, <<"marketplace-list">>, "user", ReqList),
         ReqUnder("POST", p, <<"marketplace-cancel">>, "user", ReqUnlist),
         ReqExact("GET", planned, "user", ReqPlanned),
         ReqUnder("POST", planned, <<"pause">>, "user", ReqPause),
         ReqUnder("POST", planned, <<"resume">>, "user", ReqResume),
         ReqUnder("POST", planned, <<"run">>, "user", ReqRun),
         ReqUnder("DELETE", planned, <<>>, "user", ReqDeletePlanned),
         ReqUnder("GET", p, <<>>, "user", ReqPurchaseDetails)>>

ReqHistoryRoutes ==
    LET h == <<"api", "history">>
        a == <<"api", "analytics">>
    IN <<ReqExact("GET", h, "user", ReqHistory),
         ReqExact("GET", h \o <<"analytics">>, "user", ReqHistoryAnalytics),
         ReqExact("GET", h \o <<"breakdown">>, "user", ReqBreakdown),
         ReqExact("GET", a \o <<"trends">>, "user", ReqTrends),
         ReqExact("POST", a \o <<"collect">>, "admin", ReqCollect)>>

ReqSignInRoutes ==
    LET a == <<"api", "auth">>
    IN <<ReqExact("POST", a \o <<"login">>, "public", ReqLogin),
         ReqExact("POST", a \o <<"logout">>, "user", ReqLogout),
         ReqExact("GET", a \o <<"me">>, "user", ReqMe),
         ReqExact("GET", a \o <<"me", "permissions">>, "user", ReqMyPermissions),
         ReqExact("GET", a \o <<"check-admin">>, "public", ReqAdminExists),
         ReqExact("POST", a \o <<"setup-admin">>, "public", ReqSetupAdmin),
         ReqExact("POST", a \o <<"forgot-password">>, "public", ReqForgotPassword),
         ReqExact("POST", a \o <<"reset-password">>, "public", ReqResetPassword),
         ReqExact("GET", a \o <<"reset-password", "status">>, "public", ReqResetStatus),
         ReqExact("PUT", a \o <<"profile">>, "user", ReqProfile),
         ReqExact("POST", a \o <<"change-password">>, "user", ReqChangePassword),
         ReqExact("POST", a \o <<"mfa", "setup">>, "user", ReqMfaSetup),
         ReqExact("POST", a \o <<"mfa", "enable">>, "user", ReqMfaEnable),
         ReqExact("POST", a \o <<"mfa", "disable">>, "user", ReqMfaDisable),
         ReqExact("POST", a \o <<"mfa", "regenerate-recovery-codes">>, "user", ReqMfaCodes)>>

ReqUserRoutes ==
    LET k == <<"api", "api-keys">>
        u == <<"api", "users">>
    IN <<ReqExact("GET", k \o <<"usage-stats">>, "user", ReqKeyUsage),
         ReqExact("GET", k, "user", ReqListKeys), ReqExact("POST", k, "user", ReqCreateKey),
         ReqUnder("POST", k, <<"revoke">>, "user", ReqRevokeKey),
         ReqUnder("DELETE", k, <<>>, "user", ReqDeleteKey),
         ReqExact("GET", u, "admin", ReqListUsers), ReqExact("POST", u, "admin", ReqCreateUser),
         ReqUnder("GET", u, <<>>, "admin", ReqGetUser),
         ReqUnder("PUT", u, <<>>, "admin", ReqUpdateUser),
         ReqUnder("DELETE", u, <<>>, "admin", ReqDeleteUser)>>

\* One row of the table for the account and its overrides: the handler tells
\* them apart by what is in the path.
ReqOverrideRoute(m, steps) ==
    ReqRoute(m, "override", <<"api", "accounts">>, <<"service-overrides", ReqSomeId>>, "admin", {steps})
ReqAccountRoutes ==
    LET a == <<"api", "accounts">>
    IN <<ReqExact("POST", a \o <<"discover-org">>, "admin", ReqDiscover),
         ReqExact("POST", a \o <<"self">>, "admin", ReqCreateSelf),
         ReqExact("GET", a \o <<"list">>, "user", ReqAccountNames),
         ReqExact("GET", a, "user", ReqListAccounts), ReqExact("POST", a, "admin", ReqCreateAccount),
         ReqUnder("POST", a, <<"credentials">>, "admin", ReqSaveCredentials),
         ReqUnder("POST", a, <<"test">>, "admin", ReqTestCredentials),
         ReqUnder("GET", a, <<"service-overrides">>, "user", ReqOverrides),
         ReqOverrideRoute("PUT", ReqSaveOverride), ReqUnder("PUT", a, <<>>, "admin", ReqUpdateAccount),
         ReqOverrideRoute("DELETE", ReqDeleteOverride),
         ReqUnder("DELETE", a, <<>>, "admin", ReqDeleteAccount),
         ReqUnder("GET", a, <<>>, "user", ReqGetAccount)>>

ReqGroupRoutes ==
    LET g == <<"api", "groups">>
    IN <<ReqExact("GET", g, "user", ReqListGroups), ReqExact("POST", g, "admin", ReqCreateGroup),
         ReqUnder("GET", g, <<>>, "user", ReqGetGroup),
         ReqUnder("PUT", g, <<>>, "admin", ReqUpdateGroup),
         ReqUnder("DELETE", g, <<>>, "admin", ReqDeleteGroup),
         ReqExact("GET", <<"api", "inventory", "commitments">>, "user", ReqInventory),
         ReqExact("GET", <<"api", "inventory", "coverage">>, "user", ReqCoverage)>>

ReqExchangeRoutes ==
    LET e == <<"api", "ri-exchange">>
        azure == e \o <<"azure-instances">>
    IN <<ReqExact("GET", azure, "user", ReqAzureRIs),
         ReqExact("POST", azure \o <<"compatible-offerings">>, "user", ReqAzureOfferings),
         ReqExact("POST", azure \o <<"exchange">>, "user", ReqAzureExchange),
         ReqExact("GET", e \o <<"instances">>, "user", ReqConvertibles),
         ReqExact("GET", e \o <<"target-offerings">>, "user", ReqOfferings),
         ReqExact("GET", e \o <<"utilization">>, "user", ReqUtilization),
         ReqExact("GET", e \o <<"reshape-recommendations">>, "user", ReqReshape),
         ReqExact("POST", e \o <<"quote">>, "user", ReqQuote),
         ReqExact("POST", e \o <<"execute">>, "user", ReqExchange),
         ReqExact("GET", e \o <<"config">>, "user", ReqExchangeConfig),
         ReqExact("PUT", e \o <<"config">>, "user", ReqUpdateExchangeConfig),
         ReqExact("GET", e \o <<"history">>, "user", ReqExchangeHistory),
         ReqRoute("POST", "under", e \o <<"approve">>, <<>>, "public",
                  {ReqApproveExchange, ReqApproveExchangeSigned}),
         ReqUnder("POST", e \o <<"reject">>, <<>>, "public", ReqRejectExchange)>>

ReqOtherRoutes ==
    LET r == <<"api", "registrations">>
    IN <<ReqExact("GET", <<"api", "ladder", "configs">>, "user", ReqLadderConfigs),
         ReqExact("PUT", <<"api", "ladder", "configs">>, "user", ReqPutLadder),
         ReqExact("GET", <<"api", "notifications", "unsubscribe">>, "public", ReqUnsubscribe),
         ReqExact("POST", <<"api", "notifications", "unsubscribe">>, "public", ReqUnsubscribe),
         ReqExact("POST", <<"api", "register">>, "public", ReqRegister),
         ReqUnder("GET", <<"api", "register">>, <<>>, "public", ReqRegistrationStatus),
         ReqExact("GET", r, "admin", ReqRegistrations),
         ReqUnder("POST", r, <<"approve">>, "admin", ReqApproveRegistration),
         ReqUnder("POST", r, <<"reject">>, "admin", ReqRejectRegistration),
         ReqUnder("DELETE", r, <<>>, "admin", ReqDeleteRegistration),
         ReqUnder("GET", r, <<>>, "admin", ReqRegistration),
         ReqExact("GET", <<"api", "federation", "iac">>, "user", ReqFederation),
         ReqExact("any", <<"health">>, "public", ReqHealth),
         ReqExact("any", <<"api", "health">>, "public", ReqHealth),
         ReqExact("GET", <<"api", "info">>, "public", ReqInfo),
         ReqExact("GET", <<"api", "info", "deployment">>, "user", ReqDeployment),
         ReqExact("GET", <<"version">>, "public", ReqVersion),
         ReqRoute("GET", "root", <<"api", "docs">>, <<>>, "public", {ReqDocs}),
         ReqRoute("HEAD", "root", <<"api", "docs">>, <<>>, "public", {ReqDocs}),
         ReqRoute("GET", "root", <<"docs">>, <<>>, "public", {ReqDocs}),
         ReqRoute("HEAD", "root", <<"docs">>, <<>>, "public", {ReqDocs})>>

\* registerRoutes
ReqEarlyRoutes ==
    ReqPageRoutes \o ReqPlanRoutes \o ReqPurchaseRoutes \o ReqHistoryRoutes \o ReqSignInRoutes
ReqRoutes ==
    ReqEarlyRoutes \o ReqUserRoutes \o ReqAccountRoutes \o ReqGroupRoutes \o ReqExchangeRoutes
    \o ReqOtherRoutes

\* Mutant: the suffix is not compared.
ReqMatchesPrefix(r, m, path) ==
    /\ r.m \in {"any", m}
    /\ \/ r.kind = "exact" /\ path = r.pre
       \/ r.kind = "root" /\ IsPrefix(r.pre, path)
       \/ r.kind = "under" /\ IsStrictPrefix(r.pre, path)
\* matches: a prefix ends in a slash and needs something after it, a suffix may
\* be all of it; docs are a prefix without a slash.
ReqMatches(r, m, path) ==
    /\ r.m \in {"any", m}
    /\ CASE r.kind = "exact" -> path = r.pre
         [] r.kind = "root" -> IsPrefix(r.pre, path)
         [] r.kind = "under" -> IsStrictPrefix(r.pre, path) /\ IsSuffix(r.suf, path)
         [] r.kind = "override" -> /\ IsStrictPrefix(r.pre, path)
                                   /\ \E i \in Len(r.pre) + 2 .. Len(path) - 1 : path[i] = r.suf[1]
\* Route: the first that matches.
ReqResolve(m, path) ==
    LET hits == {i \in DOMAIN ReqRoutes : ReqMatches(ReqRoutes[i], m, path)}
    IN IF hits = {} THEN 0 ELSE CHOOSE i \in hits : \A j \in hits : i <= j
\* A path of each route, as its clients build it.
ReqPathOf(r) == IF r.kind \in {"exact", "root"} THEN r.pre ELSE ReqPath(r.pre, r.suf)

\* isPublicEndpoint: by the first characters of the path, whatever follows.
ReqOpenUnder ==
    {<<"health">>, <<"api", "health">>, <<"api", "info">>, <<"docs">>, <<"api", "docs">>,
     <<"api", "notifications", "unsubscribe">>, <<"api", "register">>}
    \cup {<<"api", "purchases", w>> : w \in {"approve", "cancel", "revoke"}}
    \cup {<<"api", "ri-exchange", w>> : w \in {"approve", "reject"}}
    \cup {<<"api", "auth", w>> : w \in {"login", "check-admin", "setup-admin", "forgot-password", "reset-password"}}
ReqOpen(path) == path = <<"version">> \/ \E pre \in ReqOpenUnder : IsPrefix(pre, path)
\* requiresCSRFValidation: of a request that was let in by its principal.
ReqForgeable(m) == m \in {"POST", "PUT", "DELETE"}

\* validateRequestContext, then the level of the route.
ReqWayIn(r, c) ==
    ReqSize \o ReqMedia
    \o (IF ReqOpen(ReqPathOf(r)) THEN <<>>
        ELSE ReqPrincipal \o (IF ReqForgeable(r.m) /\ c.key = "none" THEN ReqForgery ELSE <<>>))
ReqLevel(r) ==
    CASE r.level = "public" -> <<>> [] r.level = "user" -> ReqPrincipal [] r.level = "admin" -> ReqAdmin
------------------------------------------------------------------------------
ReqInit ==
    /\ reqRoute \in DOMAIN ReqRoutes
    /\ reqCaller \in ReqCallers
    /\ reqSteps \in {ReqWayIn(ReqRoutes[reqRoute], reqCaller) \o ReqLevel(ReqRoutes[reqRoute]) \o way :
                        way \in ReqRoutes[reqRoute].ways}
    /\ reqAt = 1 /\ reqAns = {}
    /\ reqHeld = {} /\ reqStale = {} /\ reqDone = {} /\ reqLost = {}

ReqRuns == reqAns = {}
ReqNow == reqSteps[reqAt]
ReqGo(done) == /\ reqDone' = done /\ reqAt' = reqAt + 1 /\ UNCHANGED reqAns
\* Rows are taken back as far as that works.
ReqEnd(ans) ==
    /\ reqAns' = {ans}
    /\ reqDone' \in {reqDone, reqDone \ ReqNow.undo}
    /\ UNCHANGED <<reqAt, reqHeld, reqStale, reqLost>>

ReqCheck ==
    /\ ReqNow.do = "no"
    /\ \/ ReqGo(reqDone) /\ UNCHANGED <<reqHeld, reqStale, reqLost>>
       \/ \E code \in ReqNow.codes : ReqEnd(code)
ReqAsk ==
    /\ ReqNow.do = "who"
    /\ \/ /\ ReqPasses(ReqNow.who, reqCaller) /\ ReqGo(reqDone)
          /\ UNCHANGED <<reqHeld, reqStale, reqLost>>
       \/ /\ ~ReqPasses(ReqNow.who, reqCaller)
          /\ \E code \in ReqTurnedAway(ReqNow.who, reqCaller) : ReqEnd(code)
       \/ ReqLookupFails(ReqNow.who, reqCaller) /\ ReqEnd(500)
ReqFetch ==
    /\ ReqNow.do \in {"read", "peek"}
    /\ \/ /\ ReqGo(reqDone)
          /\ reqHeld' = reqHeld \cup ReqNow.rows /\ reqStale' = reqStale \ ReqNow.rows
          /\ UNCHANGED reqLost
       \/ ReqNow.do = "read" /\ \E code \in ReqNow.codes \cup {500} : ReqEnd(code)
ReqWrite ==
    /\ ReqNow.do \in {"put", "save"}
    /\ \/ /\ ReqGo(reqDone \cup ReqNow.rows)
          /\ reqLost' = IF ReqNow.do = "save" THEN reqLost \cup (ReqNow.rows \cap reqStale) ELSE reqLost
          /\ UNCHANGED <<reqHeld, reqStale>>
       \/ \E code \in ReqNow.codes \cup {500} : ReqEnd(code)
ReqTake ==
    /\ ReqNow.do = "claim"
    /\ \/ /\ ReqNow.rows \cap reqStale = {} /\ ReqGo(reqDone \cup ReqNow.rows)
          /\ UNCHANGED <<reqHeld, reqStale, reqLost>>
       \/ \E code \in ReqNow.codes \cup {500} : ReqEnd(code)
ReqAttempt ==
    /\ ReqNow.do = "try"
    /\ \E done \in {reqDone, reqDone \cup ReqNow.rows} : ReqGo(done)
    /\ UNCHANGED <<reqHeld, reqStale, reqLost>>
ReqAnswer == reqAt > Len(reqSteps) /\ reqAns' = {200} /\ UNCHANGED <<reqAt, reqHeld, reqStale, reqDone, reqLost>>

\* Another request writes rows this one has read.
ReqOther ==
    /\ \E rows \in SUBSET (reqHeld \ reqStale) : rows # {} /\ reqStale' = reqStale \cup rows
    /\ UNCHANGED <<reqAt, reqHeld, reqDone, reqLost, reqAns>>
ReqCrash == reqAns' = {1} /\ UNCHANGED <<reqAt, reqHeld, reqStale, reqDone, reqLost>>

ReqNext ==
    /\ ReqRuns
    /\ \/ reqAt <= Len(reqSteps) /\ (ReqCheck \/ ReqAsk \/ ReqFetch \/ ReqWrite \/ ReqTake \/ ReqAttempt)
       \/ ReqAnswer \/ ReqOther \/ ReqCrash
    /\ UNCHANGED <<reqRoute, reqCaller, reqSteps>>

ReqSpec == ReqInit /\ [][ReqNext]_reqVars
------------------------------------------------------------------------------
ReqWays(name) == \E r \in {ReqRoutes[reqRoute]} : name \in r.ways

\* The rows a handler may have written although it answers with a refusal: the
\* plan of which the accounts did not fit and that could not be taken back, the
\* decision on a registration whose account could not be made, the purchase that
\* is canceled though its plan is gone, a listing the provider would not take.
ReqLate ==
    {row \in {"plan", "registration", "execution", "history"} :
        \/ row = "plan" /\ ReqWays(ReqCreatePlan)
        \/ row = "registration" /\ ReqWays(ReqApproveRegistration)
        \/ row = "execution" /\ ReqWays(ReqDeletePlanned)
        \/ row = "history" /\ ReqWays(ReqList)}
\* Whoever is refused has changed nothing else.
ReqRefusedChangesNothing == reqAns \cap (400 .. 499) # {} => reqDone \subseteq ReqLate

\* Rows on which money or a decision hangs are never written over as they were
\* read, whoever wrote them in between.
ReqNoDecisionLost ==
    reqLost \cap {"execution", "settings", "registration", "exchange", "history", "marker", "claim"} = {}

\* Wherever a request stops, by a refusal, a failure or a crash: a plan has its
\* planned rows if it has their date, accounts only beside a plan, an account of
\* a registration only with the decision, a credential and a link only with the
\* account, and nobody was written to about a row that is not there.
ReqOrder(later, earlier) == later \in reqDone => earlier \in reqDone
ReqNothingHalf ==
    /\ ReqWays(ReqCreatePlanned) => ("plan" \in reqDone <=> "planned" \in reqDone)
    /\ ReqWays(ReqCreatePlan) => ReqOrder("members", "plan")
    /\ ReqWays(ReqApproveRegistration) =>
         /\ ReqOrder("account", "registration") /\ ReqOrder("link", "account")
         /\ ReqOrder("credential", "account") /\ ReqOrder("mail", "registration")
    /\ ReqWays(ReqSubmit) => ReqOrder("mail", "execution")
    /\ ReqWays(ReqRegister) => ReqOrder("mail", "registration")

ReqSound == ReqRefusedChangesNothing /\ ReqNoDecisionLost /\ ReqNothingHalf

\* Behind a route that asks for a user nothing but the caller's own account and
\* session is written for callers without a right, and nothing behind a route
\* for administrators for who is none.
ReqWrittenByRight ==
    LET r == ReqRoutes[reqRoute]
        c == reqCaller
    IN  /\ (r.level = "user" /\ ~ReqCanDo(c, FALSE)) => reqDone \subseteq {"user", "session"}
        /\ (r.level = "admin" /\ ~ReqPasses("admin", c)) => reqDone = {}
\* Every route is the first for a path of its own, and a route without a level
\* is not stopped on the way in: what is behind it is for mails and forms.
ReqServed(i) ==
    LET r == ReqRoutes[i]
    IN  /\ ReqResolve(r.m, ReqPathOf(r)) = i
        /\ r.level = "public" => ReqOpen(ReqPathOf(r))
ReqPermitted == ReqWrittenByRight /\ (reqAt = 1 => ReqServed(reqRoute))

\* What a request leaves behind is permitted, whole, and what its answer says.
ReqHonest == ReqSound /\ ReqPermitted
================================================================================

----------------------------- MODULE RequestHandlers ----------------------------
(* The handlers of the HTTP API, each the sequence of its steps: who is let     *)
(* through, refusals with their codes, reads, writes of rows, best-effort       *)
(* writes and mails, compensations. What a refusal says and what an answer      *)
(* holds are left out. Handlers whose effects another module follows in detail  *)
(* (purchases, exchanges, registrations ...) are here with the rows they touch. *)
EXTENDS RequestSteps

(* Users, groups, API keys, mails. *)
ReqListUsers == ReqMay \o ReqNo({500})
ReqCreateUser == ReqMay \o ReqLimit \o ReqBody \o ReqNo(ReqUserErrors) \o ReqPut({"user"})
ReqGetUser == ReqId \o ReqMay \o ReqRead({"user"}, {})
ReqUpdateUser == ReqId \o ReqMay \o ReqBody \o ReqRead({"user"}, ReqUserErrors) \o ReqSave({"user"})
ReqDeleteUser == ReqId \o ReqMay \o ReqNo({400}) \o ReqAtomic({"user"}, ReqUserErrors)
ReqListGroups == ReqMay \o ReqNo({500})
ReqGroupErrors == {400, 403}
ReqCreateGroup == ReqMay \o ReqLimit \o ReqBody \o ReqNo(ReqGroupErrors) \o ReqPut({"group"})
ReqGetGroup == ReqId \o ReqMay \o ReqRead({"group"}, {})
ReqUpdateGroup == ReqId \o ReqMay \o ReqBody \o ReqRead({"group"}, ReqGroupErrors) \o ReqSave({"group"})
ReqDeleteGroup == ReqId \o ReqMay \o ReqRead({"group"}, ReqGroupErrors) \o ReqPut({"group"})
ReqListKeys == ReqMay \o ReqNo({500})
ReqCreateKey == ReqMay \o ReqLimit \o ReqBody \o ReqNo({500}) \o ReqPut({"key"})
ReqKeyId == ReqNo({400})
ReqDeleteKey == ReqMay \o ReqKeyId \o ReqRead({"key"}, {}) \o ReqPut({"key"})
ReqRevokeKey == ReqMay \o ReqKeyId \o ReqRead({"key"}, {}) \o ReqSave({"key"})
ReqKeyUsage == ReqMay \o ReqNo({400}) \o ReqNo({500})
ReqOneClick == ReqNo({400})
ReqUnsubscribeParams == ReqNo({400})
ReqUnsubscribe == ReqOneClick \o ReqUnsubscribeParams \o ReqNo({401, 500}) \o ReqPut({"mute"})

(* Settings. *)
\* Who the installation is, for administrators who ask.
ReqSourceIdentity == ReqPeek({"identity"})
ReqGetConfig == ReqMay \o ReqNo({500}) \o ReqSourceIdentity
\* Under the lock of the row, with the right to exchange asked for when the
\* change arms the exchanges or raises their limits. The defaults of the
\* services follow as far as they can be written, each over what was listed.
ReqAutoModeGrant == {403}
ReqDefaults == ReqPeek({"service"}) \o ReqTry({"service"})
ReqUpdateConfig == ReqMay \o ReqBody \o ReqAtomic({"settings"}, {400} \cup ReqAutoModeGrant) \o ReqDefaults
ReqServicePath == ReqNo({400})
ReqGetService == ReqMay \o ReqServicePath \o ReqRead({"service"}, {})
ReqMergeService == ReqRead({"service"}, {400})
ReqCombo == ReqNo({400})
ReqUpdateService ==
    ReqMay \o ReqServicePath \o ReqBody \o ReqMergeService \o ReqNo({400}) \o ReqCombo
    \o ReqSave({"service"})
ReqExchangeConfig == ReqMay \o ReqNo({500})
ReqExchangeConfigBody == ReqNo({400})
ReqUpdateExchangeConfig ==
    ReqMay \o ReqBody \o ReqExchangeConfigBody \o ReqAtomic({"settings"}, ReqAutoModeGrant)
ReqLadderScope == ReqScope \o ReqPeek({"account"})
ReqLadderConfigs == ReqMay \o ReqNo({500}) \o ReqLadderScope
ReqLadderDefaults == ReqNo({400})
ReqLadderAccount == ReqAccountInScope \o ReqNo({400})
ReqPutLadder ==
    ReqMay \o ReqBody \o ReqLadderDefaults \o ReqLadderAccount \o ReqPut({"ladder"})

(* Plans. *)
ReqPlanAccountList == ReqNo({400})
ReqProvidersFit == ReqRead({"plan"}, {404}) \o ReqNo({400, 404, 500})
\* The plan is written before its accounts are found to fit, and taken back
\* when they do not.
ReqCreatePlan ==
    ReqMay \o ReqBody \o ReqPlanAccountList \o ReqNo({400}) \o ReqPut({"plan"})
    \o ReqUndoing(ReqNo({400, 404}) \o ReqPut({"members"}), {"plan"})
ReqListPlans == ReqMay \o ReqNo({400}) \o ReqNo({500})
ReqGetPlan == ReqId \o ReqMay \o ReqPlanInScope \o ReqRead({"plan"}, {404})
ReqReplacePlan ==
    ReqId \o ReqMay \o ReqPlanInScope \o ReqBody \o ReqRead({"plan"}, {404})
    \o ReqNo({400}) \o ReqSave({"plan"})
ReqPatchFields == ReqNo({400})
ReqPatchPlan ==
    ReqId \o ReqMay \o ReqPlanInScope \o ReqBody \o ReqRead({"plan"}, {404})
    \o ReqPatchFields \o ReqNo({400}) \o ReqSave({"plan"})
ReqDeletePlan == ReqId \o ReqMay \o ReqPlanInScope \o ReqPut({"plan"})
ReqPlannedBody == ReqNo({400})
\* Mutant: the rows outside the transaction of the date.
ReqCreatePlannedTwice ==
    ReqId \o ReqMay \o ReqPlanInScope \o ReqPlannedBody \o ReqRead({"plan"}, {404})
    \o ReqPut({"planned"}) \o ReqSave({"plan"})
\* The rows, and the date as part of the plan that was read, in one transaction.
ReqCreatePlanned ==
    ReqId \o ReqMay \o ReqPlanInScope \o ReqPlannedBody \o ReqRead({"plan"}, {404})
    \o ReqSave({"plan", "planned"})
ReqSetPlanAccounts ==
    ReqId \o ReqMay \o ReqBody \o ReqPlanAccountList \o ReqPlanAccountsInScope
    \o ReqProvidersFit \o ReqAtomic({"members"}, {404})
ReqListPlanAccounts == ReqId \o ReqMay \o ReqPlanInScope \o ReqNo({500}) \o ReqScope

(* Accounts and registrations. *)
ReqMarkSelf == ReqPeek({"identity"})
ReqAccountFilter == ReqNo({400})
ReqListAccounts == ReqMay \o ReqAccountFilter \o ReqNo({500}) \o ReqScope \o ReqMarkSelf
ReqAccountNames == ReqMay \o ReqAccountFilter \o ReqNo({500}) \o ReqScope \o ReqMarkSelf
ReqAccountBody == ReqBody \o ReqNo({400})
ReqCreateAccount == ReqMay \o ReqAccountBody \o ReqAtomic({"account"}, {409})
ReqCreateSelf == ReqMay \o ReqNo({400}) \o ReqAtomic({"account"}, {409})
ReqGetAccount == ReqId \o ReqMay \o ReqAccountInScope
\* All that the request says, over whatever is there.
ReqUpdateAccount == ReqId \o ReqMay \o ReqAccountBody \o ReqAccountInScope \o ReqAtomic({"account"}, {404, 409})
ReqDeleteAccount ==
    ReqId \o ReqMay \o ReqAccountInScope \o ReqNo({409}) \o ReqAtomic({"account"}, {404, 409})
ReqSaveCredentials ==
    ReqId \o ReqMay \o ReqBody \o ReqAccountInScope \o ReqNo({400, 500}) \o ReqPut({"credential"})
ReqTestCredentials == ReqId \o ReqMay \o ReqAccountInScope \o ReqPeek({"credential"})
ReqOverridePath == ReqNo({400})
ReqOverrides == ReqId \o ReqMay \o ReqAccountInScope \o ReqNo({500})
ReqSaveOverride ==
    ReqOverridePath \o ReqMay \o ReqAccountInScope \o ReqBody \o ReqRead({"override"}, {})
    \o ReqCombo \o ReqSave({"override"})
ReqDeleteOverride == ReqOverridePath \o ReqMay \o ReqAccountInScope \o ReqPut({"override"})
\* The members one by one: one that is there already is passed over, another
\* failure ends it with the earlier ones in place.
ReqOrgRoot == ReqRead({"account"}, {400, 404})
ReqDiscover ==
    ReqAdmin \o ReqBody \o ReqOrgRoot \o ReqNo({500}) \o ReqNo({500}) \o ReqPut({"account"}) \o ReqPut({"account"})

ReqRegister ==
    ReqLimit \o ReqBody \o ReqNo({400}) \o ReqNo({500}) \o ReqAtomic({"registration"}, {409})
    \o ReqTry({"mail"})
ReqRegistrationStatus == ReqRead({"registration"}, {404})
ReqRegistrationFilter == ReqNo({400})
ReqRegistrations == ReqRegistrationFilter \o ReqNo({500})
ReqRegistration == ReqId \o ReqRead({"registration"}, {404})
\* The status changes first; the account, its credential and the link between
\* them follow without a way back.
ReqPending == ReqRead({"registration"}, {404, 409})
ReqStoreCredential == ReqTry({"credential"})
ReqApproveRegistration ==
    ReqId \o ReqPending \o ReqAccountBody \o ReqClaim({"registration"})
    \o ReqAtomic({"account"}, {409}) \o ReqStoreCredential \o ReqTry({"link"}) \o ReqTry({"mail"})
ReqRejectRegistration ==
    ReqId \o ReqPending \o ReqBody \o ReqClaim({"registration"}) \o ReqTry({"mail"})
ReqDeleteRegistration == ReqId \o ReqRead({"registration"}, {404}) \o ReqPut({"registration"})

(* Recommendations. *)
ReqRecsParams == ReqNo({400})
ReqRecommendations == ReqMay \o ReqRecsParams \o ReqNo({500}) \o ReqScope
ReqFreshness == ReqMay \o ReqNo({500})
ReqDetail == ReqMay \o ReqNo({404, 500}) \o ReqScope \o ReqNo({404})
\* A marker keeps a second collection out; it is taken back when the collection
\* cannot be started.
ReqRefresh ==
    ReqMay \o ReqNo({500}) \o ReqClaim({"marker"})
    \o ReqUndoing(ReqNo({500}), {"marker"}) \o ReqTry({"recs"})
ReqOptions == ReqPeek({"options"})

(* Purchases. *)
ReqPlanSeen == ReqNo({500})
ReqPlanned == ReqMay \o ReqNo({500}) \o ReqNo({500}) \o ReqPlanSeen
\* Another creator's is not for everyone.
ReqManage == ReqNo({403, 404, 500})
ReqPause == ReqId \o ReqMay \o ReqExecutionInScope \o ReqManage \o ReqClaim({"execution"})
ReqResume == ReqId \o ReqMay \o ReqExecutionInScope \o ReqManage \o ReqClaim({"execution"})
ReqRun == ReqId \o ReqMayCarved \o ReqExecutionInScope \o ReqManage \o ReqClaim({"execution"})
ReqDeleteOrCancel == ReqMayAny
ReqCancelOwn == ReqNo({403, 404, 500})
\* Canceled, or found canceled by an earlier attempt; only then is its plan
\* disabled, which may have been deleted meanwhile.
ReqCancelOrRecover == ReqClaim({"execution"})
ReqDisablePlan == ReqRead({"plan"}, {404}) \o ReqSave({"plan"})
ReqDeletePlanned ==
    ReqId \o ReqDeleteOrCancel \o ReqExecutionInScope \o ReqCancelOwn \o ReqCancelOrRecover \o ReqDisablePlan
ReqPurchaseDetails ==
    ReqId \o ReqMay \o ReqRead({"execution"}, {404}) \o ReqPlanInScope \o ReqPeek({"plan"})
ReqPercent == ReqNo({400})
ReqEachRec == ReqNo({400})
\* The money of the whole batch is held against the limit of every item.
ReqConstraints == ReqNo({400}) \o ReqWithinGrant
ReqSubmission ==
    ReqMayCarved \o ReqBody \o ReqPercent \o ReqBatchInScope \o ReqEachRec \o ReqConstraints
ReqTotals == ReqNo({400})
\* The rows and their suppressions in one transaction; the approver is written
\* to afterwards, and that it happened is noted if it can be.
ReqSubmit ==
    ReqSubmission \o ReqTotals \o ReqNo({500}) \o ReqPut({"execution"})
    \o ReqTry({"mail"}) \o ReqTry({"execution"})
ReqApproveExecution == ReqRead({"execution"}, {404, 409})
\* By the link in the mail, or by a session: the row is claimed, the purchase
\* itself is not waited for by everyone.
ReqApprovePurchase == ReqLimit \o ReqId \o ReqApproveExecution \o ReqNo({400, 401, 403}) \o ReqClaim({"execution"})
ReqCancelPurchase == ReqLimit \o ReqId \o ReqApproveExecution \o ReqNo({400, 401, 403}) \o ReqClaim({"execution"})
ReqRevokeByMail == ReqLimit \o ReqId \o ReqRead({"execution"}, {404}) \o ReqNo({400, 403}) \o ReqClaim({"execution"})
ReqRetryOwn == ReqMay \o ReqNo({403})
ReqRetry ==
    ReqId \o ReqSession \o ReqRead({"execution"}, {404, 409}) \o ReqRetryOwn \o ReqClaim({"execution"})
    \o ReqTry({"mail"})
ReqRevokeOwn == ReqMay \o ReqNo({403, 500})
ReqProviderRevokes == ReqNo({400, 422})
\* An execution still waiting, or a commitment bought.
ReqRevoke ==
    ReqNo({400}) \o ReqSession \o ReqPeek({"execution"}) \o ReqRead({"history"}, {404}) \o ReqRevokeOwn
    \o ReqProviderRevokes \o ReqClaim({"history"})
ReqRevokeRequest == ReqNo({400}) \o ReqSession \o ReqRead({"history"}, {404}) \o ReqRevokeOwn \o ReqNo({400, 422})
ReqRefundQuote == ReqRevokeRequest \o ReqNo({400, 500})
ReqSellOwn == ReqMay \o ReqNo({403, 500})
ReqSellErrors == {400, 502}
ReqPriceSchedule == ReqNo({400})
\* Listed with the provider only after the row is claimed for it.
ReqList ==
    ReqSession \o ReqRead({"history"}, {400, 404}) \o ReqSellOwn \o ReqPriceSchedule \o ReqClaim({"history"})
    \o ReqUndoing(ReqNo(ReqSellErrors), {"history"}) \o ReqPut({"history"})
ReqUnlist ==
    ReqSession \o ReqRead({"history"}, {400, 404}) \o ReqSellOwn \o ReqNo(ReqSellErrors) \o ReqPut({"history"})

(* Exchanges. *)
ReqRunningAccount == ReqScope
ReqAwsConfig == ReqNo({500})
ReqRegionOfAccount == ReqNo({500})
ReqConvertibles == ReqMay \o ReqRunningAccount \o ReqRegionOfAccount \o ReqAwsConfig \o ReqNo({500})
ReqOfferings == ReqMay \o ReqNo({400}) \o ReqAwsConfig \o ReqNo({500}) \o ReqNo({404}) \o ReqNo({500})
ReqReshapeParams == ReqNo({400})
\* What was fetched is kept, if that works.
ReqCached == ReqNo({500}) \o ReqTry({"utilization"})
ReqUtilization == ReqMay \o ReqRunningAccount \o ReqReshapeParams \o ReqAwsConfig \o ReqCached
ReqStaleness == ReqPeek({"freshness"})
ReqReshape ==
    ReqMay \o ReqRunningAccount \o ReqReshapeParams \o ReqAwsConfig \o ReqNo({500}) \o ReqCached
    \o ReqRunningAccount \o ReqStaleness
ReqAwsTargets == ReqNo({400})
ReqQuote == ReqMay \o ReqBody \o ReqAwsTargets \o ReqAwsConfig \o ReqNo({400, 500})
ReqSubscriptionInScope == ReqScope \o ReqNo({404, 500})
ReqAzureScope == ReqScope \o ReqNo({500})
ReqAzureClient == ReqPeek({"account"}) \o ReqNo({404, 500})
ReqAzureSources == ReqNo({400})
ReqAzureTargets == ReqNo({400})
ReqAzureBody == ReqNo({400}) \o ReqAzureSources \o ReqAzureTargets
ReqAzureRIs == ReqMay \o ReqSubscriptionInScope \o ReqAzureClient \o ReqNo({500}) \o ReqAzureScope
ReqAzureOfferings ==
    ReqMay \o ReqBody \o ReqAzureBody \o ReqSubscriptionInScope \o ReqAzureClient
    \o ReqNo({400, 403, 404, 500}) \o ReqNo({400, 500})
ReqAzureExecuteBody == ReqBody \o ReqAzureBody \o ReqNo({400})
\* A claim on the sources is taken before the provider is asked to exchange.
ReqExchange == ReqMayCarved \o ReqBody \o ReqAwsTargets \o ReqWithinGrant \o ReqNo({400, 403}) \o ReqClaim({"claim"})
ReqAzureExchange ==
    ReqMayCarved \o ReqAzureExecuteBody \o ReqSubscriptionInScope \o ReqWithinGrant \o ReqNo({400, 403}) \o ReqClaim({"claim"})
ReqExchangeHistory == ReqMay \o ReqNo({500}) \o ReqScope
ReqExchangeRow == ReqId \o ReqNo({400}) \o ReqRead({"exchange"}, {403, 404})
ReqExchangeRights == ReqMay \o ReqNo({403})
ReqExchangeForSession == ReqId \o ReqRead({"exchange"}, {404, 409}) \o ReqExchangeRights
\* Once claimed the exchange runs, and what became of it is recorded if it can be.
ReqApproveExchange == ReqLimit \o ReqExchangeRow \o ReqClaim({"exchange"}) \o ReqTry({"exchange"})
ReqApproveExchangeSigned ==
    ReqLimit \o ReqForgery \o ReqSession \o ReqExchangeForSession \o ReqClaim({"exchange"})
    \o ReqTry({"exchange"})
ReqRejectExchange == ReqLimit \o ReqExchangeRow \o ReqClaim({"exchange"})

(* Pages, and what needs no account. *)
ReqDates == ReqNo({400})
ReqAnalyticsScope == ReqScope \o ReqNo({400, 404})
ReqTrends == ReqMay \o ReqNo({503}) \o ReqAnalyticsScope \o ReqDates \o ReqNo({500})
ReqHistoryAnalytics == ReqMay \o ReqNo({503}) \o ReqNo({400}) \o ReqAnalyticsScope \o ReqDates \o ReqNo({500})
ReqBreakdown == ReqMay \o ReqNo({503}) \o ReqAnalyticsScope \o ReqDates \o ReqNo({500})
ReqCollect == ReqAdmin \o ReqNo({500}) \o ReqPut({"snapshot"})
ReqPage == ReqMay \o ReqNo({400}) \o ReqScope \o ReqNo({500})
ReqDashboard == ReqPage
ReqUpcoming == ReqPage
ReqHistory == ReqPage
ReqInventory == ReqPage
ReqCoverage == ReqPage
ReqFederationParams == ReqNo({400})
ReqFederation == ReqMay \o ReqFederationParams \o ReqNo({400}) \o ReqNo({500}) \o ReqNo({400, 500})
ReqHealth == ReqPeek({"health"})
ReqInfo == ReqNo({500})
ReqDeployment == ReqPeek({"identity"})
ReqVersion == ReqPeek({})
ReqDocs == ReqNo({404})
================================================================================

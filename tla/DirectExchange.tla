----------------------------- MODULE DirectExchange -----------------------------
(* Reservation exchanges submitted directly: the gates, the quote and the      *)
(* submit claim in front of a commit that cannot be taken back. The clouds     *)
(* accept the same exchange twice, so the claim is the only thing that keeps a *)
(* client that times out and retries from exchanging twice.                    *)
EXTENDS Naturals, Sequences

CONSTANTS
    DxRequests,     \* requests, retries among them
    DxBodies,       \* what a request may ask for: [cloud, sub, source, target,
                    \* cap, currency, spelling]; a source is [billed, region]
    DxPermissions,  \* what the session's permission may allow: [regions, amount]
    DxPrices,       \* what an exchange may cost
    DxWindow,       \* riExchangeIdempotencyWindow, in ticks
    DxLastTick,     \* bound on the clock
    DxNoRegion      \* Azure reports no region for a shared reservation

ASSUME DxAssumption ==
    /\ DxPrices \subseteq Nat /\ DxWindow \in Nat /\ DxLastTick \in Nat
    /\ \A b \in DxBodies : b.cloud \in {"aws", "azure"} /\ b.cap \in Nat
    /\ \A p \in DxPermissions : p.amount \in Nat

VARIABLES dxReq, dxPerm, dxPrice, dxNow, dxClaims, dxDone
dxVars == <<dxReq, dxPerm, dxPrice, dxNow, dxClaims, dxDone>>

DxNew == [stage |-> "new"]

DxInit ==
    /\ dxReq = [r \in DxRequests |-> DxNew]
    /\ dxPerm \in DxPermissions
    /\ dxPrice \in DxPrices
    /\ dxNow = 0
    /\ dxClaims = {}            \* [key, at, by, cloud], the latest of each key
    /\ dxDone = {}              \* exchanges the cloud committed

DxAt(r, stage) == dxReq[r].stage = stage
DxGoTo(r, stage) == dxReq' = [dxReq EXCEPT ![r].stage = stage]
DxEnd(r) == DxGoTo(r, "ended")
DxRefuse(r) == DxGoTo(r, "refused")

\* What money is spent on, whoever asks and however it is spelled.
DxBought(b) == [cloud |-> b.cloud, sub |-> b.sub, source |-> b.source, target |-> b.target]

------------------------------------------------------------------------------
(* The gates.                                                                  *)

\* validateExecuteExchangeBody, parseAzureExecuteRequest: a malformed request
\* is refused before anything else and is left out.
DxSubmit(r) ==
    /\ DxAt(r, "new")
    /\ \E b \in DxBodies : dxReq' = [dxReq EXCEPT ![r] =
            [stage |-> "gates", body |-> b, price |-> 0, claimed |-> 0]]
    /\ UNCHANGED <<dxPerm, dxPrice, dxNow, dxClaims, dxDone>>

\* Mutant: the regions of the targets alone.
DxTargetRegions(b) == {b.target}

\* exchangeRegions: both sides; a region Azure does not report can be named by
\* no permission.
DxRegions(b) == {b.target, IF b.cloud = "aws" THEN b.target ELSE b.source.region}

\* matchAllRegionsConstraint: no regions in the permission is no restriction.
DxRegionsAllowed(b) == dxPerm.regions = {} \/ DxRegions(b) \subseteq dxPerm.regions

\* checkAzureExecuteConstraints: an amount in another currency is taken to exceed
\* any limit (0 stands for no limit).
DxAmountAllowed(b) ==
    dxPerm.amount = 0 \/ (b.currency = "USD" /\ b.cap <= dxPerm.amount)

\* requireAzureSourceOwnership.
DxSourceOwned(b) == b.cloud = "azure" => b.source.billed = b.sub

\* Mutant: the claim before Azure's quote.
DxOrderClaimFirst(cloud) == IF cloud = "azure"
    THEN <<"gates", "claim", "price", "commit">>
    ELSE <<"gates", "claim", "price", "requote", "commit">>

\* executeAzureExchange and executeExchange: the order of the steps. For AWS the
\* quotes are inside the call that commits.
DxOrder(cloud) == IF cloud = "azure"
    THEN <<"gates", "price", "claim", "commit">>
    ELSE <<"gates", "claim", "price", "requote", "commit">>

DxNextStage(r) ==
    LET order == DxOrder(dxReq[r].body.cloud)
    IN order[1 + CHOOSE i \in 1 .. (Len(order) - 1) : order[i] = dxReq[r].stage]

\* authorizeAzureExchangeExecution; for AWS, the constraints alone.
DxAuthorize(r) ==
    /\ DxAt(r, "gates")
    /\ LET b == dxReq[r].body
       IN IF DxSourceOwned(b) /\ DxRegionsAllowed(b) /\ DxAmountAllowed(b)
          THEN DxGoTo(r, DxNextStage(r)) ELSE DxRefuse(r)
    /\ UNCHANGED <<dxPerm, dxPrice, dxNow, dxClaims, dxDone>>

\* checkAzureExchangeMoneyGuardrails, checkInitialQuote and checkReQuote. Azure's
\* session fixes the price. A policy error or an invalid exchange refuses too.
DxQuote(r) ==
    /\ dxReq[r].stage \in {"price", "requote"}
    /\ \/ /\ dxPrice <= dxReq[r].body.cap
          /\ dxReq' = [dxReq EXCEPT ![r].stage = DxNextStage(r), ![r].price = dxPrice]
       \/ DxRefuse(r)
    /\ UNCHANGED <<dxPerm, dxPrice, dxNow, dxClaims, dxDone>>

------------------------------------------------------------------------------
(* The claim and the commit.                                                   *)

\* Mutant: the fingerprint of the request, its spend cap included.
DxKeyWithCap(b) == <<DxBought(b), b.cap>>

\* azureExchangeIdempotencyKey, awsExchangeIdempotencyKey: neither the cap, the
\* currency nor the spelling.
DxKey(b) == DxBought(b)

DxFree(key) == \A c \in dxClaims : c.key = key => c.at + DxWindow < dxNow

\* claimExchangeSubmit, ClaimRIExchangeIdempotencyKey: one statement, by the
\* clock of the database. A taken claim and a failed statement both refuse.
DxClaim(r) ==
    /\ DxAt(r, "claim")
    /\ LET key == DxKey(dxReq[r].body)
       IN \/ /\ DxFree(key)
             /\ dxClaims' = {c \in dxClaims : c.key # key}
                              \cup {[key |-> key, at |-> dxNow, by |-> r,
                                      cloud |-> dxReq[r].body.cloud]}
             /\ dxReq' = [dxReq EXCEPT ![r].stage = DxNextStage(r), ![r].claimed = dxNow]
          \/ DxRefuse(r) /\ UNCHANGED dxClaims
    /\ UNCHANGED <<dxPerm, dxPrice, dxNow, dxDone>>

\* ExecuteExchange and AcceptReservedInstancesExchangeQuote: the cloud commits,
\* whatever the client is told.
DxCommit(r) ==
    /\ DxAt(r, "commit")
    /\ dxDone' = dxDone \cup {[by |-> r, body |-> dxReq[r].body, quoted |-> dxReq[r].price,
                              claimed |-> dxReq[r].claimed]}
    /\ DxEnd(r)
    /\ UNCHANGED <<dxPerm, dxPrice, dxNow, dxClaims>>

\* The process, or the cloud's answer, is lost at any point.
DxDie(r) ==
    /\ dxReq[r].stage \notin {"new", "ended", "refused"}
    /\ DxEnd(r)
    /\ UNCHANGED <<dxPerm, dxPrice, dxNow, dxClaims, dxDone>>

DxTick ==
    /\ dxNow < DxLastTick /\ dxNow' = dxNow + 1
    /\ UNCHANGED <<dxReq, dxPerm, dxPrice, dxClaims, dxDone>>

DxPriceMoves ==
    /\ dxPrice' \in DxPrices \ {dxPrice}
    /\ UNCHANGED <<dxReq, dxPerm, dxNow, dxClaims, dxDone>>

DxNext ==
    \/ DxTick \/ DxPriceMoves
    \/ \E r \in DxRequests :
        \/ DxSubmit(r) \/ DxAuthorize(r) \/ DxQuote(r) \/ DxClaim(r)
        \/ DxCommit(r) \/ DxDie(r)

DxSpec == DxInit /\ [][DxNext]_dxVars
------------------------------------------------------------------------------
\* The same money is committed at most once in a window, whatever retries, cap,
\* currency or spelling the requests differ in (claimExchangeSubmit, #1642).
DxOncePerWindow ==
    \A d, e \in dxDone :
        d.by # e.by /\ DxBought(d.body) = DxBought(e.body)
            => d.claimed + DxWindow < e.claimed \/ e.claimed + DxWindow < d.claimed

\* A committed exchange touched only what its caller's permission names: the
\* region it takes from as well as the one it buys in, its own subscription's
\* reservations, and money the limit can be compared with
\* (authorizeAzureExchangeExecution).
DxWithinPermission ==
    \A d \in dxDone :
        /\ d.body.cloud = "azure" => d.body.source.billed = d.body.sub
        /\ dxPerm.regions # {} => /\ d.body.target \in dxPerm.regions
                                  /\ d.body.cloud = "azure" =>
                                        d.body.source.region \in dxPerm.regions
        /\ dxPerm.amount # 0 => d.quoted <= dxPerm.amount /\ d.body.currency = "USD"

\* A request that Azure's gates or quote turn away holds no claim, so the retry
\* that mends it is not refused (executeAzureExchange: "Taken here, last").
DxAzureRefusedHoldsNone ==
    \A c \in dxClaims : c.cloud = "azure" => dxReq[c.by].stage # "refused"

\* The claims that catch a double submit: one submission per window, and at Azure
\* none is held by a request that was turned away.
DxClaimsSound == DxOncePerWindow /\ DxAzureRefusedHoldsNone

\* Direct exchanges commit money once and inside the permission they were asked
\* with, whatever requests overlap and whichever of them dies.
DxSound == DxClaimsSound /\ DxWithinPermission

\* "no request that failed a gate ever holds a claim" (claimExchangeSubmit).
DxRefusedHoldsNone == \A c \in dxClaims : dxReq[c.by].stage # "refused"
================================================================================

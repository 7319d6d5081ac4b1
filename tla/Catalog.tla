------------------------------ MODULE Catalog ------------------------------
(* What the provider clients read from the clouds: the offering that answers a  *)
(* recommendation, the commitments there are, the resource types and the        *)
(* recommendations of a region, the price of an offering and how it is charged. *)
(* Every operation is a walk over the pages of a listing; one descriptor per    *)
(* operation says what the service filters, what the client filters, what it    *)
(* does at a page that fails, at its page cap and at a listing that has nothing.*)
EXTENDS FiniteSets, Naturals, Sequences

CONSTANTS
    CatCap,             \* maxOfferingPages, maxRecsPages and their like
    CatLastPage,        \* bound: pages a listing without a cap is followed
    CatPageSize,        \* bound: entries of a page
    CatLastEntry        \* bound: entries of a listing

ASSUME CatAssumption == CatCap \in Nat \ {0} /\ CatLastPage \in Nat /\ CatPageSize \in Nat
                        /\ CatLastEntry \in Nat

VARIABLES
    catOp,              \* the operation walked
    catPages,           \* pages read
    catSeen,            \* entries of those pages, in order
    catAns              \* CatOpen, or the answer
catVars == <<catOp, catPages, catSeen, catAns>>

CatOpen == [is |-> "open"]
CatError(why) == [is |-> "error", why |-> why]

\* A walk that filters nothing, has no cap (0) and takes any failure for an error.
CatWalk == [kind |-> "list", asks |-> {}, api |-> {}, skip |-> {}, fail |-> {}, pass |-> {},
            cap |-> 0, onCap |-> "error", onFail |-> "error",
            onNone |-> "list", noSource |-> "never", agree |-> {}, then |-> "",
            bills |-> "never"]

(* Searches. `asks` is what the recommendation names; `api` is in the request;  *)
(* an entry that misses `skip` is passed over, one of the rest that misses      *)
(* `fail` ends the search with an error, one that misses `pass` is passed over. *)
CatSearch(asks, api, skip, fail) ==
    [CatWalk EXCEPT !.kind = "search", !.asks = asks, !.api = api, !.skip = skip,
                    !.fail = fail, !.cap = CatCap, !.onNone = "error"]

CatEC2Asks == {"type", "platform", "tenancy", "scope", "term", "class", "sold by aws", "payment"}
CatEC2Offering == CatSearch(CatEC2Asks, CatEC2Asks, {"payment"}, {})
CatRDSAsks == {"class", "engine", "deployment", "term", "payment"}
CatRDSOffering == CatSearch(CatRDSAsks, CatRDSAsks, {}, {"payment"})
CatNodeAsks == {"node", "engine", "term", "payment"}
CatElastiCacheOffering == CatSearch(CatNodeAsks, CatNodeAsks, {}, {"payment"})
CatMemoryDBOffering == CatSearch(CatNodeAsks, CatNodeAsks, {}, {"payment"})
CatDomainAsks == {"type", "term", "payment"}
CatOpenSearchOffering == CatSearch(CatDomainAsks, {}, {"type", "term"}, {"payment"})
\* The kind checked, the payment option forgotten.
CatRedshiftAnyPayment ==
    CatSearch({"type", "term", "kind", "payment"}, {}, {"type", "term"}, {"kind"})
\* An upgradable node is as good as a regular one; any other kind is refused.
CatRedshiftOffering ==
    [CatSearch({"type", "term", "kind", "payment"}, {}, {"type", "term"}, {"kind"})
        EXCEPT !.pass = {"payment"}]
\* The exchange target: any payment option will do, and only one page is read.
CatConvertibleOffering ==
    [CatSearch(CatEC2Asks \ {"payment"}, CatEC2Asks \ {"payment"}, {}, {})
        EXCEPT !.cap = 1]
\* The smallest id of all that is offered, once it is of one family and region.
CatPlanOffering(asks, agree) ==
    [CatSearch(asks, asks, {}, {}) EXCEPT !.kind = "choice", !.agree = agree]
CatComputePlan == CatPlanOffering({"plan", "term", "payment"}, {})
CatInstancePlan(named) ==
    CatPlanOffering({"plan", "term", "payment"} \cup named, {"family", "region"} \ named)

\* GetOfferingDetails of AWS: the search, and a second request by the id.
CatDetails(search) == [search EXCEPT !.then = "describe"]
CatEC2Details == CatDetails(CatEC2Offering)
CatRDSDetails == CatDetails(CatRDSOffering)
CatElastiCacheDetails == CatDetails(CatElastiCacheOffering)
CatMemoryDBDetails == CatDetails(CatMemoryDBOffering)
CatOpenSearchDetails == CatDetails(CatOpenSearchOffering)
CatRedshiftDetails == CatDetails(CatRedshiftOffering)
CatPlanDetails == CatDetails(CatComputePlan)

(* Commitments there are. *)
CatList(asks, api, skip) == [CatWalk EXCEPT !.asks = asks, !.api = api, !.skip = skip]
CatEC2Commitments == CatList({"live"}, {"live"}, {})
CatConvertibleRIs == CatList({"live", "class"}, {"live", "class"}, {})
CatLive == CatList({"live"}, {}, {"live"})
CatRDSCommitments == CatLive
CatElastiCacheCommitments == CatLive
CatMemoryDBCommitments == CatLive
CatOpenSearchCommitments == CatLive
CatRedshiftCommitments == CatLive
\* Plans past the cap are left out without an error.
CatPlanCommitments ==
    [CatList({"live", "service"}, {"live"}, {"service"}) EXCEPT !.cap = CatCap, !.onCap = "list"]
\* A subscription whose pager cannot be made has no commitments.
CatAzureCommitments ==
    [CatList({"service"}, {}, {"service"}) EXCEPT !.cap = CatCap, !.noSource = "list"]
CatRedisCommitments == CatAzureCommitments
CatVMCommitments == CatAzureCommitments
CatCosmosCommitments == CatAzureCommitments
CatSQLCommitments == CatAzureCommitments
CatSearchCommitments == CatAzureCommitments
CatManagedRedisCommitments == [CatList({"service"}, {}, {"service"}) EXCEPT !.noSource = "error"]
CatSynapseCommitments == [CatList({"service"}, {}, {"service"}) EXCEPT !.noSource = "error"]
CatAzurePlanCommitments == [CatList({"id"}, {}, {"id"}) EXCEPT !.noSource = "error"]
CatCUDs == [CatList({}, {}, {}) EXCEPT !.cap = CatCap, !.noSource = "error"]

(* Resource types, and the check of one of them against the list. A client     *)
(* that has a common list of its own answers with it when it reads none.        *)
CatTypes(skip, cap, noSource, onNone) ==
    [CatList(skip, {}, skip) EXCEPT !.cap = cap, !.noSource = noSource, !.onNone = onNone]
CatAWSTypes == CatTypes({"named"}, 0, "never", "list")
CatEC2Types == CatAWSTypes
CatRDSTypes == CatAWSTypes
CatElastiCacheTypes == CatAWSTypes
CatMemoryDBTypes == CatAWSTypes
CatRedshiftTypes == CatAWSTypes
CatVMTypes == CatTypes({"region"}, CatCap, "error", "error")
CatSQLTypes == CatTypes({"region"}, 0, "error", "error")
CatCloudSQLTypes == CatTypes({"region"}, 0, "error", "error")
CatMachineTypes == CatTypes({"named"}, CatCap, "error", "error")
\* A page that fails and the cap end the walk with what there is so far.
CatTolerantTypes ==
    [CatTypes({"named"}, CatCap, "common", "common") EXCEPT !.onCap = "list", !.onFail = "list"]
CatRedisTypes == CatTolerantTypes
CatCosmosTypes == CatTolerantTypes
CatSearchTypes == CatTolerantTypes
CatManagedRedisTypes == [CatTypes({"named"}, 0, "common", "common") EXCEPT !.onFail = "common"]

\* The SKU catalogues, read once in a client's life: a failure leaves none.
CatCatalogue(asks, cap) ==
    [CatTypes(asks, cap, "nothing", "list") EXCEPT !.onFail = "nothing", !.onCap = "list"]
CatVMCatalogue == CatCatalogue({"region"}, CatCap)
CatRedisCatalogue == CatCatalogue({"named"}, 0)
CatSQLCatalogue == CatCatalogue({"named"}, 0)
CatCosmosAPIs == CatCatalogue({"api"}, 0)
\* A fleet whose listing breaks off is judged by the instances read so far.
CatSQLFleet == [CatTypes({"zone"}, 0, "list", "list") EXCEPT !.onFail = "list"]

(* Recommendations: active ones (GCP), ones of a known shape (Azure).           *)
CatRecommendations(asks) ==
    [CatList(asks, {}, asks) EXCEPT !.cap = CatCap, !.noSource = "error"]
CatVMRecommendations == CatRecommendations({"shape"})
CatRedisRecommendations == CatRecommendations({"shape"})
CatCosmosRecommendations == CatRecommendations({"shape"})
CatSQLRecommendations == CatRecommendations({"shape"})
CatManagedRedisRecommendations == [CatRecommendations({"shape"}) EXCEPT !.cap = 0]
CatSynapseRecommendations == [CatRecommendations({"shape"}) EXCEPT !.cap = 0]
CatCloudSQLRecommendations == CatRecommendations({"active"})
CatStorageRecommendations == CatRecommendations({"active"})
CatMemorystoreRecommendations == CatRecommendations({"active"})
CatComputeRecommendations == CatRecommendations({"active"})

(* Quotes. The last price line that matches `skip` is the commitment price, the *)
(* last other one that matches `fail` the price on demand; an operation that    *)
(* does not take zeroes passes over lines without a price.                      *)
CatQuote(asks, api, ri, od, zeroes) ==
    [CatWalk EXCEPT !.kind = "quote", !.asks = asks, !.api = api, !.skip = ri, !.fail = od,
                    !.then = zeroes, !.onNone = "error"]
\* FetchAll: what the page cap cuts off is left out without an error.
CatRetail(api, zeroes) ==
    [CatQuote({"reservation", "term"}, api, {"reservation", "term"}, {"on demand"}, zeroes)
        EXCEPT !.cap = CatCap, !.onCap = "list"]
CatVMPrice == CatRetail({"sku"}, "zeroes")
CatSQLPrice == CatRetail({"sku"}, "zeroes")
CatRedisPrice == CatRetail({"sku"}, "zeroes")
CatManagedRedisPrice == CatRetail({"sku"}, "zeroes")
CatSynapsePrice == CatRetail({"sku"}, "")
\* The request names no SKU: any line of the region can give the price.
CatCosmosPrice == CatRetail({}, "zeroes")
CatSearchPrice == CatRetail({}, "zeroes")
\* The word "commitment" makes a commitment price, of whatever term.
CatSKUs == [CatQuote({"reservation"}, {}, {"reservation", "sku"}, {"sku"}, "")
               EXCEPT !.cap = 1, !.onCap = "list", !.noSource = "error"]
CatCloudSQLPrice == CatSKUs
CatStoragePrice == CatSKUs
CatMemorystorePrice == CatSKUs
CatComputePrice == CatSKUs

(* GetOfferingDetails of Azure and GCP: the quote, and how it is charged. One   *)
(* that bills "any" payment option takes one it does not know for paid at once. *)
CatCharges(quote, bills) == [quote EXCEPT !.bills = bills]
CatVMDetails == CatCharges(CatVMPrice, "known")
CatSQLDetails == CatCharges(CatSQLPrice, "known")
CatRedisDetails == CatCharges(CatRedisPrice, "known")
CatManagedRedisDetails == CatCharges(CatManagedRedisPrice, "any")
CatSynapseDetails == CatCharges(CatSynapsePrice, "known")
CatCosmosDetails == CatCharges(CatCosmosPrice, "known")
CatSearchDetails == CatCharges(CatSearchPrice, "known")
CatSKUDetails == CatCharges(CatSKUs, "any")
CatCloudSQLDetails == CatSKUDetails
CatStorageDetails == CatSKUDetails
CatMemorystoreDetails == CatSKUDetails
CatComputeDetails == CatSKUDetails

CatOps ==
    {CatEC2Offering, CatRDSOffering, CatElastiCacheOffering, CatMemoryDBOffering,
     CatOpenSearchOffering, CatRedshiftOffering, CatConvertibleOffering, CatComputePlan,
     CatInstancePlan({}), CatInstancePlan({"family"}), CatInstancePlan({"family", "region"}),
     CatEC2Details, CatRDSDetails, CatElastiCacheDetails, CatMemoryDBDetails,
     CatOpenSearchDetails, CatRedshiftDetails, CatPlanDetails,
     CatEC2Commitments, CatConvertibleRIs, CatRDSCommitments, CatElastiCacheCommitments,
     CatMemoryDBCommitments, CatOpenSearchCommitments, CatRedshiftCommitments,
     CatPlanCommitments, CatRedisCommitments, CatVMCommitments, CatCosmosCommitments,
     CatSQLCommitments, CatSearchCommitments, CatManagedRedisCommitments,
     CatSynapseCommitments, CatAzurePlanCommitments, CatCUDs,
     CatEC2Types, CatRDSTypes, CatElastiCacheTypes, CatMemoryDBTypes, CatRedshiftTypes,
     CatVMTypes, CatSQLTypes, CatCloudSQLTypes, CatMachineTypes, CatRedisTypes,
     CatCosmosTypes, CatSearchTypes, CatManagedRedisTypes,
     CatVMCatalogue, CatRedisCatalogue, CatSQLCatalogue, CatCosmosAPIs, CatSQLFleet,
     CatVMRecommendations, CatRedisRecommendations, CatCosmosRecommendations,
     CatSQLRecommendations, CatManagedRedisRecommendations, CatSynapseRecommendations,
     CatCloudSQLRecommendations, CatStorageRecommendations, CatMemorystoreRecommendations,
     CatComputeRecommendations,
     CatVMDetails, CatSQLDetails, CatRedisDetails, CatManagedRedisDetails, CatSynapseDetails,
     CatCosmosDetails, CatSearchDetails, CatCloudSQLDetails, CatStorageDetails,
     CatMemorystoreDetails, CatComputeDetails,
     CatCloudSQLPrice, CatStoragePrice, CatMemorystorePrice, CatComputePrice}
------------------------------------------------------------------------------
(* What a service can answer the request of an operation with. *)

CatLines ==
    {{"reservation", "term"}, {"reservation"}, {"on demand"}} \cup
    {{"reservation", "term", "sku"}, {"reservation", "sku"}, {"on demand", "sku"}}
CatFits(op) ==
    {f \in IF op.kind = "quote" THEN CatLines ELSE SUBSET (op.asks \cup op.agree) :
        op.api \subseteq f}
CatEntries(op) == [fits : CatFits(op), price : IF op.kind = "quote" THEN {0, 1} ELSE {1}]
CatPagesOf(op) == UNION {[1..n -> CatEntries(op)] : n \in 0..CatPageSize}

CatInit == catOp \in CatOps /\ catPages = 0 /\ catSeen = <<>> /\ catAns = CatOpen

CatReading == catAns = CatOpen /\ (catOp.cap # 0 => catPages < catOp.cap)
CatAnswer(ans) == catAns' = ans /\ UNCHANGED <<catOp, catPages, catSeen>>
------------------------------------------------------------------------------
(* Answers. *)

CatFitting(attributes) == {i \in DOMAIN catSeen' : attributes \subseteq catSeen'[i].fits}
CatLast(S) == CHOOSE i \in S : \A j \in S : j <= i
CatFirst(S) == CHOOSE i \in S : \A j \in S : i <= j

\* A listing that was read, or cut short and kept.
CatListed(whole) ==
    IF catOp.onNone # "list" /\ CatFitting(catOp.skip) = {}
    THEN IF catOp.onNone = "common" THEN [is |-> "common"] ELSE CatError("nothing")
    ELSE [is |-> "listed", of |-> CatFitting(catOp.skip), whole |-> whole]

CatCounted == {i \in DOMAIN catSeen' : catOp.then = "zeroes" \/ catSeen'[i].price > 0}
CatQuoted ==
    LET ri == CatCounted \cap CatFitting(catOp.skip)
        od == (CatCounted \cap CatFitting(catOp.fail)) \ CatFitting(catOp.skip)
    IN  IF ri = {} \/ od = {} THEN CatError("no price")
        ELSE IF catSeen'[CatLast(ri)].price = 0 \/ catSeen'[CatLast(od)].price = 0
        THEN CatError("no price")
        ELSE [is |-> "quoted", ri |-> CatLast(ri), od |-> CatLast(od)]

\* All that was offered must be of one family and one region.
CatAgreed == \A i, j \in DOMAIN catSeen' :
                catSeen'[i].fits \cap catOp.agree = catSeen'[j].fits \cap catOp.agree
CatChoices ==
    IF catSeen' = <<>> THEN {CatError("nothing")}
    ELSE IF ~CatAgreed THEN {CatError("ambiguous")}
    ELSE {[is |-> "found", at |-> i] : i \in DOMAIN catSeen'}

\* What a listing that has been read to its end is answered with.
CatEndings ==
    CASE catOp.kind = "search" -> {CatError("nothing")}
      [] catOp.kind = "choice" -> CatChoices
      [] catOp.kind = "quote"  -> {CatQuoted}
      [] OTHER                 -> {CatListed(TRUE)}

\* The first entry a search does not pass over decides it.
CatDecisive == CatFitting(catOp.skip) \ (CatFitting(catOp.fail) \ CatFitting(catOp.pass))
CatScanned ==
    IF CatFirst(CatDecisive) \in CatFitting(catOp.fail)
    THEN [is |-> "found", at |-> CatFirst(CatDecisive)]
    ELSE CatError("mismatch")
------------------------------------------------------------------------------
(* Actions. *)

CatPage(page, more) ==
    /\ CatReading /\ (more => catPages < CatLastPage)
    /\ Len(catSeen) + Len(page) <= CatLastEntry
    /\ catSeen' = catSeen \o page
    /\ catPages' = catPages + 1
    /\ IF catOp.kind = "search" /\ CatDecisive # {} THEN catAns' = CatScanned
       ELSE IF more THEN catAns' = CatOpen
       ELSE catAns' \in CatEndings
    /\ UNCHANGED catOp

\* The page fails, or the caller's context is done.
CatPageFails ==
    /\ CatReading
    /\ UNCHANGED <<catOp, catPages, catSeen>>
    /\ catAns' = CASE catOp.onFail = "list"    -> CatListed(FALSE)
                   [] catOp.onFail = "nothing" -> [is |-> "listed", of |-> {}, whole |-> FALSE]
                   [] catOp.onFail = "common"  -> [is |-> "common"]
                   [] OTHER                    -> CatError("page")

\* There is more and the operation reads no further.
CatAtCap ==
    /\ catAns = CatOpen /\ catOp.cap # 0 /\ catPages = catOp.cap
    /\ UNCHANGED <<catOp, catPages, catSeen>>
    /\ catAns' = IF catOp.kind = "quote" THEN CatQuoted
                 ELSE IF catOp.onCap = "list" THEN CatListed(FALSE)
                 ELSE CatError("cap")

\* No client for the listing can be made.
CatNoSource ==
    /\ catAns = CatOpen /\ catPages = 0 /\ catOp.noSource # "never"
    /\ UNCHANGED <<catOp, catPages, catSeen>>
    /\ catAns' = CASE catOp.noSource = "error"  -> CatError("source")
                   [] catOp.noSource = "common" -> [is |-> "common"]
                   [] OTHER                     -> [is |-> "listed", of |-> {}, whole |-> FALSE]

\* The second request of GetOfferingDetails: it fails, or no longer knows the id.
CatDescribe(outcome) ==
    /\ catAns.is = "found" /\ catOp.then = "describe"
    /\ CatAnswer(IF outcome = "known" THEN [catAns EXCEPT !.is = "described"]
                 ELSE CatError(outcome))

(* How a quote is charged. *)

CatTerms == {"1yr", "3yr", "other"}
CatPayments == {"upfront", "monthly", "other"}
CatMonths(term) == IF term = "3yr" THEN 36 ELSE 12

\* A client that asks for prices of a term looks at the term before it reads any.
CatLooksAtTheTerm == "term" \in catOp.asks
CatBadTerm ==
    /\ catAns = CatOpen /\ catPages = 0 /\ catOp.bills # "never" /\ CatLooksAtTheTerm
    /\ CatAnswer(CatError("term"))

\* Paid at once (no months), or by the month.
CatCharge(term, payment) ==
    /\ catOp.bills # "never" /\ catAns.is = "quoted"
    /\ CatLooksAtTheTerm => term # "other"
    /\ CatAnswer(IF payment = "other" /\ catOp.bills = "known" THEN CatError("payment")
                 ELSE [is |-> "charged", ri |-> catAns.ri, od |-> catAns.od,
                       term |-> term, payment |-> payment,
                       months |-> IF payment = "monthly" THEN CatMonths(term) ELSE 0])

CatNext ==
    \/ \E page \in CatPagesOf(catOp), more \in BOOLEAN : CatPage(page, more)
    \/ CatPageFails
    \/ CatAtCap
    \/ CatNoSource
    \/ \E outcome \in {"known", "unknown", "call"} : CatDescribe(outcome)
    \/ CatBadTerm
    \/ \E term \in CatTerms, payment \in CatPayments : CatCharge(term, payment)

CatSpec == CatInit /\ [][CatNext]_catVars
------------------------------------------------------------------------------
\* Searches only answer with an offering that has all the recommendation names,
\* of no second family, and call off a listing that holds it only at its cap or
\* a page that fails. Two refuse the first offering of the type and term that is
\* not the one: OpenSearch one of another payment option, which nothing in its
\* request rules out, and Redshift one of an unknown kind.
CatFindsTheOffering ==
    LET answered == catSeen[catAns.at].fits
    IN  /\ catAns.is \in {"found", "described"} =>
              /\ catOp.asks \subseteq answered
              /\ catOp.kind = "choice" =>
                    \A i \in DOMAIN catSeen :
                        catSeen[i].fits \cap {"family", "region"} =
                            answered \cap {"family", "region"}
        /\ catOp.kind = "search" /\ catAns.is = "error"
              /\ catAns.why \in {"nothing", "mismatch"} =>
                \/ catOp \in {CatOpenSearchOffering, CatOpenSearchDetails,
                             CatRedshiftOffering, CatRedshiftDetails}
                \/ \A i \in DOMAIN catSeen : ~(catOp.asks \subseteq catSeen[i].fits)

\* A listing that answers without an error has all there is, but for the four
\* operations that keep what they read, and those that take a client that cannot
\* be made for an empty listing; none has an entry that was not asked for.
CatKeepsAPart ==
    {CatPlanCommitments, CatTolerantTypes, CatAzureCommitments, CatVMCatalogue,
     CatRedisCatalogue, CatSQLCatalogue, CatCosmosAPIs, CatSQLFleet}
CatListsAll ==
    catAns.is = "listed" =>
        LET wanted == {i \in DOMAIN catSeen : catOp.asks \subseteq catSeen[i].fits}
        IN  /\ catAns.of \subseteq wanted
            /\ catOp \notin CatKeepsAPart => catAns.of = wanted /\ catAns.whole

\* A quote is two prices of the listing: a commitment price, of the term asked for
\* on Azure, and a price that is not one. On GCP the term is not looked at, and
\* Cosmos and Search can quote the price of another SKU.
CatQuotesALine ==
    catAns.is \in {"quoted", "charged"} =>
        /\ catOp.asks \subseteq catSeen[catAns.ri].fits
        /\ "on demand" \in catSeen[catAns.od].fits
        /\ catOp \notin {CatCosmosDetails, CatSearchDetails} =>
              "sku" \in catSeen[catAns.ri].fits \cap catSeen[catAns.od].fits
        /\ catSeen[catAns.ri].price > 0 /\ catSeen[catAns.od].price > 0

\* Of what is charged, nothing was guessed, but for the payment option by Managed
\* Redis and the clients of GCP and for the term by the latter; what is paid by
\* the month is spread over the term asked for, which is the term of the price
\* where the price was looked up by it.
CatChargesAsAsked ==
    catAns.is = "charged" =>
        /\ catAns.payment = "other" => catOp \in {CatManagedRedisDetails, CatSKUDetails}
        /\ catAns.term = "other" => catOp = CatSKUDetails
        /\ catAns.months # 0 =>
              /\ catAns.payment = "monthly" /\ catAns.months = CatMonths(catAns.term)
              /\ catOp = CatSKUDetails \/ "term" \in catSeen[catAns.ri].fits

CatHonest == CatFindsTheOffering /\ CatListsAll /\ CatQuotesALine /\ CatChargesAsAsked
================================================================================

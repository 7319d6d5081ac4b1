------------------------------ MODULE MCHandlers ------------------------------
(* Small instances of the modules that only safety is asked of. They share no  *)
(* state: a behaviour is one of any of the parts, so that one run of TLC       *)
(* checks them all.                                                            *)
EXTENDS PlanRamp, FanOut, Submissions, Users, Registrations, Collection,
        DirectExchange, Marketplace, Providers,
        AccountCredentials,
        Catalog,
        Approvals,
        Views,
        Requests,
        Advice,
        Startup,
        Tasks,
        Queue,
        Limits,
        UtilizationCache,
        Reshape

VARIABLE part

handlersVars ==
    <<part, rampVars, fanVars, subVars, usrVars, regVars, colVars, dxVars,
      mktVars, provVars,
      crdVars,
      catVars,
      appVars,
      viwVars,
      reqVars,
      advVars,
      staVars,
      tskVars, queVars, limVars, utlVars, rshVars>>

(* The bodies and permissions of the direct exchanges. *)
DxBody(cloud, billed, region, cap, currency, spelling) ==
    [cloud |-> cloud, sub |-> "s1", source |-> [billed |-> billed, region |-> region],
     target |-> "east", cap |-> cap, currency |-> currency, spelling |-> spelling]

DxBodiesMC ==
    {DxBody("aws", "s1", "east", 1, "USD", "targets"),
     DxBody("aws", "s1", "east", 2, "USD", "legacy"),
     DxBody("azure", "s1", "east", 1, "USD", "scope"),
     DxBody("azure", "s1", "east", 2, "EUR", "no scope"),
     DxBody("azure", "s1", "west", 2, "USD", "scope"),
     DxBody("azure", "s2", "east", 2, "USD", "scope"),
     DxBody("azure", "s1", DxNoRegion, 2, "USD", "scope")}

DxPermissionsMC == [regions : {{}, {"east"}}, amount : {0, 1}]

(* Rows of accounts as the forms and the API fill them in. *)
CrdRow(cloud, mode, has) == [cloud |-> cloud, mode |-> mode, has |-> has]
CrdRowsMC ==
    {CrdRow("aws", "access_keys", {}), CrdRow("aws", "access_keys", {"role"}),
     CrdRow("aws", "role_arn", {"role", "external id"}), CrdRow("aws", "role_arn", {"role"}),
     CrdRow("aws", "bastion", {"role", "external id", "bastion"}),
     CrdRow("aws", "bastion", {"role", "external id"}),
     CrdRow("aws", CrdWif, {"role", "token file"}), CrdRow("aws", CrdWif, {"role"}),
     CrdRow("aws", CrdWif, {}),
     CrdRow("azure", "client_secret", CrdFields.azure), CrdRow("azure", "", {"subscription"}),
     CrdRow("azure", "managed_identity", {}), CrdRow("azure", CrdWif, CrdFields.azure),
     CrdRow("azure", CrdWif, {"subscription"}),
     CrdRow("gcp", "service_account", {}), CrdRow("gcp", "application_default", {}),
     CrdRow("gcp", CrdWif, {"audience", "email"}), CrdRow("gcp", CrdWif, {"audience"}),
     CrdRow("gcp", CrdWif, {}), CrdRow("gcp", "client_secret", {})}

(* Who asks for the history page: an administrator, and users of one account.  *)
ViwViewersMC ==
    {[accounts |-> ViwAccounts, mine |-> TRUE, filter |-> {}],
     [accounts |-> {"one"}, mine |-> TRUE, filter |-> {}],
     [accounts |-> {"one"}, mine |-> FALSE, filter |-> {"one"}]}

(* Callers of the API: nobody, sessions without and with the right asked for,  *)
(* an administrator, keys of a user and of the administrators.                 *)
ReqCaller(key, session, may) == [key |-> key, session |-> session, may |-> may]
ReqCallersMC ==
    {ReqCaller("none", FALSE, {}), ReqCaller("none", TRUE, {}), ReqCaller("none", TRUE, {"verb"}),
     ReqCaller("none", TRUE, {"verb", "admin"}), ReqCaller("user", FALSE, {"verb"}),
     ReqCaller("user", TRUE, {"admin"}), ReqCaller("admin", FALSE, {})}

(* Advice on one database in two terms, on another account's, and on a machine. *)
AdvFind(account, provider, service, region, engine, years, count, savings) ==
    [account |-> account, provider |-> provider, service |-> service, region |-> region,
     type |-> "large", kind |-> IF service = "rds" THEN "database" ELSE "compute",
     engine |-> engine, years |-> years, payment |-> "No Upfront", count |-> count,
     savings |-> savings, upfront |-> 0, monthly |-> 10, onDemand |-> 0, pct |-> 0]
AdvFoundMC ==
    {AdvFind("one", "aws", "rds", "east", "mysql", 1, 2, 40),
     AdvFind("one", "aws", "rds", "east", "mysql", 3, 1, 60),
     AdvFind("two", "azure", "rds", "west", "oracle", 1, 2, 200),
     AdvFind("one", "aws", "ec2", "west", "x", 1, 1, 20),
     AdvFind("one", "aws", "ec2", "west", "x", 0, 1, 20)}
AdvRulesMC ==
    {[AdvBase EXCEPT !.coverage = 50, !.min = 2, !.regions = [only |-> {"west"}, never |-> {}]],
     [AdvBase EXCEPT !.enabled = FALSE]}
AdvSays == [enabled |-> AdvNone, coverage |-> AdvNone, engines |-> AdvAny, regions |-> AdvAny, types |-> AdvAny]
AdvOverridesMC ==
    {[AdvSays EXCEPT !.enabled = TRUE, !.coverage = 0],
     [AdvSays EXCEPT !.regions = [only |-> {"east"}, never |-> {}], !.types = [only |-> {}, never |-> {"large"}]],
     [AdvSays EXCEPT !.engines = [only |-> {}, never |-> {"mysql"}]]}
AdvAll == [provider |-> {}, accounts |-> {}, ids |-> {}, minSavings |-> 0, minPct |-> 0]
AdvAsksMC ==
    {[page |-> p, accounts |-> AdvAccounts, filter |-> AdvAll] : p \in {"list", "summary"}} \cup
    {[page |-> "list", accounts |-> {"two"}, filter |-> [AdvAll EXCEPT !.minPct = 60]],
     [page |-> "detail", accounts |-> {"one"},
      filter |-> [AdvAll EXCEPT !.ids = {AdvKey(r) : r \in {q \in AdvConvert(AdvFound) : q.savings = 40}}]]}

(* Reservations of several sizes, used to several degrees, and what else is on   *)
(* offer: dearer, cheaper, in another currency, of another term.                 *)
RshFamily(prefix, gen, suffix) == [prefix |-> prefix, gen |-> gen, suffix |-> suffix]
RshRIsMC ==
    [family : {RshFamily("m", 5, "")}, size : {"nano", "small", "xlarge", "24xlarge", "odd"},
     factor : {0}, count : {1, 3}, class : {"convertible"}, used : {0, 10, 60, 90, 97, RshNone},
     cost : {0, 80}, currency : {"USD"}, term : {1}] \cup
    [family : {RshFamily("m", 6, "g")}, size : {"xlarge"}, factor : {0, 32}, count : {1},
     class : {"convertible", "standard"}, used : {60}, cost : {80}, currency : {"USD", RshNone},
     term : {0, 1}]
RshFirst == CHOOSE ri \in RshRIs : ri.class = "standard"
RshOffer(family, factor, cost, currency, term, savings, count) ==
    [family |-> family, factor |-> factor, cost |-> cost, currency |-> currency,
     term |-> term, savings |-> savings, count |-> count]
RshOffersMC ==
    {RshOffer(RshFamily("m", 6, "i"), 64, 100, "USD", 1, 300, 3),
     RshOffer(RshFamily("r", 5, ""), 64, 60, "USD", 1, 60, 1),
     RshOffer(RshFamily("r", 6, "a"), 64, 90, "USD", 1, 60, 1),
     RshOffer(RshFamily("c", 6, "g"), 32, 90, RshNone, 0, RshNone, 0),
     RshOffer(RshFamily("is", 4, "gen"), 32, 120, "EUR", 1, 10, 1),
     RshOffer(RshFamily("r", 6, "g"), 64, 50, "USD", 3, 60, 1)}

\* The policy is on at first, a change turns it off. Users are alike, and an
\* -own right is of use on an own row only.
AppStart ==
    /\ AppInit
    /\ appTwo /\ appRow.creator \in {AppNobody, CHOOSE p \in AppPeople : TRUE}
    /\ appGlobal # appRow.creator \/ appGlobal = AppNobody
    /\ \A p \in AppPeople : appRights[p] = {"own"} => appRow.creator = p
AppRest ==
    /\ appTwo = TRUE /\ appDelay = TRUE /\ appGlobal = AppNobody
    /\ appRights = [p \in AppPeople |-> {}]
    /\ appContact = [a \in AppAccounts |-> AppNobody]
    /\ AppInit /\ appRow.creator = AppNobody

\* Commitments are alike.
ViwStart == ViwInit /\ \A c \in ViwRecs : viwAccount[c] = "one" \/ c # CHOOSE d \in ViwRecs : TRUE
ViwRest == ViwInit /\ \A c \in ViwRecs : viwAccount[c] = "one"

\* One account overrides; the cache is stale or was never filled.
AdvStart ==
    /\ advOverride \in {f \in [AdvAccounts -> AdvOverrides \cup {AdvNone}] : f["two"] = AdvNone}
    /\ AdvInit /\ advFresh # "fresh"
    /\ advFresh = "never" => advProviders = {} /\ advRegistered # {} /\ advReq.ask.page = "list"
    /\ advRegistered = {} => advProviders = {} /\ advOverride["one"] = AdvNone
AdvRest ==
    /\ advFresh = "never" /\ advBuying = {} /\ advRule = AdvNone
    /\ advRegistered = {} /\ advProviders = {}
    /\ advOverride = [a \in AdvAccounts |-> AdvNone]
    /\ AdvInit /\ advReq.ask = CHOOSE ask \in AdvAsks : TRUE

\* A part that is not the one of this behaviour has one initial state.
HandlersInit ==
    /\ part \in {"ramp", "fan", "submissions", "users", "registrations", "collection",
                "exchange", "marketplace", "providers",
                "credentials",
                "catalog",
                "approvals",
                "views",
                "requests",
                "advice",
                "startup",
                "tasks", "queue", "limits", "utilization", "reshape"}
    /\ RampInit /\ SubInit /\ UsrInit /\ RegInit /\ ColInit
    /\ FanInit /\ (part # "fan" => fanPlan = FanAccounts /\ Len(fanRow) = 1)
    /\ DxInit /\ (part # "exchange" => dxPerm = [regions |-> {}, amount |-> 0] /\ dxPrice = 1)
    /\ MktInit /\ (part # "marketplace" => mktRow.class = "")
    /\ ProvInit /\ (part # "providers" => provService = RDS)
    /\ CrdInit /\ (part # "credentials" => crdEnv = {})
    /\ CatInit /\ (part # "catalog" => catOp = CatCUDs)
    /\ IF part = "approvals" THEN AppStart ELSE AppRest
    /\ IF part = "views" THEN ViwStart ELSE ViwRest
    /\ ReqInit /\ (part # "requests" => reqRoute = 1 /\ reqCaller.key = "admin")
    /\ StaInit /\ TskInit /\ QueInit /\ LimInit
    /\ RshInit /\ (part # "reshape" => rshRI = RshFirst)
    /\ UtlInit /\ (part # "utilization" => utlLambda)
    /\ IF part = "advice" THEN AdvStart ELSE AdvRest

\* The behaviour is one of part p: the others stand still.
Only(p) ==
    /\ part = p
    /\ UNCHANGED part
    /\ IF p = "ramp" THEN TRUE ELSE UNCHANGED rampVars
    /\ IF p = "fan" THEN TRUE ELSE UNCHANGED fanVars
    /\ IF p = "submissions" THEN TRUE ELSE UNCHANGED subVars
    /\ IF p = "users" THEN TRUE ELSE UNCHANGED usrVars
    /\ IF p = "registrations" THEN TRUE ELSE UNCHANGED regVars
    /\ IF p = "collection" THEN TRUE ELSE UNCHANGED colVars
    /\ IF p = "exchange" THEN TRUE ELSE UNCHANGED dxVars
    /\ IF p = "marketplace" THEN TRUE ELSE UNCHANGED mktVars
    /\ IF p = "providers" THEN TRUE ELSE UNCHANGED provVars
    /\ IF p = "credentials" THEN TRUE ELSE UNCHANGED crdVars
    /\ IF p = "catalog" THEN TRUE ELSE UNCHANGED catVars
    /\ IF p = "approvals" THEN TRUE ELSE UNCHANGED appVars
    /\ IF p = "views" THEN TRUE ELSE UNCHANGED viwVars
    /\ IF p = "requests" THEN TRUE ELSE UNCHANGED reqVars
    /\ IF p = "advice" THEN TRUE ELSE UNCHANGED advVars
    /\ IF p = "startup" THEN TRUE ELSE UNCHANGED staVars
    /\ IF p = "tasks" THEN TRUE ELSE UNCHANGED tskVars
    /\ IF p = "queue" THEN TRUE ELSE UNCHANGED queVars
    /\ IF p = "limits" THEN TRUE ELSE UNCHANGED limVars
    /\ IF p = "utilization" THEN TRUE ELSE UNCHANGED utlVars
    /\ IF p = "reshape" THEN TRUE ELSE UNCHANGED rshVars

HandlersNext ==
    \/ Only("ramp") /\ RampNext
    \/ Only("fan") /\ FanNext
    \/ Only("submissions") /\ SubNext
    \/ Only("users") /\ UsrNext
    \/ Only("registrations") /\ RegNext
    \/ Only("collection") /\ ColNext
    \/ Only("exchange") /\ DxNext
    \/ Only("marketplace") /\ MktNext
    \/ Only("providers") /\ ProvNext
    \/ Only("credentials") /\ CrdNext
    \/ Only("catalog") /\ CatNext
    \/ Only("approvals") /\ AppNext
    \/ Only("views") /\ ViwNext
    \/ Only("requests") /\ ReqNext
    \/ Only("advice") /\ AdvNext
    \/ Only("startup") /\ StaNext
    \/ Only("tasks") /\ TskNext
    \/ Only("queue") /\ QueNext
    \/ Only("limits") /\ LimNext
    \/ Only("utilization") /\ UtlNext
    \/ Only("reshape") /\ RshNext

\* The state of a behaviour is that of its part.
HandlersView ==
    CASE part = "ramp" -> <<part, rampVars>>
      [] part = "fan" -> <<part, fanVars>>
      [] part = "submissions" -> <<part, subVars>>
      [] part = "users" -> <<part, usrVars>>
      [] part = "registrations" -> <<part, regVars>>
      [] part = "collection" -> <<part, colVars>>
      [] part = "exchange" -> <<part, dxVars>>
      [] part = "marketplace" -> <<part, mktVars>>
      [] part = "providers" -> <<part, provVars>>
      [] part = "credentials" -> <<part, crdVars>>
      [] part = "catalog" -> <<part, catVars>>
      [] part = "approvals" -> <<part, appVars>>
      [] part = "views" -> <<part, viwVars>>
      [] part = "requests" -> <<part, reqVars>>
      [] part = "advice" -> <<part, advVars>>
      [] part = "startup" -> <<part, staVars>>
      [] part = "tasks" -> <<part, tskVars>>
      [] part = "queue" -> <<part, queVars>>
      [] part = "limits" -> <<part, limVars>>
      [] part = "utilization" -> <<part, utlVars>>
      [] part = "reshape" -> <<part, rshVars>>

HandlersSpec == HandlersInit /\ [][HandlersNext]_handlersVars

(* Properties of one part are asked of its own behaviours where it takes long to *)
(* see that they hold of a part that stands still.                               *)
\* A page about purchases shows what there is, once (handler_history.go).
PagesSound == part = "views" => ViwSound
\* What a request leaves behind is permitted, whole, and what its answer says
\* (handleRequest).
RequestsHonest == part = "requests" => ReqHonest
\* A page of advice says what the cache, the purchases in flight and the rules
\* say (ListRecommendations).
AdviceSound == part = "advice" => AdvSound
\* A process comes up on a schema that is what is recorded of it (ensureDB).
StartSound == part = "startup" => StaSound
\* Tasks run alone, and the analytics keep what they collect (HandleScheduledTask).
TasksSound == part = "tasks" => TskSound

\* What is bounded by the clock is, however the requests fall: the attempts let
\* through (RateLimiterInterface) and the age of what is served (getOrFetch).
ClockSound == (part = "limits" => LimBounded) /\ (part = "utilization" => UtlFresh)

\* What is advised to be exchanged fits (findBestFit), and what is exchanged
\* directly stays within its permission and cap (executeExchange).
ExchangeSound == RshSound /\ DxSound
================================================================================

--------------------------------- MODULE Advice ---------------------------------
(* The recommendations a caller is shown. A sweep converts what the providers    *)
(* advise, tags it with its account and keeps it; a page reads the cache, takes  *)
(* off what purchases in flight already buy, drops what the rules of the account *)
(* exclude, and keeps what the caller may see. The pages read one thing after    *)
(* another: sweeps, purchases and new rules come between.                        *)
EXTENDS FiniteSets, Naturals, FiniteSetsExt

CONSTANTS
    AdvFound,       \* what the providers can advise, as they spell it
    AdvRules,       \* what a service may be configured to
    AdvOverrides,   \* what an account may override
    AdvAsks,        \* requests: the page, the accounts of the caller, the filter
    AdvNone,        \* no account, no rule, no value
    AdvMaxChanges,  \* bound on what changes while a page is read
    AdvNoRows       \* whether the cache may be empty at first

ASSUME AdvAssumption == AdvMaxChanges \in Nat /\ AdvNoRows \in BOOLEAN

VARIABLES
    advRows,        \* recommendations
    advFresh,       \* recommendations_state: "never", "stale" or "fresh"
    advRegistered,  \* cloud accounts that are enabled
    advBuying,      \* active suppressions: the cell, how many, which
    advRule,        \* the configuration of the service, or none
    advOverride,    \* what each account overrides, or none
    advProviders,   \* enabled providers, all when there are none
    advReq,         \* the request: what it asks, how far it is, what it holds
    advChanges,     \* changes since it began
    advErred        \* a read failed whose failure is only logged
advVars == <<advRows, advFresh, advRegistered, advBuying, advRule, advOverride,
             advProviders, advReq, advChanges, advErred>>

AdvAccounts == {"one", "two"}
AdvOf(r) == <<r.account, r.provider, r.service, r.region, r.type, r.engine>>
AdvKey(r) == <<AdvOf(r), r.term, r.payment>>
------------------------------------------------------------------------------
(* The sweep. *)
\* Only databases and caches have an engine; payments get one spelling.
AdvEngine(f) == IF f.kind \in {"database", "cache"} THEN f.engine ELSE ""
AdvPayment(p) == IF p = "No Upfront" THEN "no-upfront" ELSE p
\* A cost or a percentage of nothing is not known.
AdvKnown(v) == IF v > 0 THEN v ELSE AdvNone

\* A recommendation whose term is not a number of years is left out.
AdvConvert(found) ==
    {[account |-> f.account, provider |-> f.provider, service |-> f.service, region |-> f.region,
      type |-> f.type, engine |-> AdvEngine(f), term |-> f.years,
      payment |-> AdvPayment(f.payment), count |-> f.count, savings |-> f.savings,
      upfront |-> f.upfront, monthly |-> f.monthly,
      onDemand |-> AdvKnown(f.onDemand), pct |-> AdvKnown(f.pct)] : f \in {g \in found : g.years > 0}}

AdvTag(rows, account) == {[r EXCEPT !.account = account] : r \in rows}

\* With no account enabled, or when they cannot be listed, the account the
\* program runs in: its row, if the caller's identity is that of a row.
AdvAmbient(provider, found, host, complete) ==
    [rows |-> AdvTag(AdvConvert({f \in found : f.provider = provider /\ f.account = "one"}), host),
     done |-> IF complete THEN {host} ELSE {}]
\* Otherwise every account that answers; one that answers in part is not done.
AdvPerAccount(provider, found, answered, complete) ==
    [rows |-> AdvConvert({f \in found : f.provider = provider /\ f.account \in answered}), done |-> complete]

\* Rows of the same key are written over; older ones of accounts done are evicted.
AdvSave(rows, provider, swept) ==
    swept.rows \cup {r \in rows : /\ \A n \in swept.rows : AdvKey(n) # AdvKey(r)
                                  /\ r.provider = provider => r.account \notin swept.done}

\* One provider's sweep, every way it can go.
AdvSwept(provider, found) ==
    {AdvAmbient(provider, found, host, complete) :
        host \in {AdvNone} \cup (advRegistered \cap {"one"}), complete \in BOOLEAN}
        \cup UNION {{AdvPerAccount(provider, found, answered, complete) : complete \in SUBSET answered} :
                        answered \in SUBSET advRegistered \ {{}}}
AdvCollected(provider) ==
    {AdvSave(advRows, provider, s) : s \in AdvSwept(provider, AdvFound)}
------------------------------------------------------------------------------
(* The cache, and the share saved that its filter goes by. *)
\* What the commitment replaces: as advised, or put together from its parts,
\* which AWS states in other terms.
AdvOnDemand(r) ==
    IF r.onDemand # AdvNone THEN r.onDemand
    ELSE IF r.monthly = AdvNone \/ r.provider = "aws" THEN 0
    ELSE r.monthly + r.savings + (r.upfront \div (12 * r.term))
AdvPct(r) ==
    IF r.pct # AdvNone THEN r.pct
    ELSE IF r.term = 0 \/ AdvOnDemand(r) = 0 THEN AdvNone ELSE (100 * r.savings) \div AdvOnDemand(r)

AdvIn(wanted, value) == wanted = {} \/ value \in wanted
AdvMeets(f, r) ==
    /\ AdvIn(f.provider, r.provider)
    /\ AdvIn(f.accounts, r.account)
    /\ AdvIn(f.ids, AdvKey(r))
    /\ r.savings >= f.minSavings
AdvStored(f) ==
    {r \in advRows : AdvMeets(f, r) /\ (f.minPct > 0 /\ AdvPct(r) # AdvNone => AdvPct(r) >= f.minPct)}
------------------------------------------------------------------------------
(* What is being bought already. *)
\* All suppressions of a cell together, whatever the term or the payment.
AdvSuppressed(buying, cell) == MapThenSumSet(LAMBDA s : s.count, {s \in buying : s.cell = cell})

\* Every variant of the cell is less by what is suppressed of it.
AdvApply(rows, buying) ==
    {[r EXCEPT !.count = @ - AdvSuppressed(buying, AdvOf(r))] :
        r \in {q \in rows : q.count > AdvSuppressed(buying, AdvOf(q))}}
------------------------------------------------------------------------------
(* The rules of the account. *)
AdvOwn(o, g) == IF o = AdvNone THEN g ELSE o
\* A list an account leaves empty is that of the service.
AdvOwnList(o, g) == [only |-> IF o.only = {} THEN g.only ELSE o.only,
                     never |-> IF o.never = {} THEN g.never ELSE o.never]
AdvAny == [only |-> {}, never |-> {}]
AdvBase == [enabled |-> TRUE, engines |-> AdvAny, regions |-> AdvAny, types |-> AdvAny,
            min |-> 0, coverage |-> 0]
AdvResolve(g, o) ==
    IF o = AdvNone THEN g
    ELSE [(IF g = AdvNone THEN AdvBase ELSE g) EXCEPT
            !.enabled = AdvOwn(o.enabled, @), !.coverage = AdvOwn(o.coverage, @),
            !.engines = AdvOwnList(o.engines, @), !.regions = AdvOwnList(o.regions, @),
            !.types = AdvOwnList(o.types, @)]

\* The configuration a recommendation is under: none without an account, or
\* when neither its service nor its account says anything.
AdvConfig(r) ==
    IF r.account = AdvNone THEN AdvNone
    ELSE LET rule == IF r.service = "rds" THEN advRule ELSE AdvNone IN
         AdvResolve(rule, IF r.service = "rds" THEN advOverride[r.account] ELSE AdvNone)

AdvListed(value, list) == value \notin list.never /\ (list.only = {} \/ value \in list.only)
AdvEngineFits(r, c) == r.engine = "" \/ AdvListed(r.engine, c.engines)
AdvEnough(r, c) == c.min = 0 \/ r.count >= c.min

AdvFits(r) ==
    LET c == AdvConfig(r) IN
    c # AdvNone => /\ c.enabled
                   /\ AdvEngineFits(r, c)
                   /\ AdvListed(r.region, c.regions)
                   /\ AdvListed(r.type, c.types)
                   /\ AdvEnough(r, c)

\* Mutant: the detail page forgets the resource types.
AdvHiddenByThree(r) ==
    LET c == AdvConfig(r) IN
    IF c = AdvNone THEN {}
    ELSE {why \in {"enabled", "engine", "region"} :
            \/ why = "enabled" /\ ~c.enabled
            \/ why = "engine" /\ ~AdvEngineFits(r, c)
            \/ why = "region" /\ ~AdvListed(r.region, c.regions)}

\* Why a page of recommendations would leave this one out; how few there are
\* of it is no reason here.
AdvHiddenBy(r) ==
    LET c == AdvConfig(r) IN
    IF c = AdvNone THEN {}
    ELSE {why \in {"enabled", "engine", "region", "type"} :
            \/ why = "enabled" /\ ~c.enabled
            \/ why = "engine" /\ ~AdvEngineFits(r, c)
            \/ why = "region" /\ ~AdvListed(r.region, c.regions)
            \/ why = "type" /\ ~AdvListed(r.type, c.types)}
------------------------------------------------------------------------------
(* The caller, and the totals. *)
\* What has no account is seen by those who see all.
AdvMine(ask, rows) ==
    IF ask.accounts = AdvAccounts THEN rows ELSE {r \in rows : r.account \in ask.accounts}

AdvOffered(rows) == {r \in rows : advProviders = {} \/ r.provider \in advProviders}

AdvSavings(rows) == MapThenSumSet(LAMBDA r : r.savings, rows)
AdvConfidence(r) ==
    IF r.savings >= 200 /\ r.count >= 3 THEN "high" ELSE IF r.savings >= 50 THEN "medium" ELSE "low"

\* A coverage of zero is one nobody set.
AdvScaled(r, scaling) ==
    LET c == AdvConfig(r) IN
    IF ~scaling \/ c = AdvNone THEN r.savings
    ELSE IF c.coverage \in {0} \/ c.coverage >= 100 THEN r.savings ELSE (r.savings * c.coverage) \div 100

\* Mutant: the variants of a cell are all counted.
AdvBestAll(rows, scaling) == rows

\* Of the variants of one cell the one that saves most.
AdvBest(rows, scaling) ==
    {CHOOSE b \in {q \in rows : AdvOf(q) = AdvOf(r)} :
        \A q \in {p \in rows : AdvOf(p) = AdvOf(r)} : AdvScaled(q, scaling) <= AdvScaled(b, scaling) : r \in rows}
AdvPotential(rows, scaling) == MapThenSumSet(LAMBDA r : AdvScaled(r, scaling), AdvBest(rows, scaling))
------------------------------------------------------------------------------
(* What is configured, and who asks for what. *)
AdvLists == [only : SUBSET STRING, never : SUBSET STRING]
AdvRuleType ==
    [enabled : BOOLEAN, engines : AdvLists, regions : AdvLists, types : AdvLists,
     min : Nat, coverage : Nat]
AdvOverrideType ==
    [enabled : BOOLEAN \cup {AdvNone}, coverage : Nat \cup {AdvNone}, engines : AdvLists,
     regions : AdvLists, types : AdvLists]

\* The table has one row of a key, and the page of one recommendation asks for one.
ASSUME AdvDataAssumption ==
    /\ AdvNone \notin BOOLEAN \cup AdvRuleType
    /\ AdvRules \subseteq AdvRuleType /\ AdvOverrides \subseteq AdvOverrideType
    /\ IsFiniteSet(AdvFound)
    /\ \A f \in AdvFound : f.account \in AdvAccounts /\ {f.count, f.savings} \subseteq Nat
    /\ \A r, q \in AdvConvert(AdvFound) : AdvKey(r) = AdvKey(q) => r = q
    /\ \A ask \in AdvAsks : /\ ask.page \in {"list", "summary", "detail"}
                            /\ ask.page = "detail" => \E k \in ask.filter.ids : ask.filter.ids = {k}
------------------------------------------------------------------------------
(* The pages. *)
AdvInit ==
    /\ advRegistered \in {{}, AdvAccounts}
    /\ advFresh \in {"never", "stale", "fresh"}
    /\ advRows = IF advFresh = "never" \/ AdvNoRows THEN {} ELSE AdvConvert(AdvFound)
    /\ advBuying \in {{}, {[cell |-> AdvOf(r), count |-> 1, age |-> 1] : r \in AdvConvert(AdvFound)}}
    /\ advRule \in AdvRules \cup {AdvNone}
    /\ advOverride \in [AdvAccounts -> AdvOverrides \cup {AdvNone}]
    /\ advProviders \in {{}, {"aws"}}
    /\ \E ask \in AdvAsks :
        advReq = [ask |-> ask, pc |-> IF ask.page = "detail" THEN "cache" ELSE "freshness",
                  rows |-> {}, why |-> {}, trust |-> {}, total |-> 0, kicked |-> FALSE]
    /\ advChanges = 0 /\ advErred = FALSE

AdvAt(pc) == advReq.pc = pc
AdvTo(pc, rows) == advReq' = [advReq EXCEPT !.pc = pc, !.rows = rows]
AdvFail == advReq' = [advReq EXCEPT !.pc = "failed", !.rows = {}]
AdvOnly(vars) == UNCHANGED <<advRegistered, advBuying, advRule, advOverride, advProviders, advChanges>> /\ UNCHANGED vars

\* ListRecommendations: with nothing collected yet it collects, and fails if it cannot.
AdvFreshness ==
    /\ AdvAt("freshness")
    /\ \/ AdvFail /\ UNCHANGED <<advRows, advFresh>>
       \/ advFresh # "never" /\ AdvTo("cache", {}) /\ UNCHANGED <<advRows, advFresh>>
       \/ advFresh = "never" /\ AdvTo("cache", {}) /\ advFresh' = "fresh" /\ advRows' \in AdvCollected("aws")
    /\ AdvOnly(advErred)

AdvRead ==
    /\ AdvAt("cache")
    /\ AdvFail \/ AdvTo("buying", AdvStored(advReq.ask.filter))
    /\ AdvOnly(<<advRows, advFresh, advErred>>)

\* What is being bought is taken off, if it can be read.
AdvTakeOff ==
    /\ AdvAt("buying")
    /\ \/ AdvTo("rules", AdvApply(advReq.rows, advBuying)) /\ UNCHANGED advErred
       \/ AdvTo("rules", advReq.rows) /\ advErred' = TRUE
    /\ AdvOnly(<<advRows, advFresh>>)

\* A page of several drops what the rules exclude; the page of one says why it
\* would be. Rules that cannot be read exclude nothing.
AdvExclude ==
    /\ AdvAt("rules")
    /\ \/ advReq.ask.page # "detail" /\ AdvTo("ttl", {r \in advReq.rows : AdvFits(r)}) /\ UNCHANGED advErred
       \/ /\ advReq.ask.page = "detail"
          /\ advReq' = [advReq EXCEPT !.pc = "scope", !.why = UNION {AdvHiddenBy(r) : r \in advReq.rows}]
          /\ UNCHANGED advErred
       \/ AdvTo(IF advReq.ask.page = "detail" THEN "scope" ELSE "ttl", advReq.rows) /\ advErred' = TRUE
    /\ AdvOnly(<<advRows, advFresh>>)

\* A long-running process refreshes what is older than its configuration
\* allows, unless that is set to never; the page does not wait.
AdvKick == \E kick \in BOOLEAN :
    /\ AdvAt("ttl")
    /\ kick => advFresh = "stale"
    /\ advReq' = [advReq EXCEPT !.pc = IF advReq.ask.page = "list" THEN "providers" ELSE "scope", !.kicked = kick]
    /\ AdvOnly(<<advRows, advFresh, advErred>>)

\* Only the list goes by the providers that are enabled.
AdvOffer ==
    /\ AdvAt("providers")
    /\ AdvFail \/ AdvTo("scope", AdvOffered(advReq.rows))
    /\ AdvOnly(<<advRows, advFresh, advErred>>)

\* What is not the caller's is dropped. The list adds up all variants, the page
\* of one says how much the advice can be relied on.
AdvScope ==
    /\ AdvAt("scope")
    /\ \/ AdvFail
       \/ LET mine == AdvMine(advReq.ask, advReq.rows) IN
          CASE advReq.ask.page = "summary" -> AdvTo("coverage", mine)
            [] advReq.ask.page = "list" ->
                    advReq' = [advReq EXCEPT !.pc = "done", !.rows = mine, !.total = AdvSavings(mine)]
            [] advReq.ask.page = "detail" ->
                    advReq' = [advReq EXCEPT !.pc = "done", !.rows = mine, !.trust = {AdvConfidence(r) : r \in mine}]
    /\ AdvOnly(<<advRows, advFresh, advErred>>)

\* getDashboardSummary reads the rules again, and scales by none if it cannot.
AdvSummary == \E scaling \in BOOLEAN :
    /\ AdvAt("coverage")
    /\ advReq' = [advReq EXCEPT !.pc = "done", !.total = AdvPotential(advReq.rows, scaling)]
    /\ AdvOnly(<<advRows, advFresh, advErred>>)

\* While a page is read: a sweep, a purchase submitted or withdrawn, new rules.
AdvChange ==
    /\ advReq.pc \notin {"done", "failed"} /\ advChanges < AdvMaxChanges
    /\ advChanges' = advChanges + 1
    /\ \/ advFresh' = "fresh" /\ advRows' \in AdvCollected("aws") /\ UNCHANGED <<advBuying, advRule, advOverride>>
       \/ \E r \in advRows : advBuying' = advBuying \cup {[cell |-> AdvOf(r), count |-> 1, age |-> 0]}
          /\ UNCHANGED <<advRows, advFresh, advRule, advOverride>>
       \/ advBuying # {} /\ advBuying' = {} /\ UNCHANGED <<advRows, advFresh, advRule, advOverride>>
       \/ advRule' \in AdvRules /\ UNCHANGED <<advRows, advFresh, advBuying, advOverride>>
       \/ \E o \in AdvOverrides \cup {AdvNone} : advOverride' = [advOverride EXCEPT !["one"] = o]
          /\ UNCHANGED <<advRows, advFresh, advBuying, advRule>>
    /\ UNCHANGED <<advRegistered, advProviders, advReq, advErred>>

AdvNext == \/ AdvFreshness \/ AdvRead \/ AdvTakeOff \/ AdvExclude \/ AdvKick
           \/ AdvOffer \/ AdvScope \/ AdvSummary \/ AdvChange

AdvSpec == AdvInit /\ [][AdvNext]_advVars
------------------------------------------------------------------------------
(* Properties. *)
AdvDone == advReq.pc = "done"
\* Nothing changed while the page was read, and all of it could be read.
AdvQuiet == AdvDone /\ advChanges = 0 /\ ~advErred

\* The page of one recommendation and the page of them all decide alike, though
\* each has its own code: it gives no reason to hide one the list would show,
\* and shows without one only what the list shows, but for how few there are
\* and the providers that are enabled (overrideHiddenReasons and
\* filterRecsByResolvedConfigs).
AdvDetailAgrees ==
    LET listed == AdvMine(advReq.ask, AdvOffered({r \in AdvApply(AdvStored(advReq.ask.filter), advBuying) : AdvFits(r)})) IN
    AdvQuiet /\ advReq.ask.page = "detail" =>
        /\ listed \subseteq advReq.rows
        /\ \A r \in advReq.rows :
            LET c == AdvConfig(r) IN
            r \in listed <=> /\ advReq.why = {}
                             /\ r \in AdvOffered({r})
                             /\ c # AdvNone => AdvEnough(r, c)

\* What is shown and what is being bought make up what was advised, and nothing
\* is shown of which all is being bought (applySuppressionIndex).
AdvCapacity ==
    AdvQuiet => \A r \in advReq.rows :
        /\ r.count > 0
        /\ \E s \in advRows : AdvKey(s) = AdvKey(r) /\ s.count = r.count + AdvSuppressed(advBuying, AdvOf(r))

\* The rules an account sets go before those of its service (ResolveServiceConfig).
AdvAccountsDecide ==
    AdvQuiet /\ advReq.ask.page # "detail" =>
        \A r \in advReq.rows : r.service = "rds" /\ r.account # AdvNone =>
            LET o == advOverride[r.account] IN
            o # AdvNone => /\ o.enabled # FALSE
                           /\ r.region \notin o.regions.never
                           /\ o.regions.only # {} => r.region \in o.regions.only

\* The dashboard promises no more than one variant of each cell can save
\* (bestVariantPerCell), and nobody is shown what others could save.
AdvSummaryHonest ==
    /\ AdvDone => \/ advReq.ask.accounts = AdvAccounts
                  \/ \A r \in advReq.rows : r.account \in advReq.ask.accounts
    /\ advReq.ask.page = "summary" => advReq.total <=
            MapThenSumSet(LAMBDA cell : Max({r.savings : r \in {q \in advReq.rows : AdvOf(q) = cell}}),
                          {AdvOf(r) : r \in advReq.rows})

\* A page of advice says what the cache, the purchases in flight and the rules say.
AdvSound == AdvDetailAgrees /\ AdvCapacity /\ AdvAccountsDecide /\ AdvSummaryHonest
==============================================================================

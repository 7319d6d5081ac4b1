SPECIFICATION HandlersSpec
CONSTANTS
    RampSteps = 2
    RampMaxRows = 2
    RampCallers = {c1}
    RampLastDay = 2
    NoPlan = NoPlan
    Notifier = Notifier
    FanAccounts = {a1, a2}
    FanMaxRows = 4
    NoScope = NoScope
    SubUsers = {u1}
    SubRecs = {r1}
    SubCallers = {s1, s2}
    SubMaxRows = 2
    SubGrace = 1
    SubLastTick = 1
    UsrIds = {u1, u2}
    UsrCallers = {w1, w2}
    UsrAbsent = UsrAbsent
    RegIds = {1, 2}
    RegKeys = {k1, k2}
    RegCallers = {c1, c2}
    RegMaxAccounts = 2
    RegNone = RegNone
    ColTokens = {t1, t2}
    ColCron = cron
    ColBackground = {}
    ColSubs = {s1, s2}
    ColLastTick = 1
    ColNobody = nobody
    DxRequests = {x1, x2}
    DxBodies <- DxBodiesMC
    DxPermissions <- DxPermissionsMC
    DxPrices = {1, 2}
    DxWindow = 1
    DxLastTick = 2
    DxNoRegion = DxNoRegion
    MktCallers = {m1, m2}
    MktMaxListings = 2
    NoListing = NoListing
    ProvDrivers = {d1, d2}
    ProvAttempts = 3
    ProvMaxMade = 4
    CrdRows <- CrdRowsMC
    CrdNoRow = CrdNoRow
    CatCap = 2
    CatLastPage = 2
    CatPageSize = 2
    CatLastEntry = 3
    AppPeople = {p1, p2}
    AppNobody = nobody
    AppAccounts = {a1}
    AppMaxChanges = 1
    ViwRecs = {c1, c2}
    ViwOld = old
    ViwPage = 2
    ViwRuns = 2
    ViwViewers <- ViwViewersMC
    ReqCallers <- ReqCallersMC
    ReqSomeId = "some id"
    AdvFound <- AdvFoundMC
    AdvRules <- AdvRulesMC
    AdvOverrides <- AdvOverridesMC
    AdvAsks <- AdvAsksMC
    AdvNone = AdvNone
    AdvMaxChanges = 1
    AdvNoRows = FALSE
    StaProcs = {q1, q2}
    StaLast = 2
    StaTries = 1
    StaBase = 1
    StaMaxDelay = 1
    StaPatience = 0
    StaMaxKills = 1
    StaMaxDeploys = 1
    StaNone = StaNone
    TskProcs = {p1, p2}
    TskOther = {}
    TskAhead = 1
    TskKeep = 1
    TskLastMonth = 2
    TskMaxLost = 1
    TskNobody = nobody
    QueProcs = {p1, p2}
    QueMessages = {m1, m2, m3}
    QueReceives = 2
    LimKeys = {k1, k2}
    LimMax = 2
    LimWindow = 1
    LimCap = 2
    LimLastTick = 4
    LimNone = LimNone
    UtlSoft = 1
    UtlHard = 2
    UtlSlow = 1
    UtlReaders = {u1, u2}
    UtlLastTick = 4
    UtlNone = UtlNone
    RshRIs <- RshRIsMC
    RshOffers <- RshOffersMC
    RshThreshold = 95
    RshNone = RshNone
VIEW HandlersView
CHECK_DEADLOCK FALSE
INVARIANTS
    RampBooksHonest
    FanKeepsBooks
    SubSound
    RegSound
    
    ExchangeSound
    MktSoleListing
    ProvSound
    CatHonest
    
    
    
    AdviceSound
    StartSound
    TasksSound
    QueSound
    ClockSound
PROPERTIES
    UsrAdminsSound
    ColNothingLost
    CrdHonest

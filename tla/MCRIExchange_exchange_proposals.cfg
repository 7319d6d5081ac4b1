SPECIFICATION FairSpec
CONSTANTS
    Rows = {x1, x2}
    RIs = {i1, i2}
    Approvers = {a1}
    Reshape = {reshape}
    Modes = {"manual", "auto"}
    Prices = {1, 2}
    PerExchangeCap = 2
    DailyCap = 3
    Drift = FALSE
    LostReplies = TRUE
    LastDay = 0
    None = None
CHECK_DEADLOCK FALSE
INVARIANTS
    PaidRowOnLedger
PROPERTIES
    PendingLeaves

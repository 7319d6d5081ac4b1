SPECIFICATION Spec
CONSTANTS
    Rows = {x1, x2, x3}
    RIs = {i1, i2, i3}
    Approvers = {a1}
    Reshape = {reshape}
    Modes = {"manual"}
    Prices = {0, 2}
    PerExchangeCap = 2
    DailyCap = 3
    Drift = TRUE
    LostReplies = TRUE
    LastDay = 1
    None = None
SYMMETRY Interchangeable
CHECK_DEADLOCK FALSE
INVARIANTS
    TypeOK
    LedgerWithinCap

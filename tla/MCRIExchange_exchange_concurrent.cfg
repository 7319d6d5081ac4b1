SPECIFICATION Spec
CONSTANTS
    Rows = {x1, x2, x3}
    RIs = {i1, i2, i3}
    Approvers = {a1, a2, a3}
    Reshape = {reshape}
    Modes = {"manual"}
    Prices = {1, 2}
    PerExchangeCap = 2
    DailyCap = 4
    Drift = FALSE
    LostReplies = TRUE
    LastDay = 0
    None = None
SYMMETRY Interchangeable
CHECK_DEADLOCK FALSE
INVARIANTS
    LedgerWithinCap

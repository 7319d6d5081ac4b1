SPECIFICATION Spec
CONSTANTS
    Rows = {x1, x2}
    RIs = {i1, i2}
    Approvers = {a1, a2}
    Reshape = {reshape}
    Modes = {"manual"}
    Prices = {0, 2}
    PerExchangeCap = 2
    DailyCap = 3
    Drift = TRUE
    LostReplies = FALSE
    LastDay = 0
    None = None
SYMMETRY Interchangeable
CHECK_DEADLOCK FALSE
INVARIANTS
    ConcurrentApprovalsWithinCap

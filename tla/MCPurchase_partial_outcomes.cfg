SPECIFICATION FairSpec
CONSTANTS
    e1 = e1
    e2 = e2
    Execs = {e1}
    Recs = {r1, r2}
    Workers = {w1, w2}
    NoExec = NoExec
    TagGuarded <- NoLineages
    Unguarded <- NoLineages
    PlanRecs = {r1, r2}
    AutoPurchase = TRUE
    Delay = TRUE
    DirectExecute = TRUE
    MaxAttempt = 1
    Armed <- NoArmed
CHECK_DEADLOCK FALSE
INVARIANTS
    BoughtIsFinal
    NoPhantomPurchase
PROPERTIES
    StuckRowsLeave

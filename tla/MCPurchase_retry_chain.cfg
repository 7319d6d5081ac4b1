SPECIFICATION Spec
CONSTANTS
    e1 = e1
    e2 = e2
    Execs = {e1, e2, e3}
    Recs = {r1}
    Workers = {w1}
    NoExec = NoExec
    TagGuarded <- LineageOfE1
    Unguarded <- NoLineages
    PlanRecs = {}
    AutoPurchase = FALSE
    Delay = FALSE
    DirectExecute = FALSE
    MaxAttempt = 2
    Armed <- NoArmed
CHECK_DEADLOCK FALSE
INVARIANTS
    TypeOK
    RetryLinkSound

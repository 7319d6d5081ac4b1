SPECIFICATION Spec
CONSTANTS
    e1 = e1
    e2 = e2
    Execs = {e1}
    Recs = {r1}
    Workers = {w1, w2}
    NoExec = NoExec
    TagGuarded <- NoLineages
    Unguarded <- NoLineages
    PlanRecs = {}
    AutoPurchase = FALSE
    Delay = TRUE
    DirectExecute = FALSE
    MaxAttempt = 1
    Armed <- NoArmed
SYMMETRY WorkerSymmetry
CHECK_DEADLOCK FALSE
PROPERTIES
    CanceledNotRescheduled

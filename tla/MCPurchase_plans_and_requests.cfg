SPECIFICATION Spec
CONSTANTS
    e1 = e1
    e2 = e2
    Execs = {e1, e2}
    Recs = {r1}
    Workers = {w1, w2}
    NoExec = NoExec
    TagGuarded <- NoLineages
    Unguarded <- LineageOfE1
    PlanRecs = {r1}
    AutoPurchase = TRUE
    Delay = FALSE
    DirectExecute = FALSE
    MaxAttempt = 1
    Armed <- RetryArmed
SYMMETRY WorkerSymmetry
CHECK_DEADLOCK FALSE
INVARIANTS
    NoUnapprovedPurchase
    UnguardedLineageOneRow
    ServerGuardedBoughtOnce
PROPERTIES
    ImplementsContract

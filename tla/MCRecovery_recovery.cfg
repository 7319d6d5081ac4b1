SPECIFICATION RecoverySpec
CONSTANTS
    RevCallers = {v1, v2}
    RevMaxPosts = 3
    UseRequests = {q1, q2, q3, q4}
    UseRounds = 2
    LadRunners = {l1}
    LadUnknown = LadUnknown
    LadFloors = {9}
    LadHeld = {0, 2}
    LadChanges = 1
    LadConfigs <- LadConfigsMC
CHECK_DEADLOCK FALSE
INVARIANTS
    RevRefundSound
    UseBooksSound
PROPERTIES
    RevReconciled
    
    LadBounded
    LadConverges

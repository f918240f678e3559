SPECIFICATION Spec
CONSTANTS
    j1 = j1
    j2 = j2
    Jobs = {j1, j2}
    w1 = w1
    w2 = w2
    Workers = {w1, w2}
    NoWorker = NoWorker
    MaxAttempts = 2
SYMMETRY MCSymmetry
INVARIANTS
    LeaseMatchesStatus
    RetryAccounting
    RunFollowsJob
PROPERTIES
    ClaimNeverRevives
    CancelStopsWork
    FencedJobSpec
CHECK_DEADLOCK FALSE

SPECIFICATION Spec
CONSTANTS
    c1 = c1
    c2 = c2
    e1 = e1
    e2 = e2
    Deliveries = {1, 2}
    EventOf <- MCTwoTopics
    Consumers = {c1, c2}
    Route <- MCTwoTopicsRoute
    Conflicting = {}
    w1 = w1
    w2 = w2
    Dispatchers = {w1, w2}
    NoDispatcher = NoDispatcher
    Mortal = {w1}
    Overlap = TRUE
    BatchSize = 2
    MaxAttempts = 2
INVARIANTS
    EffectivelyOnce
    DispatchedWasConsumed
    SendingIsReclaimable
    DeadIsAccounted
CHECK_DEADLOCK FALSE

SPECIFICATION FairSpec
CONSTANTS
    c1 = c1
    c2 = c2
    p1 = p1
    p2 = p2
    None = None
    Commands = {c1}
    Callers = {p1, p2}
    KeyOf <- MCOneKey
    Cancellable = {p1}
    MaxConnections = 1
    MaxFaults = 1
INVARIANTS
    ExecutedAtMostOnce
    StatusIsHonest
    AnswersAgree
PROPERTIES
    NoLostWakeup
    EveryCommandEnds
CHECK_DEADLOCK FALSE

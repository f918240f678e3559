SPECIFICATION Spec
CONSTANTS
    c1 = c1
    c2 = c2
    p1 = p1
    p2 = p2
    None = None
    Commands = {c1, c2}
    Callers = {p1, p2}
    KeyOf <- MCTwoKeys
    Cancellable = {p1}
    MaxConnections = 1
    MaxFaults = 0
PROPERTY
    OfflineMeansDisconnected
CHECK_DEADLOCK FALSE

SPECIFICATION Spec
CONSTANTS
    s1 = s1
    p1 = p1
    p2 = p2
    p3 = p3
    Sources = {s1}
    MaxFires = 2
    Processes = {p1, p2}
    NoKey = NoKey
    Mortal = {p1}
PROPERTIES
    SnoozeIsKept

SPECIFICATION Spec
CONSTANTS
    r1 = r1
    r2 = r2
    r3 = r3
    r4 = r4
    t1 = t1
    t2 = t2
    d1 = d1
    d2 = d2
    q1 = q1
    q2 = q2
    Rows = {r1, r2, r3, r4}
    Turns = {t1, t2}
    Digests = {d1, d2}
    Requests = {q1, q2}
    Mortal = {q1, q2}
    NoRow = NoRow
    NoDigest = NoDigest
    NoTurn = NoTurn
    Limit = 2
SYMMETRY MCSymmetry
INVARIANTS
    SentAtMostOnce
    StatusIsHonest
    SentAsShown
    OverrunIsBounded
PROPERTIES
    ClaimIsKept
CHECK_DEADLOCK FALSE

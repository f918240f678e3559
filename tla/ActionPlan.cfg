SPECIFICATION FairSpec
CONSTANTS
    x1 = x1
    x2 = x2
    u1 = u1
    u2 = u2
    N = 3
    NeedsConfirm = {2}
    Reversible = {1, 3}
    UndoNeedsConfirm = {3}
    Executors = {x1, x2}
    Undoers = {u1, u2}
INVARIANTS
    SideEffectIsHonest
    CompletedIsWhole
    CalledOnceInOrder
    UndoneInReverse
PROPERTIES
    StopIsObeyed
    EndIsFinal
    EveryExecutionEnds
CHECK_DEADLOCK FALSE

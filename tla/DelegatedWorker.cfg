SPECIFICATION FairWorkerSpec
CONSTANTS
    j1 = j1
    Jobs = {j1}
    NoJob = NoJob
    w1 = w1
    w2 = w2
    Workers = {w1, w2}
    Mortal = {w1}
    NoWorker = NoWorker
    MaxAttempts = 2
INVARIANTS
    ReportedAtMostOnce
PROPERTIES
    EveryJobEnds
CHECK_DEADLOCK FALSE

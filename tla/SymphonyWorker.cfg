SPECIFICATION FairSpec
CONSTANTS
    w1 = w1
    w2 = w2
    r1 = r1
    r2 = r2
    NoRun = NoRun
    NoWorker = NoWorker
    Workers <- TwoWorkers
    Runs <- TwoRuns
    Commands = 2
    Lease = 6
    Timeout = 1
    Http = 1
    MaxConcurrency = 1
INVARIANTS
    TypeOK
    WorkKeepsLease
    SuccessIsComplete
PROPERTIES
    OutcomeStays
    ClaimedRunEnds
CHECK_DEADLOCK FALSE

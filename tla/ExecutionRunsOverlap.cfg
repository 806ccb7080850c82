CONSTANTS
    t1 = t1
    t2 = t2
    w1 = w1
    w2 = w2
    q1 = q1
    q2 = q2
    MaxRuns = 1
    Tasks <- TwoTasks
    HighRisk <- RiskyTask
    Workers <- TwoWorkers
    Kinds <- SymphonyOnly
    Requests <- TwoRequests
    Calls <- NoResumeCalls
    MaxConcurrency = 1
    Serialized = FALSE
    NoTask = NoTask
    NoWorker = NoWorker
SPECIFICATION Spec
SYMMETRY Symmetry
INVARIANT NoUnapprovedHighRisk
INVARIANT ClaimedOnce
PROPERTY BlockedIsFinal

CONSTANTS
    t1 = t1
    t2 = t2
    w1 = w1
    w2 = w2
    q1 = q1
    q2 = q2
    MaxRuns = 1
    Tasks <- OneTask
    HighRisk <- NoHighRisk
    Workers <- TwoWorkers
    Kinds <- SymphonyOnly
    Requests <- TwoRequests
    Calls <- ControlCalls
    MaxConcurrency = 1
    Serialized = FALSE
    NoTask = NoTask
    NoWorker = NoWorker
SPECIFICATION Spec
SYMMETRY Symmetry
INVARIANT ClaimedOnce

CONSTANTS
    t1 = t1
    t2 = t2
    w1 = w1
    w2 = w2
    q1 = q1
    q2 = q2
    MaxRuns = 2
    Tasks <- OneTask
    HighRisk <- NoHighRisk
    Workers <- OneWorker
    Kinds <- SymphonyOnly
    Requests <- TwoRequests
    Calls <- RecoveryCalls
    MaxConcurrency = 1
    Serialized = TRUE
    NoTask = NoTask
    NoWorker = NoWorker
SPECIFICATION FairSpec
PROPERTY AbandonedRunEnds

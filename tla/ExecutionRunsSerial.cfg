CONSTANTS
    t1 = t1
    t2 = t2
    w1 = w1
    w2 = w2
    q1 = q1
    q2 = q2
    MaxRuns = 2
    Tasks <- TwoTasks
    HighRisk <- RiskyTask
    Workers <- TwoWorkers
    Kinds <- BothKinds
    Requests <- TwoRequests
    Calls <- AllCalls
    MaxConcurrency = 1
    Serialized = TRUE
    NoTask = NoTask
    NoWorker = NoWorker
SPECIFICATION Spec
SYMMETRY Symmetry
INVARIANT TypeOK
INVARIANT TaskFollowsRuns
INVARIANT CompletedIsEarned
INVARIANT RunningHasLease
PROPERTY ImplementsLifecycle

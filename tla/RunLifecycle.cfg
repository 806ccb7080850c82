CONSTANTS
    r1 = r1
    r2 = r2
    r3 = r3
    t1 = t1
    t2 = t2
    Runs <- ThreeRuns
    Tasks <- TwoTasks
    MaxConcurrency = 1
    NoTask = NoTask
SPECIFICATION Spec
SYMMETRY Symmetry
INVARIANT OneActiveRun
INVARIANT WithinCapacity
PROPERTY FinalIsForever

SPECIFICATION Spec
CONSTANTS
    q1 = q1
    q2 = q2
    MaxSpecs = 2
    MaxTasks = 1
    Requests <- TwoRequests
    Calls <- AllCalls
    External = TRUE
    Fallback = TRUE
    Attempts = 1
INVARIANTS
    TypeOK
    HighRiskIsReviewed
PROPERTIES
    DraftNeedsDecision
SYMMETRY Symmetry
CHECK_DEADLOCK FALSE

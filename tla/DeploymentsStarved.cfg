SPECIFICATION FairSpec
CONSTANTS
    j1 = j1
    j2 = j2
    q1 = q1
    w1 = w1
    MaxRecords = 2
    Jobs <- OneJob
    Operators <- OneOperator
    Scanners <- OneScanner
    Limit = 1
    MaxDeaf = 1
PROPERTIES
    PendingIsResolved
CHECK_DEADLOCK FALSE

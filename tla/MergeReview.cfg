SPECIFICATION FairSpec
CONSTANTS
    q1 = q1
    q2 = q2
    k1 = k1
    Callers <- OneCaller
    Syncers <- OneSyncer
    Providers <- LocalAndGitLab
    Recorded <- AnyCommit
    Webhooks = TRUE
    Checks <- OneCheck
    Checked <- TheRecorded
    Outcomes <- Ends
    Attempts = 1
    MaxPushes = 0
INVARIANTS
    TypeOK
PROPERTIES
    PassHasCause
    SyncConverges
CHECK_DEADLOCK FALSE

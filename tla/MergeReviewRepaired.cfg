SPECIFICATION Spec
CONSTANTS
    q1 = q1
    q2 = q2
    k1 = k1
    Callers <- OneCaller
    Syncers <- NoSyncer
    Providers <- GitHub
    Recorded <- TheHead
    Webhooks = FALSE
    Checks <- OneCheck
    Checked <- HeadAndRepair
    Outcomes <- PendingAndEnds
    Attempts = 2
    MaxPushes = 1
PROPERTIES
    PassedIsCurrent
CHECK_DEADLOCK FALSE

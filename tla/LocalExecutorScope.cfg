SPECIFICATION Spec
CONSTANTS
    c1 = c1
    c2 = c2
    Files <- ThreeFiles
    InScope <- TheSecond
    Cut <- CutPaths
    Link = 4
    Checks <- TwoChecks
INVARIANTS
    SucceededIsInScope
CHECK_DEADLOCK FALSE

SPECIFICATION FairSpec
CONSTANT MaxTroubles = 4
CHECK_DEADLOCK FALSE
INVARIANT TypeOK SuggestionIsAccepted
PROPERTY GuideCompletes

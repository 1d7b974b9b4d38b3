CONSTANTS
    KindChoices <- MCFileServerAndS3
    RuleChoices <- MCRules
    FirstDays <- MCFirstDays
    Sundays <- MCSundays
    LastDay = 12
    MaxRuns = 3
    LateRuns = TRUE
SPECIFICATION Spec
CHECK_DEADLOCK FALSE
INVARIANTS TypeOK CountIsBounded 
PROPERTIES NewerOnesStay FullTerm

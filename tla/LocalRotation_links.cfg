CONSTANTS
    RuleChoices <- MCRules
    FirstDays <- MCTenDays
    Sundays <- MCTenDays
    LastDay = 10
    LateRuns = TRUE
    MaxRuns = 3
    MaxFaults = 1
SPECIFICATION Spec
CONSTRAINT LateOrFailing
CHECK_DEADLOCK FALSE
INVARIANTS TypeOK WantedIsReadable
PROPERTY LastFileGoesLast

CONSTANTS
    RuleChoices <- MCFiveWeeks
    FirstDays <- MCThirtyDays
    Sundays <- MCFiveSundays
    LastDay = 31
    LateRuns = FALSE
    MaxRuns = 2
    MaxFaults = 0
SPECIFICATION Spec
CHECK_DEADLOCK FALSE
INVARIANT WantedIsReadable

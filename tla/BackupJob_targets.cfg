CONSTANTS
    local = local
    remote = remote
    t1 = t1
    t2 = t2
    None = None
    FirstDays <- MCFirstDays
    Sundays <- MCSundays
    Targets <- MCTargets2
    Storages <- MCMixed
    Rotating <- MCMixed
    Kind <- MCLocalAndSmb
    RuleChoices <- MCDailyOrWeekly
    StartDays <- MCEve
    MaxNights = 1
SPECIFICATION FairSpec
CHECK_DEADLOCK FALSE
INVARIANTS TypeOK RemoteFindsArchive PendingKeepsArchive
PROPERTIES LastCopySurvives Terminates

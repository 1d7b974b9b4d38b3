CONSTANTS
    local = local
    remote = remote
    t1 = t1
    t2 = t2
    None = None
    FirstDays <- MCFirstDays
    Sundays <- MCSundays
    Targets <- MCTargets2
    Storages <- MCMixed
    Rotating <- MCMixed
    Kind <- MCLocalAndFtp
    RuleChoices <- MCDailyAndWeekly
    StartDays <- MCFirstSunday
    MaxNights = 1
SPECIFICATION Spec
CHECK_DEADLOCK FALSE
INVARIANTS DeliveryOkIsStored SilentRunIsComplete
PROPERTIES DeliveredIsLeftAlone KeepsPromise

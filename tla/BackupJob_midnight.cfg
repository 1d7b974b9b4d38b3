CONSTANTS
    local = local
    remote = remote
    t1 = t1
    t2 = t2
    None = None
    FirstDays <- MCFirstDays
    Sundays <- MCSundays
    Targets <- MCTargets1
    Storages <- MCMixed
    Rotating <- MCMixed
    Kind <- MCLocalAndSftp
    RuleChoices <- MCTwoPeriods
    StartDays <- MCFirstSunday
    MaxNights = 1
SPECIFICATION Spec
CHECK_DEADLOCK FALSE
INVARIANT DeliveryMetricTold

CONSTANTS
    mail = mail
    hook = hook
    Notifiers <- MCNotifiers
    Level <- MCLevel
    Smtp <- MCSmtp
    Commands <- MCStart
    EventLevels <- MCEventLevels
    MaxEvents = 1
    MaxSignals = 0
SPECIFICATION Spec
CHECK_DEADLOCK FALSE
INVARIANT ServedWhateverFails

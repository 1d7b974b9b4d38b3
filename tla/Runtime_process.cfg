CONSTANTS
    mail = mail
    hook = hook
    Notifiers <- MCNotifiers
    Level <- MCLevel
    Smtp <- MCSmtp
    Commands <- MCAllCommands
    EventLevels <- MCEventLevels
    MaxEvents = 2
    MaxSignals = 2
SPECIFICATION FairSpec
CHECK_DEADLOCK FALSE
INVARIANTS TypeOK EveryNotifierServed NoLineTwice QuietBelowLevel ExitCodeTellsResult
PROPERTY EndsByItself

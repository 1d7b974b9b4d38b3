CONSTANTS
    p1 = p1
    p2 = p2
    None = None
    Processes <- MCProcesses
    Commands <- MCCommands
    Config <- MCConfig
    Connections <- MCConnections
    MaxFaults = 1
SPECIFICATION FairSpec
INVARIANTS
    TypeOK
    OneAtATime
    QuietExitIsClean
    ProgramIsWhole
PROPERTY StartsEnd
CHECK_DEADLOCK FALSE

CONSTANTS
    p1 = p1
    p2 = p2
    None = None
    Processes <- OneProcess
    Commands <- OneCommands
    Config <- MCConfig
    Connections <- MCConnections
    MaxFaults = 0
SPECIFICATION Spec
INVARIANT MetricsOfOthersKept
CHECK_DEADLOCK FALSE

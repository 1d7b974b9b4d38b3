SPECIFICATION Spec
CONSTANTS
    d1 = d1
    d2 = d2
    a = a
    b = b
    All = All
    None = None
    Names <- MCNames
    Tables <- MCTables
    JobChoices <- MCJobs
    MaxFaults = 2
CHECK_DEADLOCK FALSE
INVARIANTS TypeOK SilentRunIsWhole NothingForeign PasswordRemoved ReplicaRunsAgain DumpGoesWhenRegistered

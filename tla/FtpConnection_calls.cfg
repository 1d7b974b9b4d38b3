SPECIFICATION FairSpec
CONSTANTS
  Operations <- MCOperations
  FeatureSets <- MCFeatureSets
  Depth = 2
  MaxOld = 1
  MaxCalls = 2
  MaxFaults = 2
INVARIANTS TypeOK RepliesMatch StoredIsWhole DataConnClosed ErrorHasCause
PROPERTIES CallsEnd
CHECK_DEADLOCK FALSE

CONSTANTS
    DataLen = 2
    Prompts = 2
    MaxGenBatches = 1
    Configs <- MCConfigs
    MaxRestarts = 2
SPECIFICATION FairSpec
INVARIANTS
    CountersTrue
    LastStepSaved
    MetricOfItsWeights
    GeneratesWithLatest
    OnPolicy
    
    TakeTurns
    
PROPERTIES
    KeepsOrder
    Ends
CHECK_DEADLOCK FALSE

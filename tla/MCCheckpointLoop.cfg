SPECIFICATION Spec
CONSTANTS
  MaxSteps = 4
  SavePeriod = 1
  KeepTopK = 1
  MaxScore = 2
  AnyStep = FALSE
  ConfigMayChange = FALSE
  MaxSaves = 4
  MaxCrashes = 2
CHECK_DEADLOCK FALSE
INVARIANTS LatestUsable NeverOverwrites ResumeConsistent
PROPERTIES BestKept KeepsRegister

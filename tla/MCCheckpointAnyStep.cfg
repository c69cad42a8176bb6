SPECIFICATION Spec
CONSTANTS
  MaxSteps = 2
  SavePeriod = 1
  KeepTopK = 1
  MaxScore = 1
  AnyStep = TRUE
  ConfigMayChange = FALSE
  MaxSaves = 4
  MaxCrashes = 2
CHECK_DEADLOCK FALSE
PROPERTY CopySurvives

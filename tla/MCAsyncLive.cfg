SPECIFICATION FairSpec
CONSTANTS
  NumPrompts = 1
  MaxAge = 1
  MaxSize = 2
  StartStep = 0
  MaxSteps = 3
  NumBatches = 4
  InFlight = FALSE
  MaxFailures = 1
  ValPeriod = 2
  ValAtStart = TRUE
  ValAtEnd = TRUE
PROPERTIES  PauseEnds KeepsPromise

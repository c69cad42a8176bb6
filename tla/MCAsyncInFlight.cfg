SPECIFICATION Spec
CONSTANTS
  NumPrompts = 1
  MaxAge = 2
  MaxSize = 4
  StartStep = 3
  MaxSteps = 6
  NumBatches = 4
  InFlight = TRUE
  MaxFailures = 0
  ValPeriod = 0
  ValAtStart = FALSE
  ValAtEnd = FALSE
INVARIANTS LabelNotAhead TrainedBatchFresh BoundedLookahead VersionsInStep

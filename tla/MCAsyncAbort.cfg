SPECIFICATION Spec
CONSTANTS
  NumPrompts = 1
  MaxAge = 1
  MaxSize = 2
  StartStep = 0
  MaxSteps = 3
  NumBatches = 4
  InFlight = FALSE
  MaxFailures = 0
  ValPeriod = 0
  ValAtStart = FALSE
  ValAtEnd = FALSE
INVARIANT NeverAborts

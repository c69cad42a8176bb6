SPECIFICATION Spec
CONSTANTS
  NumPrompts = 2
  MaxAge = 1
  MaxSize = 4
  StartStep = 0
  MaxSteps = 2
  NumBatches = 3
  InFlight = FALSE
  MaxFailures = 0
  ValPeriod = 1
  ValAtStart = FALSE
  ValAtEnd = FALSE
INVARIANTS TypeOK RefitGuarded NoLeakedReservation 

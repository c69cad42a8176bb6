SPECIFICATION RolloutsSpec
CONSTANTS
  NumSamples = 3
  NumThreads = 2
  ThreadOf <- TwoThreads
  TaskOf <- TwoTasks
  NumEngines = 2
  PromptLengths <- Prompts
  AnswerLengths = {1}
  ObservationLengths = {2}
  MaxSeqLen = 5
  MaxNewTokens = 2
  MaxTurns = 2
  MaxErrors = 0
INVARIANT EveryRequestDispatched
CHECK_DEADLOCK FALSE

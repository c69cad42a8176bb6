SPECIFICATION FairRolloutsSpec
CONSTANTS
  NumSamples = 3
  NumThreads = 1
  ThreadOf <- OneThread
  TaskOf <- TwoTasks
  NumEngines = 2
  PromptLengths <- Prompts
  AnswerLengths = {1}
  ObservationLengths = {2}
  MaxSeqLen = 5
  MaxNewTokens = 2
  MaxTurns = 2
  MaxErrors = 1
INVARIANTS FailsOnlyByErrors
PROPERTIES FollowsEpisodes RolloutsEnd
CHECK_DEADLOCK FALSE

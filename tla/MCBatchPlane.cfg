SPECIFICATION Spec
CONSTANTS
  Batches <- MCBatches
  Shards = 2
  Copies = 2
  GlobalBatchSizes = {2, 4, 8}
  MicroBatchSize = 1
  MaxTokens = 12
  LengthRound = 2
  Orders <- SomeOrders
INVARIANTS EveryRowOnce WithinCapacity  NobodyLeftWaiting
CHECK_DEADLOCK FALSE

SPECIFICATION FairRefitSpec
CONSTANTS
  Ranks = {r1, r2}
  Leaders = {r1, r2}
  Align = 2
  BufferSizes = {4, 8}
  NumBuffers = 2
  Target = 2
  MaxFaults = 2
  TensorSizes <- Sizes
INVARIANTS StreamingSafe BroadcastSafe
PROPERTIES  RefitEnds
CHECK_DEADLOCK FALSE

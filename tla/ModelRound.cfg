SPECIFICATION FairSpec
CONSTANTS
  Resident <- ResidentTools
  Loadable <- LoadableTools
  Exclusive <- ExclusiveTools
  Unknown = "unknown"
  Batches <- SmallBatches
  Child = {c1}
  CanFallBack = TRUE
  MaxRetries = 1
  MaxBatch = 2
  MaxBuffer = 2
  MaxChunks = 3
  MaxToolRounds = 1
  MaxSteers = 1
CHECK_DEADLOCK FALSE
INVARIANTS
  DraftIsOneAnswer
  NothingLost
  CompletesInformed
PROPERTIES
  LoopEnds

SPECIFICATION FairSpec
CONSTANTS
  Worker = {w1, w2}
  NoWorker = NoWorker
  LeaseTicks = 2
  Attempts = 1
  MaxClaims = 3
  MaxCalls = 1
  MaxQuestions = 1
  MaxDraft = 0
  MaxSteers = 1
CHECK_DEADLOCK FALSE
PROPERTIES
  AbandonedRunTakenUp
  SteersReachHistory

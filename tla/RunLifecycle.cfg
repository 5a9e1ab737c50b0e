SPECIFICATION Spec
CONSTANTS
  Worker = {w1, w2}
  NoWorker = NoWorker
  LeaseTicks = 2
  Attempts = 2
  MaxClaims = 3
  MaxCalls = 2
  MaxQuestions = 2
  MaxDraft = 1
  MaxSteers = 0
SYMMETRY WorkerSymmetry
CHECK_DEADLOCK FALSE
INVARIANTS
  TypeOK
  LeaseExclusive
  NoReplay
  UnknownOutcomeNeverResumes
  OnlyApprovedToolsRun
  HistoryPaired
  QuestionMatchesStatus
PROPERTIES
  TerminalIsFinal
  ImplementsDurableRun

SPECIFICATION FairWindowSpec
CONSTANTS
  UnitSize = 3
  RefSize = 1
  Budget = 10
  Goal = 6
  Recent = 2
  CallLimit = 6
  MaxPasses = 2
  MaxSplit = 2
  MaxUnits = 4
CHECK_DEADLOCK FALSE
INVARIANTS
  NothingUnread
  ReferencesSurvive
PROPERTIES
  FitEnds

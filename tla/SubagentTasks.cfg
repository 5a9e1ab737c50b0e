\* Two children of two calls; both processes reconcile, and one lease may be lost.
SPECIFICATION FairSpec
CONSTANTS
  t1 = t1
  t2 = t2
  g1 = g1
  g2 = g2
  Task = {t1, t2}
  Group = {g1, g2}
  GroupOf <- GroupsOfTwo
  Required = {t1}
  Process = {p1, p2}
  NoProcess = NoProcess
  LeaseTicks = 2
  RunMax = 1
  GroupMax = 1
  MaxFence = 2
CHECK_DEADLOCK FALSE
INVARIANTS
  ConcurrencyLimit
  ResultsDeliveredOnce
  RequiredResultsCollected
  NoOrphans
PROPERTIES
  WaitEnds

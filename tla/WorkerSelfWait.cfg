\* A child, too, may find that the results it delivers do not fit.
CONSTANTS
  r1 = r1
  Root = {r1}
  Child = {c1, c2}
  Parent <- OneParent
  Loop = Loop
  Close = Close
  MaxRuns = 1
  Undelivered = {"loop", "child"}
  Closes = FALSE
  MaxFaults = 1
SPECIFICATION FairSpec
PROPERTY ChildrenStop
\* Finished runs are not restarted.
CHECK_DEADLOCK FALSE

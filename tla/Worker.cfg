\* One slot for two roots and a child; one renewal or lease fails; the process may shut down.
CONSTANTS
  r1 = r1
  Root = {r1, r2}
  Child = {c1}
  Parent <- OneParent
  Loop = Loop
  Close = Close
  MaxRuns = 1
  Undelivered = {"loop"}
  Closes = TRUE
  MaxFaults = 1
SPECIFICATION FairSpec
INVARIANT HandoffKept
PROPERTIES FreshClaimSpared PendingRunsExecute ChildrenStop
\* A process that is closed stops.
CHECK_DEADLOCK FALSE

\* Three inputs of one session, two of them waiting at most; a tab that may show any row
\* that ever was.
SPECIFICATION FairSpec
CONSTANTS
  Input = {i1, i2, i3}
  Tab = {t1}
  Original = Original
  Limit = 2
  MaxChanges = 1
  MaxRuns = 1
CHECK_DEADLOCK FALSE
INVARIANTS
  SentAsShown
  QueueOrder
PROPERTIES
  DecisionsLast
  PendingDecided

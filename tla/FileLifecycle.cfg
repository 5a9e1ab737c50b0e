SPECIFICATION FairSpec
CONSTANTS
  File = {f1, f2}
  Document = {f1}
  Content = {c1, c2}
  Session = {s1}
  Process = {p1, p2}
  Task = {t1}
  None = None
  MaxFaults = 1
INVARIANTS BytesMatchDigest ClaimedKeepsBytes
PROPERTIES ReadsAuthorized RetiredIsErased
CHECK_DEADLOCK FALSE

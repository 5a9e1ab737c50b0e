SPECIFICATION FairSpec
CONSTANTS
  MaxEpoch = 2
  MaxSeq = 2
CHECK_DEADLOCK FALSE
PROPERTIES
  ImplementsFollowedRun
  EndIsSeen

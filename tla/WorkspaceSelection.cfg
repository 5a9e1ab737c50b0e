\* Two sessions of one user; either may have a run that is still active.
CONSTANTS
  Session = {s1, s2}
  None = None
SPECIFICATION FairSpec
PROPERTY SelectionSettles

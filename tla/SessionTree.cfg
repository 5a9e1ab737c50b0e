SPECIFICATION Spec
CONSTANTS
  Caller = {c1}
  Key = {k1, k2}
  MaxMessages = 6
SYMMETRY KeySymmetry
INVARIANTS BranchInOrder ContextIsBranch
PROPERTY RetryAnswered
CHECK_DEADLOCK FALSE

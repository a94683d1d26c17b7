SPECIFICATION FairSpec
CONSTANTS
  Submission = {1, 2}
  MaxChanges = 3
INVARIANT ReadyIsHeard
PROPERTY StatusSettles
CHECK_DEADLOCK FALSE

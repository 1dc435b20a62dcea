SPECIFICATION Spec
CONSTANTS
  Seated = 3
  N = 4
  Observers <- TheObserver
  MaxLeaves = 2
CHECK_DEADLOCK FALSE
INVARIANT FindingPromoted

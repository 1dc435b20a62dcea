SPECIFICATION FairSpec
CONSTANTS
  Seated = 3
  N = 4
  Observers <- TheObserver
  MaxLeaves = 2
CHECK_DEADLOCK FALSE
INVARIANTS TypeOK OneHost PairwiseHaveKey OnlyEarlyIsForgotten
PROPERTIES HostReplaced JoinServed

SPECIFICATION FairSpec
CONSTANTS
  h = h
  a = a
  b = b
  c = c
  Host = h
  PrevKeyRing = 1
  Members <- TwoMembers
  MaxSends = 1
  MaxOutages = 1
CHECK_DEADLOCK FALSE
INVARIANTS FramesOpen LeaverGetsNoNewKey
PROPERTY JoinEnds

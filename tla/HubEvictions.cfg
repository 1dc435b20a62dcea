SPECIFICATION Spec
CONSTANTS
  host0 = host0
  a = a
  b = b
  Conns <- ConnsThree
  Creator = host0
  MaxParticipants = 3
  SendBuffer = 2
  InboxCap = 1
  Grace = FALSE
  MaxID = 3
  MaxTraffic = 1
CHECK_DEADLOCK FALSE
SYMMETRY Symmetry
INVARIANTS EvictionsPending MembershipViewExact OverMeansKicked

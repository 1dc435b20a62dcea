SPECIFICATION FairSpec
CONSTANTS
  host0 = host0
  a = a
  b = b
  Conns <- ConnsThree
  Creator = host0
  MaxParticipants = 2
  SendBuffer = 2
  InboxCap = 2
  Grace = TRUE
  MaxID = 3
  MaxTraffic = 0
CHECK_DEADLOCK FALSE
PROPERTIES FindingHelloAnswered

SPECIFICATION FairSpec
CONSTANTS
  OutCap = 2
  PingInterval = 2
  ReadTimeout = 5
  IdleTimeout = 4
  MaxDelay = 1
  MaxData = 2
CHECK_DEADLOCK FALSE
INVARIANTS HealthyStays FlushedOnKick
PROPERTIES ClosedDelivered OverEnds

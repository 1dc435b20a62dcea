SPECIFICATION FairSpec
CONSTANTS
  s1 = s1
  s2 = s2
  h1 = h1
  h2 = h2
  NoHub = NoHub
  Sids <- TwoSids
  Hubs <- TwoHubs
  MaxSessions = 2
  InboxCap = 1
CHECK_DEADLOCK FALSE
PROPERTIES AgedEnd WaitersReturn
INVARIANTS HubIsRegistered

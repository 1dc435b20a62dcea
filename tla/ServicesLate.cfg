SPECIFICATION Spec
CONSTANTS
  host1 = host1
  member = member
  late = late
  Seated <- TwoSeated
  Joiners <- OneJoiner
  Host = host1
  MaxActs = 2
  MaxCap = 2
CHECK_DEADLOCK FALSE
INVARIANTS TypeOK ShownOnce CaughtUp AttrsAgree ChatGapIsCrossing

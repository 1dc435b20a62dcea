SPECIFICATION FairSpec
CONSTANTS
  say1 = say1
  say2 = say2
  run1 = run1
  run2 = run2
  run3 = run3
  Callers <- TwoCallers
  Runs <- ThreeRuns
  First = run1
  Cap = 2
PROPERTY StreamCloses
INVARIANTS SafeClose OneRouter

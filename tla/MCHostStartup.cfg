SPECIFICATION FairSpec
CONSTANTS
  p1 = p1
  p2 = p2
  p3 = p3
  Procs = {p1, p2, p3}
  None = None
  Platforms = {TRUE, FALSE}
  Crashes = 2
  Leaves = TRUE
  Orderly = TRUE
  Retry = 1
  Stale = 2
INVARIANTS
  OneOwner
  ServingIsReachable
PROPERTIES
  Recovers
CHECK_DEADLOCK FALSE

SPECIFICATION Spec
CONSTANTS
  n1 = n1
  r1 = r1
  r2 = r2
  Nodes = {n1}
  Specs <- TwoSpecs
  RunIds = {r1, r2}
  None = None
  Minute = 2
  Period = 2
  MaxNow = 5
  MaxWrites = 2
PROPERTY SkippedOnlyWhileRunning
CHECK_DEADLOCK FALSE

SPECIFICATION Spec
CONSTANTS
  n1 = n1
  r1 = r1
  r2 = r2
  Nodes = {n1}
  Specs <- TwoSpecs
  RunIds = {r1, r2}
  None = None
  Minute = 2
  Period = 1
  MaxNow = 5
  MaxWrites = 2
SYMMETRY Runs
INVARIANTS
  TypeOK
  OneRunAtATime
  ArmedIsScheduled
PROPERTY FiresWithConsent
CHECK_DEADLOCK FALSE

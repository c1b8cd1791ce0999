CONSTANTS
  n1 = n1
  s1 = s1
  s2 = s2
  i1 = i1
  i2 = i2
  None = None
  Shutdown = Shutdown
  Names = {n1}
  Sockets = {s1, s2}
  Ids = {i1}
  MaxGen = 1
  Kinds = {"attach", "existing"}
  Windows = TRUE
  MayShutDown = FALSE
SPECIFICATION FairSpec
PROPERTY RequestAnswered
CHECK_DEADLOCK FALSE

SPECIFICATION Spec
CONSTANTS
  n1 = n1
  s1 = s1
  s2 = s2
  i1 = i1
  i2 = i2
  None = None
  Shutdown = Shutdown
  Names = {n1}
  Sockets = {s1, s2}
  Ids = {i1}
  MaxGen = 2
  Kinds = {"attach"}
  Windows = FALSE
  MayShutDown = TRUE
SYMMETRY Symmetry
INVARIANTS
  OneGeneration
  AckedIsGone
  KillsTheObserved
  IdleHostIsTimed
PROPERTIES
  NoLateExit
CHECK_DEADLOCK FALSE

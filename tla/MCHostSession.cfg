SPECIFICATION Spec
CONSTANTS
  s1 = s1
  s2 = s2
  Sockets = {s1, s2}
  Geometries <- Crossed
  None = None
  High = 2
  Low = 0
  MaxEpoch = 2
  MaxChunks = 2
  MaxTail = 2
SYMMETRY Symmetry
INVARIANTS
  PauseIsOwed
  NoGhostViewer
  ViewersFit
  NoGapNoRepeat
  WaitsForQueuedWork
PROPERTIES
  NoOutputBeforePause
CHECK_DEADLOCK FALSE

SPECIFICATION Spec
CONSTANTS
  a = a
  b = b
  Clients = {a, b}
  Keys = {k}
  Values = {v, w}
  Absent = Absent
  Background = {}
  EventKeys = {}
  RemovedMax = 2
  MaxCasts <- PairCasts
  UndoBeforeAck = FALSE
INVARIANTS
  TypeOK
  Convergence
  PendingIsUnacked
  OptimisticValueShown
PROPERTY NoResurrection
SYMMETRY Symmetry
CHECK_DEADLOCK FALSE

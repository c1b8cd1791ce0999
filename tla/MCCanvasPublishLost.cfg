SPECIFICATION PubSpec
CONSTANTS
  a = a
  b = b
  Clients = {a, b}
  Keys = {k, l}
  Values = {v, w}
  Oversized = {}
  Absent = Absent
  NoFrame = NoFrame
  Background = {}
  EventKeys = {}
  RemovedMax = 2
  MaxCasts <- DragCasts
  UndoBeforeAck = FALSE
  Drags = TRUE
  DragsApart = FALSE
INVARIANT PublishConvergence
CHECK_DEADLOCK FALSE

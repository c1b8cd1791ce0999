SPECIFICATION PubFairSpec
CONSTANTS
  a = a
  b = b
  Clients = {a, b}
  Keys = {k, l}
  Values = {v, big}
  Oversized = {big}
  Absent = Absent
  NoFrame = NoFrame
  Background = {}
  EventKeys = {}
  RemovedMax = 1
  MaxCasts <- DragCasts
  UndoBeforeAck = FALSE
  Drags = TRUE
  DragsApart = TRUE
INVARIANTS
  PublishConvergence
  UnpublishedIsOwed
  VerdictAgreement
PROPERTIES
  FrameGoesOut
CHECK_DEADLOCK FALSE

SPECIFICATION FairSpec
CONSTANTS
  p1 = p1
  p2 = p2
  c1 = c1
  c2 = c2
  c3 = c3
  x = x
  y = y
  Processes = {p1, p2}
  Callers = {c1, c2, c3}
  Home <- Homes
  Requests <- Asked
  Entries = {x, y}
  Absent = Absent
  Corrupt = Corrupt
  NoProcess = NoProcess
INVARIANTS
  Exclusive
  LockIsUsed
PROPERTIES
  ImplementsDocument
  CallAnswered

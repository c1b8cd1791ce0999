SPECIFICATION FairSpec
CONSTANTS
  i1 = i1
  i2 = i2
  i3 = i3
  x = x
  y = y
  c1 = c1
  c2 = c2
  Ids = {i1, i2, i3}
  Inputs = {x, y}
  Followed = {y}
  Callers = {c1, c2}
  Nothing = Nothing
  MaxLedger = 2
  Attempts = 2
  MaxAsks <- Asks
INVARIANTS
  TypeOK
  LaunchedAtMostOnce
  RunsItsOwnLine
  AnswersAgree
PROPERTY LaunchAnswered
CHECK_DEADLOCK FALSE

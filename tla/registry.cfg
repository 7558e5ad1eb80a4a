SPECIFICATION FairSpec
CONSTANTS
  r1 = r1
  r2 = r2
  f1 = f1
  RowIds = {r1, r2}
  Fields = {f1}
  MaxCounter = 2
  Limits <- Stories
INVARIANTS
  CursorHonest
  NothingLost
  OrderKept
PROPERTIES
  ViewKept
  Pushed
  Converges
CHECK_DEADLOCK FALSE

SPECIFICATION Spec
CONSTANTS
  r1 = r1
  r2 = r2
  f1 = f1
  RowIds = {r1, r2}
  Fields = {f1}
  MaxCounter = 2
  Limits <- Overtaken
INVARIANTS
  CursorApplied
CHECK_DEADLOCK FALSE

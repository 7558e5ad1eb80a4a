SPECIFICATION Spec
CONSTANTS
  MaxOwn = 1
  Remote = {r1}
  Poison = {}
  Oversize = {}
  HttpOn = FALSE
  Seeded = FALSE
  Kinds <- ChainedAndOrphan
  MaxRepairs = 1
  MaxRefresh = 0
  MaxHints = 0
  MaxDrops = 0
  MaxCrashes = 1
  MaxDisk = 0
  MaxQuota = 1
  MaxCkpts = 1
  MaxFlushes = 1
  MaxWipes = 1
  Base = Base
  Hidden = Hidden
INVARIANTS
  SavedHonest
  CursorNotAhead
PROPERTIES
  ResetIsReal
CHECK_DEADLOCK FALSE

SPECIFICATION Spec
CONSTANTS
  MaxOwn = 0
  Remote = {r1, r2}
  Poison = {}
  Oversize = {}
  HttpOn = TRUE
  Seeded = TRUE
  Kinds <- FreeAndChained
  MaxRepairs = 1
  MaxRefresh = 1
  MaxHints = 1
  MaxDrops = 0
  MaxCrashes = 0
  MaxDisk = 0
  MaxQuota = 0
  MaxCkpts = 0
  MaxFlushes = 0
  MaxWipes = 0
  Base = Base
  Hidden = Hidden
INVARIANTS
  TypeInv
  CursorHonest
  RefreshFresh
CHECK_DEADLOCK FALSE

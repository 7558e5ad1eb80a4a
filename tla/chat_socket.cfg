SPECIFICATION FairSpec
CONSTANTS
  MaxOwn = 0
  Remote = {r1, r2}
  Poison = {}
  Oversize = {}
  HttpOn = FALSE
  Seeded = TRUE
  Kinds <- FreeAndChained
  MaxRepairs = 1
  MaxRefresh = 2
  MaxHints = 0
  MaxDrops = 1
  MaxCrashes = 0
  MaxDisk = 0
  MaxQuota = 0
  MaxCkpts = 0
  MaxFlushes = 0
  MaxWipes = 0
  Base = Base
  Hidden = Hidden
INVARIANTS
  GapRemembered
PROPERTIES
  Converges
  RefreshCompletes
CHECK_DEADLOCK FALSE

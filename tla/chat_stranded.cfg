SPECIFICATION Spec
CONSTANTS
  MaxOwn = 1
  Remote = {}
  Poison = {}
  Oversize = {}
  HttpOn = FALSE
  Seeded = FALSE
  Kinds <- Chained
  MaxRepairs = 1
  MaxRefresh = 0
  MaxHints = 0
  MaxDrops = 0
  MaxCrashes = 1
  MaxDisk = 1
  MaxQuota = 0
  MaxCkpts = 0
  MaxFlushes = 1
  MaxWipes = 0
  Base = Base
  Hidden = Hidden
INVARIANTS
  NoEditStranded
CHECK_DEADLOCK FALSE

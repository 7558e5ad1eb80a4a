SPECIFICATION Spec
CONSTANTS
  MaxOwn = 3
  Remote = {}
  Poison = {1}
  Oversize = {2}
  HttpOn = TRUE
  Seeded = FALSE
  Kinds <- Chained
  MaxRepairs = 1
  MaxRefresh = 0
  MaxHints = 0
  MaxDrops = 1
  MaxCrashes = 1
  MaxDisk = 1
  MaxQuota = 0
  MaxCkpts = 0
  MaxFlushes = 0
  MaxWipes = 0
  Base = Base
  Hidden = Hidden
PROPERTIES
  OutboxKept
CHECK_DEADLOCK FALSE

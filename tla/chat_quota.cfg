SPECIFICATION FairSpec
CONSTANTS
  MaxOwn = 1
  Remote = {}
  Poison = {}
  Oversize = {}
  HttpOn = FALSE
  Seeded = FALSE
  Kinds <- Chained
  MaxRepairs = 1
  MaxRefresh = 0
  MaxHints = 0
  MaxDrops = 1
  MaxCrashes = 0
  MaxDisk = 0
  MaxQuota = 1
  MaxCkpts = 0
  MaxFlushes = 0
  MaxWipes = 0
  Base = Base
  Hidden = Hidden
PROPERTIES
  Delivered
CHECK_DEADLOCK FALSE

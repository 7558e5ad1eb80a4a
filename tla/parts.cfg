SPECIFICATION Spec
CONSTANTS
  NDocs = 2
  Workers = {1, 2}
  MaxVersions = 4
  PageSize = 1
  Dialers = {1, 2}
  Slots = 2
  MaxFlips = 3
  m1 = "m1"
  m2 = "m2"
  Messages = {"m1", "m2"}
  Tasks = {1, 2}
  TurnStories <- MCStories
  Sends = {"p"}
  Viewers = {"f", "u"}
  Frame = "f"
  MaxEdits = 2
  MaxTurns = 3
  Cells = {"q", "a", "c"}
  RootOf <- MCRootOf
  NoRoot = "none"
  Own = "q"
  MaxParts = 2
  Scripts <- MCScripts
  Calls <- MCCalls
  Spawns <- MCSpawns
  MaxEvents = 3
  MaxLate = 2
  People = {"x", "y"}
  Logins = {1, 2, 3}
  Cores = {1, 2}
  Callers = {"k", "j"}
  Starts <- MCStarts
  MaxAges = 1
  MaxChanges = 2
  MaxMishaps = 1
  Keys = {"new", "s", "n"}
  Created = "n"
  MaxTexts = 2
  MaxLeaves = 1
  MaxFailures = 1
INVARIANTS WakeKept ReconcileCovers WaitHonest DeliveredOnce ViewSettles
           ScreenHonest ReaderSeesFold ExpiryHonest RecordsHonest
           DraftsKept
PROPERTIES GateHolds Settled EchoKept
CHECK_DEADLOCK FALSE

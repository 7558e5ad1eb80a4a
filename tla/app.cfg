SPECIFICATION Spec
CONSTANTS
  SDevices = {1, 2}
  Wall <- MCWall
  Chats = {1, 2, 3}
  Section = "s"
  KeyBase = 4
  MaxPins = 2
  Stories <- MCSorts
  MaxIntents = 2
  SessionIds = {1, 2}
  RoomIds = {1, 2, 3}
  MaxSends = 2
  MaxPeerRows = 1
  Lives <- MCLives
  Paragraphs <- MCParagraphs
  LineWidths = {3, 8}
  MaxLines = 4
INVARIANTS LastWordKept ReopenKeepsEdits TextSet
PROPERTIES IntentHonoured PrunedHonest
CHECK_DEADLOCK FALSE

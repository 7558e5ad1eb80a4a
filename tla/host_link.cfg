CONSTANTS
  a = "a"
  b = "b"
  c = "c"
  g1 = "g1"
  g2 = "g2"
  Calls <- MCCalls
  Watch = "w"
  Links <- MCLinks
  Stories <- MCStories
SPECIFICATION FairSpec
INVARIANTS RevokedClean AnswerIsMine CommitComplete
PROPERTIES CallsEnd WatchServed
CHECK_DEADLOCK FALSE

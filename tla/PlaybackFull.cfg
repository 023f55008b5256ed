SPECIFICATION FairSpec
CONSTANTS
  Queue <- TwoSongs
  Wild = "wild"
  MaxTokens = 2
  Modes = {"single", "list"}
  MaxSessions = 2
  MaxDisturbances = 2
INVARIANTS
  StoredIsLive
  HeardOnce
  RestartIsSilent
PROPERTIES
  PausesEnd
  FinishIsRecorded
CHECK_DEADLOCK FALSE

SPECIFICATION FairSpec
CONSTANTS
  MaxRun = 1
  Bodies = {"kind", "curious"}
  Refused = {"curious"}
  MaxDisturbances = 2
INVARIANTS
  SavedOnce
  CompletedOwesNothing
  RejectedStaysOut
PROPERTIES
  SavesAsPlanned
  WorldRunEnds
CHECK_DEADLOCK FALSE

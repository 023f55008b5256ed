SPECIFICATION FairSpec
CONSTANTS
  MaxRuns = 4
  TornWrites = TRUE
INVARIANTS
  NoGhostPlanner
  PlansAlone
  NotesUsedOnce
  ReplySilences
PROPERTIES
  RunsGoOn

SPECIFICATION Spec
CONSTANTS
  MaxActs = 3
  MaxNodes = 2
  PlanLen = 2
  Goals <- CountOnly
  HorizonModes <- DeadlineOnly
  MaxOpenNodes = 2
  TornWrites = TRUE
INVARIANTS
  OneAtATime
  InterruptWins
  OneShare
PROPERTIES
  NoReplay
  ImplementsLifecycle

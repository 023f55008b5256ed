SPECIFICATION Spec
CONSTANTS
  MaxActs = 2
  MaxNodes = 2
  PlanLen = 2
  Goals <- CountOnly
  HorizonModes <- DeadlineOnly
  MaxOpenNodes = 2
  TornWrites = TRUE
INVARIANTS
  Recoverable

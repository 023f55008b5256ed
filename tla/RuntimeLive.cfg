SPECIFICATION FairSpec
CONSTANTS
  MaxActs = 2
  MaxNodes = 1
  PlanLen = 2
  Goals <- OneOfEach
  HorizonModes <- BothModes
  MaxOpenNodes = 1
  TornWrites = FALSE
INVARIANTS
  FailureClosesPlan
PROPERTIES
  DeadlineEnds

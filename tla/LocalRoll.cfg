SPECIFICATION FairSpec
CONSTANTS
  MaxDay = 3
  MaxRequests = 1
  MaxActs = 1
  MaxSentinels = 0
  MayRestart = FALSE
  TornWrites = FALSE
PROPERTIES
  DaysRollOver

SPECIFICATION FairSpec
CONSTANTS
  MaxDay = 2
  MaxRequests = 2
  MaxActs = 1
  MaxSentinels = 1
  MayRestart = TRUE
  TornWrites = TRUE
INVARIANTS
  ExchangesWhole
  SentinelFresh
  EvidenceComplete
PROPERTIES
  ClosedDaysFrozen
  LockReleased

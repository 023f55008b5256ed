SPECIFICATION FairSpec
CONSTANTS
  MaxDay = 3
  MaxEvent = 4
  DayOf <- MCDayOf
  Related <- MCRelated
  MaxDisturbances = 3
INVARIANTS
  AsksOnce
  CompletedIsStored
  ThreadsReceipted
PROPERTIES
  ChangedIsRefused
  JobsSettle

SPECIFICATION FairSpec
CONSTANTS
  MaxMessage = 3
  DayOf <- MCDayOf
  SessionOf <- MCSessionOf
  Twins <- MCTwins
  Changeable = {1, 2, 3}
  MaxDays = 2
  MaxChanges = 2
  MaxFaults = 1
INVARIANTS TrueUnlessMissed ThreadsFollow
PROPERTIES RepairedWhole DaysSettle
CHECK_DEADLOCK FALSE

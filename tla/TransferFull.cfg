SPECIFICATION FairSpec
CONSTANTS
  Calls = {1, 2}
  Names = {1, 2, 3, 4, 5, 6}
  MaxDisturbances = 4
INVARIANTS
  OneHome
  NothingLost
PROPERTIES
  ImplementsHandover
  Arrives

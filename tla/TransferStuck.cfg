SPECIFICATION FairSpec
CONSTANTS
  Calls = {1}
  Names = {1, 2, 3}
  MaxDisturbances = 2
PROPERTY FrozenEnds

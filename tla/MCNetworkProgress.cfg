SPECIFICATION FairSpec
CONSTANTS
  Ids = {"d1", "d2"}
  Configs <- OneSlot
  Stored <- TwoMixed
  MaxGen = 3
  MaxRestarts = 0
  Events = {"network", "schedule"}
PROPERTY WorkEnds
CHECK_DEADLOCK FALSE

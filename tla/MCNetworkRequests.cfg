SPECIFICATION OfflineSpec
CONSTANTS
  Ids = {"d1"}
  Configs <- OneSlot
  Stored <- OneOfAny
  MaxGen = 3
  MaxRestarts = 0
  Events = {"network", "resume", "force", "pause", "restoreFails", "stopAndWait"}
INVARIANT NothingForgotten
INVARIANT EnginesBelongToClient
CHECK_DEADLOCK FALSE

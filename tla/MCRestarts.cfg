SPECIFICATION Spec
CONSTANTS
  Ids = {"d1", "d2"}
  Configs <- OneSlot
  Stored <- OneOrTwo
  MaxGen = 2
  MaxRestarts = 1
  Events = {"addTask", "discard", "move", "crash", "close", "games", "persistFails", "noMetainfo", "writeError"}
INVARIANT TypeOK
INVARIANT HeldMovesNoData
INVARIANT ListIsDurable
CHECK_DEADLOCK FALSE

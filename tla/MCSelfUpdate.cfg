SPECIFICATION FairSpec
CONSTANTS
  Latest = 3
  Files = {"a", "b"}
  Schema <- MCSchema
  Modes = {"installed", "portable"}
  MaxAttempts = 2
  MaxWrites = 1
  MaxCrashes = 1
  Events = {"saveFails", "startFails"}
INVARIANTS Consistent DataIsLatest
PROPERTIES KeepsRollback OperationsEnd

SPECIFICATION FairSpec
CONSTANTS
  Ids = {"i1", "i2"}
  Kinds <- MCKinds
  MaxCrashes = 1
  Events = {"persistFails"}
INVARIANTS Consistent FilesAreKept
PROPERTIES InstallEnds
CHECK_DEADLOCK FALSE

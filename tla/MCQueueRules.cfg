SPECIFICATION OfflineSpec
CONSTANTS
  d1 = d1
  d2 = d2
  Ids = {d1, d2}
  Configs <- Settings
  Stored <- NewList
  MaxGen = 1
  MaxRestarts = 0
  Events = {"add", "pause", "resume", "force", "schedule", "now", "move", "discard", "games", "stopSeeding", "verifyFails"}
SYMMETRY IdSymmetry
INVARIANT GatesFollowRules
INVARIANT NoIdleSlot
PROPERTY StartsFollowQueue
PROPERTY StatusIsKept
CHECK_DEADLOCK FALSE

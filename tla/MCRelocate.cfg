SPECIFICATION FairSpec
CONSTANTS
  Places <- MCRoots
  Roots <- MCRoots
  Home = "old"
  JobIds = {1}
  MaxPlays = 1
  MaxRecoveryAttempts = 2
  Events = {"cancel", "library", "sweep"}
INVARIANTS Consistent NothingLost
PROPERTIES StepsAreSafe MovesEnd

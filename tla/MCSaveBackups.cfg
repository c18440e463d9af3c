SPECIFICATION FairSpec
CONSTANTS
  Limit = 1
  MaxPlays = 2
  MaxAsked = 1
  MaxFaults = 1
  MaxCrashes = 1
  Events = {"rotten"}
INVARIANTS Consistent RunsOnItsSaves
PROPERTIES Settles AtomicSavesSpec

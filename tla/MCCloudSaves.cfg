SPECIFICATION FairSpec
CONSTANTS
  Devices = {"d1", "d2"}
  Accounts = {"x", "y"}
  MaxPlays = 2
  MaxAsked = 2
  MaxSwitches = 1
  MaxFaults = 1
  Events = {}
INVARIANTS Consistent
PROPERTIES NeverSilently Converges

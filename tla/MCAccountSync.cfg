SPECIFICATION FairSpec
CONSTANTS
  Devices = {"d1", "d2"}
  Owners = {{"d1"}}
  Bounds <- Few
  MaxAsked = 3
  Events = {}
INVARIANTS Consistent
PROPERTIES RestoredOnPurpose Converges

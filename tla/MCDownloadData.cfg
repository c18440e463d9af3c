SPECIFICATION FairSpec
CONSTANTS
  Ids = {1, 2}
  Dests = {"a"}
  Calls = {1}
  Events = {"persistFails", "crash"}
INVARIANTS Consistent Tracked
PROPERTIES LeftoverIsNobodys ReservationsEnd
CHECK_DEADLOCK FALSE

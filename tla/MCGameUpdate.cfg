SPECIFICATION FairSpec
CONSTANTS
  MaxVersion = 3
  Races = {}
INVARIANTS Consistent Recoverable
PROPERTIES StepsAreSafe JobsEnd AtomicSpec

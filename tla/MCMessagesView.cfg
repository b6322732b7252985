SPECIFICATION Spec
CONSTANTS
  LastTime = 3
  PerSecond = 2
  PageSize = 2
  None = None
  MaxStored = 4
  MaxLater = 2
  MaxPosts = 2
  MaxFaults = 1
INVARIANTS NoDuplicates NoHoles
PROPERTIES LoadingEnds
CHECK_DEADLOCK FALSE

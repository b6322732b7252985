SPECIFICATION Spec
CONSTANTS
  Contacts = {c1}
  Conns = {k1, k2}
  None = None
  LastSeen = {}
  Buffer = 1
  MaxRows = 2
  MaxClock = 2
  MaxOpens = 2
  MaxFaults = 1
INVARIANTS ShownStays HeaderIsSidebar NoSendOnClosed
PROPERTIES PageCatchesUp
CHECK_DEADLOCK FALSE

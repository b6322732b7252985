CONSTANTS
  Contacts = {c1}
  Timers = {t1, t2}
  Callbacks = {g1, g2}
  LastSeen = {}
  None = None
  Timeout = 1
  MaxEvents = 3
  MaxClock = 2
  MaxFaults = 1
  MaxDeletes = 1
SPECIFICATION Spec
INVARIANTS TypeOK InferredCovered MapEntryLive DashboardAgrees
SYMMETRY Symmetry
CHECK_DEADLOCK FALSE

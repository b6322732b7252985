CONSTANTS
  Contacts = {c1}
  Timers = {t1, t2}
  Callbacks = {g1, g2}
  LastSeen = {ls1}
  None = None
  Timeout = 1
  MaxEvents = 3
  MaxClock = 2
  MaxFaults = 0
  MaxDeletes = 1
SPECIFICATION FairSpec
PROPERTIES ImplementsSessionLog InferredOnlineExpires
CHECK_DEADLOCK FALSE

SPECIFICATION Spec
CONSTANTS
  Tabs = {t1}
  None = None
  Life = 2
  Margin = 1
  MaxClock = 3
  MaxVisits = 1
  MaxSubmits = 2
  MaxBackups = 1
  MaxFaults = 1
INVARIANTS SignedOutStays
PROPERTIES NoReloadLoop ValidTokenKept SocketFollowsLogin
CHECK_DEADLOCK FALSE

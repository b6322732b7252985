CONSTANTS
  Clients = {c1, c2}
  Nobody = Nobody
  MaxId = 2
  MaxFailures = 0
  MaxDrops = 0
  MaxAccountDeletes = 0
  MaxRestarts = 0
SPECIFICATION PairFairSpec
PROPERTIES PairedAreTracked
CHECK_DEADLOCK FALSE

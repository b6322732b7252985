CONSTANTS
  Clients = {c1, c2}
  Nobody = Nobody
  MaxId = 2
  MaxFailures = 1
  MaxDrops = 1
  MaxAccountDeletes = 1
  MaxRestarts = 1
SPECIFICATION PairFairSpec
INVARIANTS ClientsAreTheirs
PROPERTIES SlotComesBack StartedAreTracked
CHECK_DEADLOCK FALSE

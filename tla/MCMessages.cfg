CONSTANTS
  c1 = c1
  c2 = c2
  Contacts = {c1, c2}
  Sender <- FourMessages
  Legacy = {1, 2, 3}
  Receivers = {r1, r2}
  Runs = {b1, b2}
  ChunkSize = 2
  MaxDeliveries = 2
  MaxFaults = 1
  MaxCrashes = 1
  MaxDeletes = 1
  None = None
SPECIFICATION Spec
INVARIANTS TypeOK NotUndercounted NotOvercounted DoneLeavesNothing
SYMMETRY Symmetry
CHECK_DEADLOCK FALSE

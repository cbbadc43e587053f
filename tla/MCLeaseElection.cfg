SPECIFICATION Spec
CONSTANTS
  Holder = {a, b}
  Nobody = nobody
  Slot = {s1, s2}
  NoSlot = noslot
  MaxToken = 2
  MaxRetries = 0
  Unlimited = TRUE
  MaxAttempts = 2
  Faults = TRUE
SYMMETRY Symmetry
CONSTRAINT Bounded
INVARIANTS
  TypeOK
  StoredLeaseIsLatest
  FencingSafe
PROPERTY ImplementsFencedLock
CHECK_DEADLOCK FALSE

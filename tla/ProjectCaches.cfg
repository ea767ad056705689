SPECIFICATION CachesSpec
CONSTANTS
  t1 = t1
  t2 = t2
  r1 = r1
  r2 = r2
  r3 = r3
  a = a
  b = b
  None = None
  Threads <- TwoThreads
  Reservations <- ThreeReservations
  Classes <- TwoClasses
  Sizes <- SmallAndLarge
  Limit = 3
  MaxUsize = 3
  MaxOwners = 6
  CacheEntries = 2
  CacheBytes = 2
SYMMETRY Symmetry
CHECK_DEADLOCK FALSE
INVARIANTS Charged WithinLimit CacheBounded BuildersTakeTurns

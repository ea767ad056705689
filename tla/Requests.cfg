CONSTANTS
  Nobody = Nobody
  Poisoned = Poisoned
  c1 = c1
  c2 = c2
  Connections <- TwoConnections
  Capacities = {1, 2}
  MaxWatches = 2
SPECIFICATION ServerFairSpec
CHECK_DEADLOCK FALSE
INVARIANTS SlotsAccounted NoneEscapesStop
PROPERTIES AbandonedEnds ImplementsExchange

SPECIFICATION Spec
CONSTANTS
  c1 = c1
  c2 = c2
  Carts = {c1, c2}
  MaxAttempts <- MCAttempts
  MaxQueue <- MCQueue
  MaxFaults = 1
INVARIANTS TypeOK OneOrderPerKey OneOrderPerCart ClearedCartsAreOrders RetriesAreNotPoisoned
PROPERTY PlacesOrders
CHECK_DEADLOCK FALSE

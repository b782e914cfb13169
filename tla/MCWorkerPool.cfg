SPECIFICATION FairManagedSpec
CONSTANTS
  PoolSize = 2
  Clients = {c1, c2, c3}
  None = None
  MaxInits = 2
INVARIANTS ReadyIsFree BlockedIsIdle ReinitKeepsWork StaleNeverAdmits
PROPERTIES WorkGetsDone Refinement
CHECK_DEADLOCK FALSE

\* A key bound from the cache while the upstream is offline.
SPECIFICATION Spec
CONSTANTS
  Keys = {k1}
  Conns = {c1}
  FirstConn = c1
  Flights = {f1}
  None = None
  MaxVersion = 1
  MaxFaults = 1
  MaxRotations = 0
  MaxRestarts = 0
INVARIANTS
  OfflineRowsAreMarked

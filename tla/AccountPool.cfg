\* One account, two connections, two settings requests.
SPECIFICATION FairSpec
CONSTANTS
  Accounts = {a1}
  Conns = {c1, c2}
  FirstConn = c1
  MaxFlights = 2
  MaxPuts = 2
  None = None
  MaxChanges = 1
  MaxFaults = 1
  MaxRotations = 1
INVARIANTS
  TypeOK
  OneConnection
  StatusIsBacked
PROPERTIES
  InventoryConverges
  UsageConverges

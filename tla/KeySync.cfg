\* One key, two connections, two flights that may overlap.
SPECIFICATION Spec
CONSTANTS
  Keys = {k1}
  Conns = {c1, c2}
  FirstConn = c1
  Flights = {f1, f2}
  None = None
  MaxVersion = 1
  MaxFaults = 1
  MaxRotations = 1
  MaxRestarts = 1
SYMMETRY Symmetry
INVARIANTS
  TypeOK
  NeverOlderThanConfirmed
  OneConnection
  ConfirmationsAreSaved
  ReconciliationRepairs
PROPERTIES
  ShowsWhatItPromises

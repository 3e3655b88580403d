\* Convergence under fairness: one change, one failure, one restart.
SPECIFICATION FairSpec
CONSTANTS
  Keys = {k1}
  Conns = {c1}
  FirstConn = c1
  Flights = {f1, f2}
  None = None
  MaxVersion = 1
  MaxFaults = 1
  MaxRotations = 0
  MaxRestarts = 1
PROPERTIES
  Converges

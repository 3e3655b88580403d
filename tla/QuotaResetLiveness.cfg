\* Completion under fairness: one store failure, one crash, no lost create.
SPECIFICATION FairSpec
CONSTANTS
  Users = {u1, u2}
  Keys = {k1}
  Jobs = {j1}
  Workers = {w1, w2}
  Handlers = {h1}
  None = None
  MayLoseCreate = FALSE
  MaxFaults = 1
  MaxUpdates = 0
  MaxOutages = 1
PROPERTIES
  JobsComplete
  MaintenanceIsReleased

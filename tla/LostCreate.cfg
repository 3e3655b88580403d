\* A create request whose client goes away between the commit and the read-back.
SPECIFICATION FairSpec
CONSTANTS
  Users = {u1}
  Keys = {k1}
  Jobs = {j1}
  Workers = {w1}
  Handlers = {}
  None = None
  MayLoseCreate = TRUE
  MaxFaults = 0
  MaxUpdates = 0
  MaxOutages = 0
PROPERTIES
  JobsComplete

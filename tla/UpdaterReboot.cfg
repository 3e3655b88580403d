\* A reboot between putting back the database and the old portal.
SPECIFICATION Spec
CONSTANTS
  Ops = {o1}
  MaxVersion = 2
  None = None
  Burst = 3
  MaxWrites = 0
  MaxFaults = 1
  MaxKills = 0
  MaxOutages = 1
CHECK_DEADLOCK FALSE
INVARIANTS
  RolledBackMeansRestored

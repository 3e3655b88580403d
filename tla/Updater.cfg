\* Two operations over three versions, two failed steps, a kill, and a reboot or
\* a stop by an operator.
SPECIFICATION FairSpec
CONSTANTS
  Ops = {o1, o2}
  MaxVersion = 3
  None = None
  Burst = 3
  MaxWrites = 1
  MaxFaults = 2
  MaxKills = 1
  MaxOutages = 1
CHECK_DEADLOCK FALSE
INVARIANTS
  TypeOK
  OneVersion
  QuiescentCopy
  BackupHoldsOldRows
  StatusIsTrue
  NoDowngrade
PROPERTIES
  SwitchesAtomically
  EveryRequestIsAnswered
  ComesToRest

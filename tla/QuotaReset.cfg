\* Two users, two keys, one batch, two workers and two handlers.
SPECIFICATION Spec
CONSTANTS
  Users = {u1, u2}
  Keys = {k1, k2}
  Jobs = {j1}
  Workers = {w1, w2}
  Handlers = {h1, h2}
  None = None
  MayLoseCreate = TRUE
  MaxFaults = 1
  MaxUpdates = 1
  MaxOutages = 1
SYMMETRY Symmetry
INVARIANTS
  TypeOK
  OneRequestPerItem
  ReportsAreBacked
  BoundDuringCall
  OneCallPerKey
  NoItemMeetsABusyKey
  UpdateFindsPortalQuiet
  CountersMatchItems
PROPERTIES
  HistoryIsAppendOnly
  KeepsThePromise

\* One item whose request is answered by an error Sub2API sends after applying it.
SPECIFICATION Spec
CONSTANTS
  Users = {u1}
  Keys = {k1}
  Jobs = {j1}
  Workers = {w1}
  Handlers = {}
  None = None
  MayLoseCreate = FALSE
  MaxFaults = 0
  MaxUpdates = 0
  MaxOutages = 0
INVARIANTS
  FailedMeansNotApplied

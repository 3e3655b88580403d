\* Three requests and two flights.
SPECIFICATION Spec
CONSTANTS
  Requests = {r1, r2, r3}
  Flights = {f1, f2}
  None = None
SYMMETRY Symmetry
INVARIANTS
  TypeOK
  NoCircularWait

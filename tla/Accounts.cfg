\* Two accounts, two sessions, two requests at a time.
SPECIFICATION Spec
CONSTANTS
  Users = {u1, u2}
  MaxSessions = 2
  SetupTokens = {s1, s2}
  None = None
  IdleTTL = 2
  AbsoluteTTL = 3
  SetupTTL = 1
  MaxEras = 1
  Clients = {c1, c2}
  Guessed = {u2}
  Limit = 2
  Window = 2
SYMMETRY Symmetry
INVARIANTS
  TypeOK
  SetupIsWhole
  RevocationEndsSessions
  ThrottleHolds
  SessionsAreBounded

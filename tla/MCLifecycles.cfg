SPECIFICATION LifecyclesSpec
CONSTANTS
  u1 = u1
  u2 = u2
  u3 = u3
  c1 = c1
  c2 = c2
  c3 = c3
  Users <- ThreeUsers
  Clients <- ThreeClients
INVARIANTS
  ReadinessIsTrue
  UsersComeFirst
  EverythingIsClosed
PROPERTY LivesEnd
CHECK_DEADLOCK FALSE

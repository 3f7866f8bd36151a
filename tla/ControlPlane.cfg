SPECIFICATION Spec
CONSTANTS
  Managers = {m1, m2}
  Sockets = {s1, s2, s3, s4}
  None = none
  MaxDrops = 2
  Calls = {c1, c2}
INVARIANTS
  TypeOK
  OneConnection
  PlaneStatusTrue
  TransportStatusTrue
  OneLoopEach
PROPERTIES
  Reconnects
CHECK_DEADLOCK FALSE

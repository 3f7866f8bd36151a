SPECIFICATION Spec
CONSTANTS
  p = p
  m = m
  s = s
  key = key
  None = None
  Mfes = {p, m}
  LocalSlots = {s}
  Keys = {key}
  RouteLists <- Lists
  Ids = {i1, i2}
  Evaluations = {e1}
  MaxRegistrations = 2
INVARIANTS
  TypeOK
  FiresInOrder
  NoRuleSkipped
  RefusedNeverPlaced
  PlacedWhereDeclared
SYMMETRY IdSymmetry
CHECK_DEADLOCK FALSE

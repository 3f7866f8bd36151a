SPECIFICATION Spec
CONSTANTS
  p = p
  c = c
  d = d
  main = main
  x = x
  None = None
  Experiences = {p, c, d}
  Addresses = {main, x}
  Elements = {el1}
  Provides <- LayoutProvides
  Targets <- LayoutTargets
  LateCallbacks = FALSE
  MaxPlacements = 3
  MaxCallbacks = 3
  MaxStops = 0
INVARIANTS
  TypeOK
  IndexConsistent
  NoIslandLeaks
  ConvergedUnlessSkipped
  ProvidersPresent
PROPERTIES
  ReleasedByOwner
  ImplementsPlacement
  ImplementsIslands
CHECK_DEADLOCK FALSE

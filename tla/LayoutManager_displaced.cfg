SPECIFICATION Spec
CONSTANTS
  p = p
  c = c
  d = d
  main = main
  x = x
  None = None
  Experiences = {p, d}
  Addresses = {main, x}
  Elements = {el1}
  Provides <- NoProvides
  Targets <- AnyTargets
  LateCallbacks = FALSE
  MaxPlacements = 5
  MaxCallbacks = 0
  MaxStops = 0
INVARIANTS
  OneAddressPerExperience
CHECK_DEADLOCK FALSE

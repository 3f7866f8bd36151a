SPECIFICATION Spec
CONSTANTS
  p = p
  c = c
  d = d
  main = main
  x = x
  None = None
  Experiences = {p, d}
  Addresses = {main, x}
  Elements = {el1}
  Provides <- NoProvides
  Targets <- LayoutTargets
  LateCallbacks = FALSE
  MaxPlacements = 4
  MaxCallbacks = 0
  MaxStops = 0
INVARIANTS
  Converged
CHECK_DEADLOCK FALSE

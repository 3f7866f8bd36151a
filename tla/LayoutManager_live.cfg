SPECIFICATION FairSpec
CONSTANTS
  p = p
  c = c
  d = d
  main = main
  x = x
  None = None
  Experiences = {p, d}
  Addresses = {main, x}
  Elements = {el1}
  Provides <- AnyProvides
  Targets <- LayoutTargets
  LateCallbacks = TRUE
  MaxPlacements = 2
  MaxCallbacks = 2
  MaxStops = 1
PROPERTIES
  QueuesDrain
  StopCompletes
CHECK_DEADLOCK FALSE

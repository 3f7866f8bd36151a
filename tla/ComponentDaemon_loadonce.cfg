SPECIFICATION Spec
CONSTANTS
  r1 = r1
  r2 = r2
  m1 = m1
  m2 = m2
  v = v
  s1 = s1
  s2 = s2
  user = user
  none = none
  nothing = nothing
  Mfes = {m1, m2}
  Capabilities = {v}
  Sessions = {s1, s2}
  DefaultSession = s2
  Contexts = {user}
  NoContext = none
  Resolutions = {r1, r2}
  NotShown = nothing
  MaxActions = 2
  MaxRegistrations = 2
SYMMETRY PassSymmetry
INVARIANTS
  LoadOnce
CHECK_DEADLOCK FALSE

SPECIFICATION Spec
CONSTANTS
  Addresses = {a1}
  Experiences = {e1}
  Kinds <- GeneratedRemote
  MaxBinds = 2
INVARIANTS
  RebindShowsContent
CHECK_DEADLOCK FALSE

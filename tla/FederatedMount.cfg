SPECIFICATION Spec
CONSTANTS
  Addresses = {a1, a2}
  Experiences = {e1, e2}
  Kinds <- AllKinds
  MaxBinds = 4
INVARIANTS
  TypeOK
  RefusedOnlyAfterFailure
  RootsBelongToSlots
  ReadyShowsContent
  RenderedFromLoaded
PROPERTIES
  ImplementsContract
  EveryMountSettles
CHECK_DEADLOCK FALSE

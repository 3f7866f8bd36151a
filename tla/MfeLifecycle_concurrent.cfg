SPECIFICATION FairSpec
CONSTANTS
  Calls = {c1, c2, c3}
  Capabilities = {"load", "render", "health"}
  Hooked <- ConcurrentHooks
INVARIANTS
  TypeOK
  TransitionsNeverThrow
  StackHasNoRepeats
PROPERTIES
  EveryCallSettles
  ImplementsContract

SPECIFICATION Spec
CONSTANTS
  Calls = {c1}
  Capabilities = {"load", "render"}
  Hooked <- AllHooks
INVARIANTS
  StackTracksExecuting

SPECIFICATION Spec
CONSTANTS
  Plugins = {p1}
  OtherIds = {x}
  Batches = {b1, b2}
  MaxConcurrentProbes = 1
  MaxRequest = 1
  None = None
CHECK_DEADLOCK FALSE
INVARIANT SameDataAsShown

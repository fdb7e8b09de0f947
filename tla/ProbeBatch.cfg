SPECIFICATION Spec
CONSTANTS
  Plugins = {p1, p2}
  OtherIds = {x}
  Batches = {b1, b2}
  MaxConcurrentProbes = 2
  MaxRequest = 3
  None = None
SYMMETRY Symmetry
CHECK_DEADLOCK FALSE
INVARIANTS IInv CompleteIsLast CompleteMeansSettled CacheHoldsSuccess ResultIsServed
PROPERTIES ImplementsService

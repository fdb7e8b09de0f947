SPECIFICATION BackendSpec
CONSTANTS
  CachedPlugins = {p1}
  FlushWorkers = {w1, w2}
  Exit = Exit
  MaxHistory = 1
  MaxUpdates = 2
  MaxImport = 0
  Plugins = {q1, q2, q3}
  OtherIds = {x}
  Batches = {b1}
  MaxConcurrentProbes = 2
  MaxRequest = 3
  None = None
CHECK_DEADLOCK FALSE
PROPERTIES EventuallyFlushed EveryBatchCompletes

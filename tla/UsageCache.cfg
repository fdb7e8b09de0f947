SPECIFICATION Spec
CONSTANTS
  Plugins = {p1, p2}
  Workers = {w1, w2, w3}
  Exit = Exit
  MaxHistory = 2
  MaxUpdates = 3
  MaxImport = 1
SYMMETRY Symmetry
INVARIANTS TypeOK NoLostFlush FlushedIsOnDisk ExitFlushKeepsAll IInv
PROPERTIES DiskMovesForward ImplementsStore

SPECIFICATION RetentionSpec
CONSTANTS
  Plugins = {p1}
  Workers = {w1}
  Exit = Exit
  MaxHistory = 2
  MaxUpdates = 3
  MaxImport = 1
INVARIANT DeletedStaysDeleted

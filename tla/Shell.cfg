CONSTANTS
  TrayProviders = {"p", "q"}
  EnabledLists <- Lists
  MaxChanges = 3
  MaxUpdates = 2
  Conns = {c1, c2, c3}
  MaxConns = 2
  LimitBytes = 2
  Requests <- Sent
  Shortcuts = {s1, s2}
  Procs = {w1, w2}
  Posts = {r1, r2, r3}
  EventIds = {e1, e2}
SPECIFICATION PartsSpec
INVARIANTS InstallOnlyComplete PermitsHeld RegisteredIsManaged WindowFollowsFlags RecordedOnce
PROPERTIES LastStateDrawn EveryPermitReturned
CHECK_DEADLOCK FALSE

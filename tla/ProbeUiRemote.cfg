SPECIFICATION Spec
CONSTANTS
  Plugins = {p1}
  Batches = {c1, c2}
  RemoteChoices = {{p1}}
  MaxInbox = 1
CHECK_DEADLOCK FALSE
INVARIANT ManualRefreshIdsCleanedUp

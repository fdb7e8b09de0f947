SPECIFICATION FairSpec
CONSTANTS
  Plugins = {p1, p2}
  Batches = {c1, c2}
  RemoteChoices = {{}, {p2}}
  MaxInbox = 2
CHECK_DEADLOCK FALSE
PROPERTIES EveryRefreshEnds

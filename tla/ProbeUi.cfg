SPECIFICATION Spec
CONSTANTS
  Plugins = {p1, p2}
  Batches = {c1, c2, c3}
  RemoteChoices = {{}, {p2}}
  MaxInbox = 2
SYMMETRY Symmetry
CHECK_DEADLOCK FALSE
INVARIANTS IInv LoadingHasCause LocalManualHasCause NoResultDropped NoRefreshInCooldown

SPECIFICATION KeySpec
CONSTANTS
  KPlugins = {"antigravity"}
  KProbers = {p1}
INVARIANT StrategiesAreTried
CHECK_DEADLOCK FALSE

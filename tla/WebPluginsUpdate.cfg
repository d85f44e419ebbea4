SPECIFICATION PluginSpec
CONSTANTS
  p1 = p1
  p2 = p2
  Plugins = {p1}
  Versions = {1, 2}
  MaxChanges = 2
  MaxSyncs = 2
  MaxDrops = 1
  MaxBroken = 0
CHECK_DEADLOCK FALSE
INVARIANT UpdatedByList

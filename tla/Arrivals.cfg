SPECIFICATION ArrivalsSpec
CONSTANTS
  r1 = r1
  r2 = r2
  k1 = k1
  k2 = k2
  Posts = {r1, r2, k1, k2}
  RootOf <- Thread
  Burst = 0
  QueueLimit = 2
  MaxEdits = 1
  MaxFailures = 1
  p1 = p1
  p2 = p2
  Plugins = {p1, p2}
  Versions = {1, 2}
  MaxChanges = 2
  MaxSyncs = 2
  MaxDrops = 1
  MaxBroken = 1
  Keys <- AllKeys
  Typed <- Pressed
  Names <- FoundBy
  Known <- InStore
  Remote <- OnServer
  MaxText = 3
  MaxPressed = 4
  MaxAsked = 2
CHECK_DEADLOCK FALSE
INVARIANTS
  StoreAgrees
  CountedUnlessInBlock
  PluginsFollow
  LoadedOnce
  ListSettles
PROPERTIES
  CompletionKeepsText

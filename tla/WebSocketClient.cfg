SPECIFICATION ClientFairSpec
CONSTANTS
  s1 = s1
  s2 = s2
  Sockets = {s1, s2}
  Page = 1
  MaxPosts = 2
  MaxDrops = 2
  MaxLost = 1
  MaxTimers = 2
  MaxLogouts = 1
CHECK_DEADLOCK FALSE
INVARIANTS
  OneSocket
  NoSocketAfterLogout
  GapOnlyFromBlindness
PROPERTIES
  EventuallyCaughtUp
  EventuallyConnected

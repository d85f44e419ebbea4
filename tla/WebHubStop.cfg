SPECIFICATION FairSpec
CONSTANTS
  c1 = c1
  c2 = c2
  alice = alice
  Conns = {c1}
  Users = {alice}
  UserOf <- OneUserOf
  SendCap = 1
  SendSlow = 1
  BroadcastCap = 1
  Requests = {"typing"}
  StatusUsers = {alice}
  IdleTimeout = TRUE
  Audiences = {"all"}
  Revocations <- AnyOne
  MaxEvents = 1
  MaxRequests <- OneRequest
  MaxInvalidations = 1
  MaxLogins = 1
  MaxRefills = 0
  MaxStops = 1
CHECK_DEADLOCK FALSE
PROPERTIES
  StuckForever
  StopReturnsUnlessStuck
  CallersReleased

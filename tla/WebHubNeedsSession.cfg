SPECIFICATION Spec
CONSTANTS
  c1 = c1
  c2 = c2
  alice = alice
  Conns = {c1}
  Users = {alice}
  UserOf <- OneUserOf
  SendCap = 2
  SendSlow = 1
  BroadcastCap = 1
  Requests = {"ping"}
  StatusUsers = {}
  IdleTimeout = FALSE
  Audiences = {"all"}
  Revocations <- AnyOne
  MaxEvents = 1
  MaxRequests <- OneRequest
  MaxInvalidations = 1
  MaxLogins = 0
  MaxRefills = 0
  MaxStops = 0
CHECK_DEADLOCK FALSE
PROPERTIES
  EventNeedsSession

SPECIFICATION Spec
CONSTANTS
  c1 = c1
  c2 = c2
  alice = alice
  Conns = {c1}
  Users = {alice}
  UserOf <- OneUserOf
  SendCap = 2
  SendSlow = 1
  BroadcastCap = 1
  Requests = {"typing", "challenge"}
  StatusUsers = {}
  IdleTimeout = TRUE
  Audiences = {"all"}
  Revocations <- AnyOne
  MaxEvents = 2
  MaxRequests <- TwoRequests
  MaxInvalidations = 1
  MaxLogins = 0
  MaxRefills = 1
  MaxStops = 0
CHECK_DEADLOCK FALSE
INVARIANTS
  NoGap
  PanicsExplained
PROPERTIES
  EventNeedsSessionUnlessMissed

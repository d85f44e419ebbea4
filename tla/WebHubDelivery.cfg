SPECIFICATION Spec
CONSTANTS
  c1 = c1
  c2 = c2
  alice = alice
  Conns = {c1, c2}
  Users = {alice}
  UserOf <- OneUserOf
  SendCap = 1
  SendSlow = 1
  BroadcastCap = 1
  Requests = {}
  StatusUsers = {}
  IdleTimeout = FALSE
  Audiences <- AllAndOne
  Revocations <- AnyOne
  MaxEvents = 2
  MaxRequests <- NoRequests
  MaxInvalidations = 0
  MaxLogins = 0
  MaxRefills = 0
  MaxStops = 0
SYMMETRY Swap
CHECK_DEADLOCK FALSE
INVARIANTS
  NoGap
  FinishedForgotten
PROPERTIES
  ImplementsIndex

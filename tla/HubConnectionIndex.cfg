SPECIFICATION Spec
CONSTANTS
  c1 = c1
  c2 = c2
  c3 = c3
  c4 = c4
  c5 = c5
  alice = alice
  bob = bob
  Conns <- MCConns
  Users <- MCUsers
  UserOf <- MCUserOf
INVARIANTS
  TypeOK
  IndexesAgree
  CandidatesLive
PROPERTIES
  ImplementsMembership

--------------------------- MODULE HubMembership ---------------------------
(***************************************************************************)
(* What the connection index of a hub promises to the hub's loop, without  *)
(* slices, maps or positions: a SET of registered connections, and a       *)
(* broadcast that visits every connection registered in its scope when it  *)
(* started, each exactly once, in any order, and may drop the one it is    *)
(* visiting.  HubConnectionIndex implements it.                            *)
(***************************************************************************)
EXTENDS FiniteSets

CONSTANTS Conns, Users, UserOf

VARIABLES
  unregistered,  \* connections the hub has never been given
  members,       \* connections the hub holds
  closed,        \* connections whose Send channel the hub closed
  broadcasting,  \* the hub is inside the loop of one broadcast
  pending        \* connections that loop has still to visit

vars == <<unregistered, members, closed, broadcasting, pending>>

Init == /\ unregistered = Conns
        /\ members = {}
        /\ closed = {}
        /\ broadcasting = FALSE
        /\ pending = {}

Register(c) ==
  /\ ~broadcasting
  /\ c \in unregistered
  /\ unregistered' = unregistered \ {c}
  /\ members' = members \cup {c}
  /\ UNCHANGED <<closed, broadcasting, pending>>

Unregister(c) ==
  /\ ~broadcasting
  /\ members' = members \ {c}
  /\ UNCHANGED <<unregistered, closed, broadcasting, pending>>

ForUser(u) == {c \in members : UserOf[c] = u}

Start(audience) ==
  /\ ~broadcasting
  /\ broadcasting' = TRUE
  /\ pending' = audience
  /\ UNCHANGED <<unregistered, members, closed>>

\* A visited connection is registered and its channel is open: sending on it
\* or closing it cannot panic.
Visit(c) ==
  /\ broadcasting
  /\ c \in pending \cap members
  /\ c \notin closed
  /\ pending' = pending \ {c}
  /\ UNCHANGED <<unregistered, broadcasting>>

Deliver(c) == Visit(c) /\ UNCHANGED <<members, closed>>

Drop(c) == /\ Visit(c)
           /\ members' = members \ {c}
           /\ closed' = closed \cup {c}

Finish ==
  /\ broadcasting
  /\ pending = {}
  /\ broadcasting' = FALSE
  /\ UNCHANGED <<unregistered, members, closed, pending>>

Next ==
  \/ \E c \in Conns : Register(c) \/ Unregister(c) \/ Deliver(c) \/ Drop(c)
  \/ Start(members)
  \/ \E u \in Users : Start(ForUser(u))
  \/ Finish

Spec == Init /\ [][Next]_vars
=============================================================================

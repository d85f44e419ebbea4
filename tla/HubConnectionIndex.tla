------------------------- MODULE HubConnectionIndex -------------------------
(***************************************************************************)
(* The connection index of a websocket hub (app/web_hub.go,                *)
(* hubConnectionIndex) and the broadcast loop that removes connections     *)
(* from it while it ranges over it.                                        *)
(*                                                                         *)
(* Positions are 1-based, as in TLA+ sequences; Go's are 0-based.          *)
(*                                                                         *)
(* All() and ForUser() return slices that share their backing array with   *)
(* the index, and Remove writes to that array: the loop                    *)
(*     for _, webCon := range candidates                                   *)
(* keeps the length it started with and reads elements as they are when it *)
(* reaches them.  "candidates" is that view of the array: Remove writes    *)
(* through to it and does not shorten it.                                  *)
(***************************************************************************)
EXTENDS Integers, Sequences

CONSTANTS
  Conns,   \* the *WebConn values
  Users,   \* user ids
  UserOf   \* wc.UserId; WebHub models the assignment after registration

ASSUME UserOfAssumption == UserOf \in [Conns -> Users]
ASSUME ScopeAssumption == "none" \notin Users /\ "all" \notin Users

VARIABLES
  connections,          \* i.connections
  connectionsByUserId,  \* i.connectionsByUserId
  connectionIndexes,    \* i.connectionIndexes; its domain is the set of keys
  connectionCount,      \* h.connectionCount, read by TotalWebsocketConnections
  unregistered,         \* connections HubRegister has not been called with
  closed,               \* connections whose Send the hub has closed
  scope,                \* "none" outside the loop, "all", or msg.Broadcast.UserId
  candidates,           \* the slice the loop ranges over
  next                  \* the position the loop reads next

index == <<connections, connectionsByUserId, connectionIndexes>>
loop  == <<scope, candidates, next>>
vars  == <<index, connectionCount, unregistered, closed, loop>>

Init ==
  /\ connections = <<>>
  /\ connectionsByUserId = [u \in Users |-> <<>>]
  /\ connectionIndexes = [c \in {} |-> 0]
  /\ connectionCount = 0
  /\ unregistered = Conns
  /\ closed = {}
  /\ scope = "none"
  /\ candidates = <<>>
  /\ next = 1

Registered == DOMAIN connectionIndexes

-----------------------------------------------------------------------------
(* The operations of the index *)

\* Mutant of Add: the length before the append is taken for the position.
AddBehind(wc) ==
  /\ connections' = Append(connections, wc)
  /\ connectionsByUserId' =
       [connectionsByUserId EXCEPT ![UserOf[wc]] = Append(@, wc)]
  /\ connectionIndexes' =
       [c \in Registered \cup {wc} |->
          IF c = wc
          THEN [connections |-> Len(connections),
                connectionsByUserId |-> Len(connectionsByUserId[UserOf[wc]])]
          ELSE connectionIndexes[c]]

Add(wc) ==
  /\ connections' = Append(connections, wc)
  /\ connectionsByUserId' =
       [connectionsByUserId EXCEPT ![UserOf[wc]] = Append(@, wc)]
  /\ connectionIndexes' =
       [c \in Registered \cup {wc} |->
          IF c = wc
          THEN [connections |-> Len(connections) + 1,
                connectionsByUserId |-> Len(connectionsByUserId[UserOf[wc]]) + 1]
          ELSE connectionIndexes[c]]

\* The last element takes the place of the removed one and the slice is truncated.
WithoutSlot(s, p) ==
  [k \in 1..(Len(s) - 1) |-> IF k = p THEN s[Len(s)] ELSE s[k]]

\* Mutant of IndexesWithout: the moved connections keep their old positions.
StaleIndexes(wc) ==
  [c \in Registered \ {wc} |-> connectionIndexes[c]]

\* The moved connections get the position of wc, and wc loses its entry.
IndexesWithout(wc) ==
  LET at    == connectionIndexes[wc]
      users == connectionsByUserId[UserOf[wc]]
  IN  [c \in Registered \ {wc} |->
         [connections |-> IF c = connections[Len(connections)]
                          THEN at.connections
                          ELSE connectionIndexes[c].connections,
          connectionsByUserId |-> IF c = users[Len(users)]
                                  THEN at.connectionsByUserId
                                  ELSE connectionIndexes[c].connectionsByUserId]]

Remove(wc) ==
  \/ /\ wc \in Registered
     /\ connections' = WithoutSlot(connections, connectionIndexes[wc].connections)
     /\ connectionsByUserId' =
          [connectionsByUserId EXCEPT ![UserOf[wc]] =
             WithoutSlot(@, connectionIndexes[wc].connectionsByUserId)]
     /\ connectionIndexes' = IndexesWithout(wc)
  \/ /\ wc \notin Registered
     /\ UNCHANGED index

\* Mutant of CandidatesWithout: an order-preserving removal, append(s[:p], s[p+1:]...),
\* moves every later element of the array one place down.
CandidatesShifted(wc) ==
  LET p == IF scope = "all" THEN connectionIndexes[wc].connections
                            ELSE connectionIndexes[wc].connectionsByUserId
  IN  [k \in 1..Len(candidates) |->
         IF k < p \/ k = Len(candidates) THEN candidates[k] ELSE candidates[k + 1]]

\* What Remove(wc) does to a loop over the array it writes to.
CandidatesWithout(wc) ==
  LET users == connectionsByUserId[UserOf[wc]]
      at    == connectionIndexes[wc]
  IN  IF wc \notin Registered THEN candidates
      ELSE IF scope = "all"
      THEN [candidates EXCEPT ![at.connections] = connections[Len(connections)]]
      ELSE [candidates EXCEPT ![at.connectionsByUserId] = users[Len(users)]]

-----------------------------------------------------------------------------
(* The cases of the hub's select that change the index *)

\* HubRegister is called once for a connection: a second registration, after
\* the session was lost, is in WebHub.
Register(wc) ==
  /\ scope = "none"
  /\ wc \in unregistered
  /\ Add(wc)
  /\ connectionCount' = Len(connections')
  /\ unregistered' = unregistered \ {wc}
  /\ UNCHANGED <<closed, loop>>

\* The pump unregisters a connection whether or not it was registered, and
\* the hub may receive it before the registration of the same connection.
Unregister(wc) ==
  /\ scope = "none"
  /\ Remove(wc)
  /\ connectionCount' = Len(connections')
  /\ UNCHANGED <<unregistered, closed, loop>>

StartBroadcast(s) ==
  /\ scope = "none"
  /\ scope' = s
  /\ candidates' = IF s = "all" THEN connections ELSE connectionsByUserId[s]
  /\ next' = 1
  /\ UNCHANGED <<index, connectionCount, unregistered, closed>>

InLoop == scope # "none" /\ next <= Len(candidates)

\* The event is queued on webCon.Send, or ShouldSendEvent says no.
Deliver ==
  /\ InLoop
  /\ next' = next + 1
  /\ UNCHANGED <<index, connectionCount, unregistered, closed, scope, candidates>>

\* webCon.Send is full: it is closed and the connection leaves the index.
Drop ==
  /\ InLoop
  /\ next' = next + 1
  /\ closed' = closed \cup {candidates[next]}
  /\ Remove(candidates[next])
  /\ candidates' = CandidatesWithout(candidates[next])
  /\ UNCHANGED <<connectionCount, unregistered, scope>>

Finish ==
  /\ scope # "none"
  /\ next > Len(candidates)
  /\ scope' = "none"
  /\ candidates' = <<>>
  /\ next' = 1
  /\ UNCHANGED <<index, connectionCount, unregistered, closed>>

Next ==
  \/ \E wc \in Conns : Register(wc) \/ Unregister(wc)
  \/ \E s \in Users \cup {"all"} : StartBroadcast(s)
  \/ Deliver
  \/ Drop
  \/ Finish

Spec == Init /\ [][Next]_vars

-----------------------------------------------------------------------------
(* Properties *)

Position == [connections : Nat \ {0}, connectionsByUserId : Nat \ {0}]

\* Every variable has the type its Go declaration gives it.
TypeOK ==
  /\ connections \in Seq(Conns)
  /\ connectionsByUserId \in [Users -> Seq(Conns)]
  /\ connectionIndexes \in [Registered -> Position]
  /\ Registered \subseteq Conns
  /\ connectionCount \in Nat
  /\ unregistered \subseteq Conns
  /\ closed \subseteq Conns
  /\ scope \in Users \cup {"none", "all"}
  /\ candidates \in Seq(Conns)
  /\ next \in Nat \ {0}

\* s lists the elements of R without repetition, and pos gives their positions.
Indexed(s, R, pos) ==
  /\ \A k \in 1..Len(s) : s[k] \in R /\ pos[s[k]] = k
  /\ \A c \in R : pos[c] \in 1..Len(s) /\ s[pos[c]] = c

ListPosition == [c \in Registered |-> connectionIndexes[c].connections]
UserPosition == [c \in Registered |-> connectionIndexes[c].connectionsByUserId]
RegisteredFor(u) == {c \in Registered : UserOf[c] = u}

\* The three structures of the index describe the same set of connections
\* after any sequence of additions and swap-removals, inside a loop or not:
\* no entry is lost, duplicated or filed under another user, and every stored
\* position points back at its connection (Remove indexes slices with them).
IndexesAgree ==
  /\ Indexed(connections, Registered, ListPosition)
  /\ \A u \in Users : Indexed(connectionsByUserId[u], RegisteredFor(u), UserPosition)

\* The loop never reads a connection that has left the index, or whose Send
\* channel is closed: sending on it, or closing it again, would panic and the
\* hub would restart with an empty index.
CandidatesLive ==
  \A k \in next..Len(candidates) :
    candidates[k] \in Registered /\ candidates[k] \notin closed

\* connectionCount is stored after registrations and unregistrations but not
\* after the loop drops a connection: it may be too high, never too low.
CountNeverLow == connectionCount >= Len(connections)

\* The position of a connection in the slice the loop ranges over.
LoopPosition(wc) == IF scope = "all" THEN ListPosition[wc] ELSE UserPosition[wc]

\* The candidates still to visit are in scope and distinct, and none has moved
\* towards the end: a removal writes at or before the position being visited.
CandidatesAhead ==
  /\ scope = "none" => candidates = <<>>
  /\ \A k \in next..Len(candidates) :
        /\ scope # "all" => UserOf[candidates[k]] = scope
        /\ LoopPosition(candidates[k]) <= k
  /\ \A j, k \in next..Len(candidates) : candidates[j] = candidates[k] => j = k

\* A connection is registered at most once and never after it was closed.
RegisteredOnce ==
  /\ unregistered \cap (Registered \cup closed) = {}
  /\ Registered \cap closed = {}

\* The inductive strengthening of IndexesAgree, CandidatesLive and CountNeverLow.
IndexInv ==
  /\ TypeOK
  /\ IndexesAgree
  /\ CandidatesLive
  /\ CandidatesAhead
  /\ RegisteredOnce
  /\ CountNeverLow

\* The connections of All(), and those the loop has still to visit.
Members == {connections[k] : k \in 1..Len(connections)}
Remaining == {candidates[k] : k \in next..Len(candidates)}

Membership == INSTANCE HubMembership WITH
  members <- Members,
  broadcasting <- scope # "none",
  pending <- Remaining

\* The index implements the set of HubMembership: in particular every
\* broadcast visits each connection of its scope exactly once although it
\* removes connections from the slice it ranges over.
ImplementsMembership == Membership!Spec
=============================================================================

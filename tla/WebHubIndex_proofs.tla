-------------------------- MODULE WebHubIndex_proofs --------------------------
(***************************************************************************)
(* Proof that a hub uses its index as HubConnectionIndex allows, as long   *)
(* as no connection is authenticated or registered again and the hub does  *)
(* not panic on a session; what is proved of the index is used through     *)
(* IndexProof. That it panics on a session only if one goroutine took the  *)
(* session away while the other relied on it. And that the deadlocks of a  *)
(* stopping hub are for ever: no step of the hub, of a connection, of a    *)
(* client or of a caller ends one.                                         *)
(***************************************************************************)
EXTENDS WebHub_proofs

IndexProof == INSTANCE HubConnectionIndex_proofs

\* A handler that has died of a panic has met a closed channel.
PanickedClosed == \A c \in Conns : At(c, "panicked") => c \in closed

\* A channel of capacity 1.
OneAtMost(q) == q = <<>> \/ \E c \in Conns : q = <<c>>

\* What the hub lists are connections, however often they were registered.
Listed ==
  /\ connections \in Seq(Conns) /\ candidates \in Seq(Conns)
  /\ connectionsByUserId \in [Users -> Seq(Conns)]
  /\ DOMAIN connectionIndexes \subseteq Conns
  /\ next \in Nat \ {0}

HubInv ==
  /\ OneAtMost(registerQ) /\ OneAtMost(unregisterQ)
  /\ Listed
  /\ hub = "select" => scope = "none"
  /\ again = {} => IndexProof!IndexInv /\ "index" \notin panics /\ PanickedClosed

\* A visited connection is there to be read.
InLoop == next <= Len(candidates)

\* The session of a connection that somebody relies on is there, or was taken
\* away while it was relied on.
Backed(c) ==
  conn[c].fresh \/ At(c, "expire") \/ HubRelies(c) => conn[c].held \/ c \in torn

SessionsBacked ==
  /\ \A c \in Conns : Backed(c)
  /\ "session" \in panics => torn # {}

----------------------------------------------------------------------------
(* The index of the hub is the one of IndexProof.                          *)

LEMMA SameNext == Index!Next => IndexProof!Next
BY DEF Index!Next, Index!Register, Index!Unregister, Index!StartBroadcast, Index!Deliver, Index!Drop,
       Index!Finish, Index!Add, Index!Remove, Index!InLoop, Index!index, Index!loop,
       Index!CandidatesWithout, Index!WithoutSlot, Index!IndexesWithout, Index!Registered,
       IndexProof!Next, IndexProof!Register, IndexProof!Unregister, IndexProof!StartBroadcast,
       IndexProof!Deliver, IndexProof!Drop, IndexProof!Finish, IndexProof!Add, IndexProof!Remove,
       IndexProof!InLoop, IndexProof!index, IndexProof!loop, IndexProof!CandidatesWithout,
       IndexProof!WithoutSlot, IndexProof!IndexesWithout, IndexProof!Registered

LEMMA SameInit == Index!Init => IndexProof!Init
BY DEF Index!Init, IndexProof!Init

LEMMA KeepIndexInv ==
  ASSUME IndexProof!IndexInv, [Index!Next]_(Index!vars)
  PROVE  IndexProof!IndexInv'
<1>1. [IndexProof!Next]_(IndexProof!vars)
  BY SameNext DEF Index!vars, Index!index, Index!loop, IndexProof!vars, IndexProof!index, IndexProof!loop
<1> QED
  BY <1>1, IndexProof!NextIndexInv, UserAssumption
  DEF IndexProof!UserOfAssumption, IndexProof!ScopeAssumption

\* What the index promises, in the words of the hub: a registered connection
\* can be removed, and the connection visited is registered and open.
LEMMA IndexPromise ==
  ASSUME IndexProof!IndexInv
  PROVE  /\ \A c \in Conns : ~RemovePanics(c)
         /\ InLoop => /\ Visited \in RegisteredConns /\ Visited \in Conns
                      /\ Visited \notin closed
         /\ RegisteredConns \cap closed = {}
<1>1. ASSUME NEW c \in Conns, c \in RegisteredConns
      PROVE  {LastOf(connections), LastOf(connectionsByUserId[UserOf[c]])} \subseteq RegisteredConns
  <2>1. /\ connections \in Seq(Conns) /\ UserOf[c] \in Users
        /\ connectionsByUserId[UserOf[c]] \in Seq(Conns)
    BY <1>1, UserAssumption DEF IndexProof!IndexInv, IndexProof!TypeOK
  <2>2. connections[Len(connections)] \in RegisteredConns
    <3>1. IndexProof!Indexed(connections, IndexProof!Registered, IndexProof!ListPosition)
      BY DEF IndexProof!IndexInv, IndexProof!IndexesAgree
    <3>2. Len(connections) \in 1..Len(connections)
      BY <1>1, <2>1, <3>1 DEF IndexProof!Indexed, IndexProof!Registered, RegisteredConns
    <3> QED
      BY <3>1, <3>2 DEF IndexProof!Indexed, IndexProof!Registered, RegisteredConns
  <2>3. LastOf(connectionsByUserId[UserOf[c]]) \in RegisteredConns
    <3> DEFINE u == UserOf[c]
               list == connectionsByUserId[u]
    <3>1. IndexProof!Indexed(list, IndexProof!RegisteredFor(u), IndexProof!UserPosition)
      BY <2>1 DEF IndexProof!IndexInv, IndexProof!IndexesAgree
    <3>2. c \in IndexProof!RegisteredFor(u)
      BY <1>1 DEF IndexProof!RegisteredFor, IndexProof!Registered, RegisteredConns
    <3>3. Len(list) \in 1..Len(list)
      BY <2>1, <3>1, <3>2 DEF IndexProof!Indexed
    <3>4. list[Len(list)] \in IndexProof!RegisteredFor(u)
      BY <3>1, <3>3 DEF IndexProof!Indexed
    <3> QED
      BY <3>4 DEF IndexProof!RegisteredFor, IndexProof!Registered, RegisteredConns, LastOf
  <2> QED
    BY <2>2, <2>3 DEF LastOf
<1>2. InLoop => /\ Visited \in RegisteredConns /\ Visited \in Conns
                /\ Visited \notin closed
  BY DEF InLoop, Visited, RegisteredConns, IndexProof!IndexInv, IndexProof!TypeOK,
         IndexProof!CandidatesLive, IndexProof!Registered
<1>3. RegisteredConns \cap closed = {}
  BY DEF IndexProof!IndexInv, IndexProof!RegisteredOnce, RegisteredConns, IndexProof!Registered
<1> QED
  BY <1>1, <1>2, <1>3 DEF RemovePanics

----------------------------------------------------------------------------
(* The steps of the hub are steps of its index.                            *)

\* While the hub looks for the session of a connection, nothing else happens.
LEMMA LookupLeaves ==
  ASSUME HubCheck \/ HubGet \/ HubSetSession \/ HubMember
  PROVE  /\ hub \notin {"select", "closing", "waiting", "stopped", "invalidating"}
         /\ hub' \notin {"select", "closing", "waiting", "stopped"}
         /\ UNCHANGED <<registerQ, unregisterQ, broadcastQ, stop, toClose, toOffline>>
         /\ UNCHANGED <<index, connectionCount, unregistered, closed, loop, again, early, panics>>
<1> USE DEF channels, closing, hubIndex, HubAt
<1>1. CASE HubCheck
  BY <1>1 DEF HubCheck, outside, history
<1>2. CASE HubGet
  BY <1>2 DEF HubGet, AfterGet
<1>3. CASE HubSetSession
  <2>1. hub' \in {"expire", "decide", "unset", "unexpire"}
    BY <1>3 DEF HubSetSession, SessionSteps, FollowedBy
  <2> QED
    BY <1>3, <2>1 DEF HubSetSession, SessionSteps
<1>4. CASE HubMember
  BY <1>4 DEF HubMember, IsAuthenticated
<1> QED
  BY <1>1, <1>2, <1>3, <1>4

LEMMA HubQueues ==
  ASSUME HubInv, HubStep
  PROVE  /\ OneAtMost(registerQ)' /\ OneAtMost(unregisterQ)'
         /\ hub' = "select" => scope' = "none"
<1> USE DEF channels, closing, hubIndex, loop
<1> DEFINE Lookup == HubCheck \/ HubGet \/ HubSetSession \/ HubMember
<1>1. /\ registerQ' = <<>> \/ registerQ' = registerQ
      /\ unregisterQ' = <<>> \/ unregisterQ' = unregisterQ
  <2>1. CASE Lookup
    BY <2>1, LookupLeaves
  <2>2. CASE ~Lookup
    BY <2>2 DEF HubStep, HubRegister, HubUnregister, HubBroadcast, HubStop, HubInvalidateUser,
         HubOffline, HubSkip, HubNilSession, HubOmit, HubSend, HubDrop, HubPanic, HubLoopEnd,
         HubClose, HubPumpFinished, HubStopped
  <2> QED
    BY <2>1, <2>2
<1>2. ASSUME HubRegister \/ HubUnregister \/ HubNilSession \/ HubPanic \/ HubLoopEnd, hub' = "select"
      PROVE  scope' = "none"
  BY <1>2 DEF HubRegister, HubUnregister, HubNilSession, HubPanic, HubLoopEnd, Panic, Index!Finish,
              HubInv
<1>3. ASSUME ~(HubRegister \/ HubUnregister \/ HubNilSession \/ HubPanic \/ HubLoopEnd),
             hub' = "select"
      PROVE  scope' = "none"
  <2>1. ~Lookup
    BY <1>3, LookupLeaves
  <2>2. hub = "select" /\ UNCHANGED scope
    BY <1>3, <2>1 DEF HubStep, HubBroadcast, HubStop, HubInvalidateUser, HubOffline,
         HubSkip, HubOmit, HubSend, HubDrop, HubClose, HubPumpFinished, HubStopped
  <2> QED
    BY <2>2 DEF HubInv
<1>4. OneAtMost(registerQ)' /\ OneAtMost(unregisterQ)'
  BY <1>1 DEF HubInv, OneAtMost
<1> QED
  BY <1>2, <1>3, <1>4

\* Unless a connection is registered again, a step of the hub is a step of its
\* index, or leaves the index alone, or the hub panics on a session.
LEMMA HubIndexStep ==
  ASSUME FlowInv, HubInv, HubStep, again' = {}, ~HubNilSession
  PROVE  /\ again = {} /\ panics' = panics
         /\ [Index!Next]_(Index!vars)
<1> USE DEF channels, closing, hubIndex, outside, history, bounds, loop, Index!index, Index!loop, index
<1>1. CASE HubRegister
  <2> DEFINE c == Head(registerQ)
  <2>1. c \in Conns
    BY <1>1 DEF HubRegister, HubInv, OneAtMost
  <2>2. again = {} /\ c \in unregistered
    BY <1>1 DEF HubRegister
  <2>3. Index!Register(c)
    BY <1>1, <2>2 DEF HubRegister, HubInv, Index!Register
  <2>4. panics' = panics
    BY <1>1 DEF HubRegister
  <2> QED
    BY <2>1, <2>2, <2>3, <2>4 DEF Index!Next
<1>2. CASE HubUnregister
  <2> DEFINE c == Head(unregisterQ)
  <2>1. c \in Conns
    BY <1>2 DEF HubUnregister, HubInv, OneAtMost
  <2>2. again = {}
    BY <1>2 DEF HubUnregister, Panic
  <2>3. ~RemovePanics(c)
    BY <2>1, <2>2, IndexPromise DEF HubInv
  <2>4. Index!Unregister(c) /\ panics' = panics
    BY <1>2, <2>3 DEF HubUnregister, HubInv, Index!Unregister
  <2> QED
    BY <2>1, <2>2, <2>4 DEF Index!Next
<1>3. CASE HubBroadcast
  <2> DEFINE s == Head(broadcastQ).audience
  <2>1. s \in Users \cup {"all"}
    <3>1. Head(broadcastQ) \in Messages
      BY <1>3 DEF HubBroadcast, FlowInv, Source
    <3> QED
      BY <3>1 DEF Messages
  <2>2. Index!StartBroadcast(s) /\ again = {} /\ panics' = panics
    BY <1>3 DEF HubBroadcast
  <2> QED
    BY <2>1, <2>2 DEF Index!Next
<1>4. CASE HubSkip \/ HubOmit \/ HubSend
  <2>1. Index!Deliver /\ again = {} /\ panics' = panics
    BY <1>4 DEF HubSkip, HubOmit, HubSend
  <2> QED
    BY <2>1 DEF Index!Next
<1>5. CASE HubDrop
  <2>1. Index!Drop /\ again = {} /\ panics' = panics
    BY <1>5 DEF HubDrop
  <2> QED
    BY <2>1 DEF Index!Next
<1>6. CASE HubPanic
  <2>1. again = {} /\ InLoop
    BY <1>6 DEF HubPanic, Panic, ShouldSend, IsAuthenticated, HubAt, InLoop
  <2>2. Visited \in Conns /\ Visited \notin closed /\ ~RemovePanics(Visited)
    BY <2>1, IndexPromise DEF HubInv
  <2> QED
    BY <1>6, <2>2 DEF HubPanic
<1>7. CASE HubLoopEnd
  <2>1. Index!Finish /\ again = {} /\ panics' = panics
    BY <1>7 DEF HubLoopEnd, Index!Finish
  <2> QED
    BY <2>1 DEF Index!Next
<1>8. CASE HubCheck \/ HubGet \/ HubSetSession \/ HubMember
  BY <1>8, LookupLeaves DEF Index!vars
<1>9. CASE HubStop \/ HubClose \/ HubPumpFinished \/ HubStopped
           \/ \E u \in Users : HubInvalidateUser(u) \/ HubOffline(u)
  BY <1>9 DEF HubStop, HubClose, HubPumpFinished, HubStopped, HubInvalidateUser, HubOffline, Index!vars
<1> QED
  BY <1>1, <1>2, <1>3, <1>4, <1>5, <1>6, <1>7, <1>8, <1>9 DEF HubStep

\* A hub that panics on a session starts again with an empty index.
LEMMA PanicIndexInv ==
  ASSUME IndexProof!IndexInv, HubNilSession
  PROVE  IndexProof!IndexInv'
<1>1. /\ connections' = <<>> /\ connectionsByUserId' = [u \in Users |-> <<>>]
      /\ connectionIndexes' = [c \in {} |-> 0]
      /\ scope' = "none" /\ candidates' = <<>> /\ next' = 1
      /\ UNCHANGED <<connectionCount, unregistered, closed>>
  BY DEF HubNilSession, Panic
<1>2. IndexProof!Registered' = {}
  BY <1>1 DEF IndexProof!Registered
<1>3. IndexProof!TypeOK'
  BY <1>1, <1>2 DEF IndexProof!IndexInv, IndexProof!TypeOK, IndexProof!Position
<1>4. IndexProof!IndexesAgree'
  BY <1>1, <1>2 DEF IndexProof!IndexesAgree, IndexProof!Indexed, IndexProof!RegisteredFor
<1>5. IndexProof!CandidatesLive' /\ IndexProof!CandidatesAhead'
  BY <1>1 DEF IndexProof!CandidatesLive, IndexProof!CandidatesAhead
<1>6. IndexProof!RegisteredOnce' /\ IndexProof!CountNeverLow'
  BY <1>1, <1>2 DEF IndexProof!IndexInv, IndexProof!TypeOK, IndexProof!RegisteredOnce,
                    IndexProof!CountNeverLow
<1> QED
  BY <1>3, <1>4, <1>5, <1>6 DEF IndexProof!IndexInv

----------------------------------------------------------------------------
(* What the hub lists.                                                     *)

\* A removal leaves a list of connections, whatever position it is for.
LEMMA WithoutSlotType ==
  ASSUME NEW s \in Seq(Conns), NEW p
  PROVE  Index!WithoutSlot(s, p) \in Seq(Conns)
<1> DEFINE t == [k \in 1..(Len(s) - 1) |-> IF k = p THEN s[Len(s)] ELSE s[k]]
<1>1. CASE s = <<>>
  <2>1. Len(s) - 1 = -1
    BY <1>1
  <2>2. t = [k \in 1..0 |-> s[k]]
    BY <2>1
  <2>3. [k \in 1..0 |-> s[k]] \in [1..0 -> Conns]
    OBVIOUS
  <2> QED
    BY <2>2, <2>3 DEF Index!WithoutSlot
<1>2. CASE s # <<>>
  <2>1. Len(s) \in 1..Len(s) /\ Len(s) - 1 \in Nat
    BY <1>2
  <2>2. t \in [1..(Len(s) - 1) -> Conns]
    BY <2>1
  <2>3. t \in Seq(Conns)
    BY <2>1, <2>2
  <2> QED
    BY <2>3 DEF Index!WithoutSlot
<1> QED
  BY <1>1, <1>2

LEMMA ReplacedType ==
  ASSUME NEW s \in Seq(Conns), NEW i, NEW x \in Conns
  PROVE  [s EXCEPT ![i] = x] \in Seq(Conns)
<1> DEFINE t == [s EXCEPT ![i] = x]
<1>1. DOMAIN t = 1..Len(s) /\ \A k \in 1..Len(s) : t[k] \in Conns
  OBVIOUS
<1>2. t = [k \in 1..Len(s) |-> t[k]]
  BY <1>1
<1> HIDE DEF t
<1>3. t \in [1..Len(s) -> Conns]
  BY <1>1, <1>2
<1>4. Len(s) \in Nat
  OBVIOUS
<1> QED
  BY <1>3, <1>4 DEF t

LEMMA RemoveListed ==
  ASSUME Listed, NEW c \in Conns, Index!Remove(c)
  PROVE  /\ connections' \in Seq(Conns)
         /\ connectionsByUserId' \in [Users -> Seq(Conns)]
         /\ DOMAIN connectionIndexes' \subseteq Conns
<1>1. CASE UNCHANGED index
  BY <1>1 DEF index, Listed
<1>2. CASE ~UNCHANGED index
  <2>1. PICK p, q :
          /\ connections' = Index!WithoutSlot(connections, p)
          /\ connectionsByUserId' = [connectionsByUserId EXCEPT ![UserOf[c]] = Index!WithoutSlot(@, q)]
          /\ connectionIndexes' = Index!IndexesWithout(c)
    BY <1>2 DEF Index!Remove, Index!index, index
  <2>2. UserOf[c] \in Users /\ connectionsByUserId[UserOf[c]] \in Seq(Conns)
    BY UserAssumption DEF Listed
  <2>3. Index!WithoutSlot(connectionsByUserId[UserOf[c]], q) \in Seq(Conns)
    BY <2>2, WithoutSlotType
  <2>4. connectionsByUserId' \in [Users -> Seq(Conns)]
    BY <2>1, <2>2, <2>3 DEF Listed
  <2>5. DOMAIN connectionIndexes' \subseteq Conns
    BY <2>1 DEF Index!IndexesWithout, Index!Registered, Listed
  <2>6. connections' \in Seq(Conns)
    BY <2>1, WithoutSlotType DEF Listed
  <2> QED
    BY <2>4, <2>5, <2>6
<1> QED
  BY <1>1, <1>2

LEMMA HubListed ==
  ASSUME FlowInv, HubInv, HubStep
  PROVE  Listed'
<1> USE DEF channels, closing, hubIndex, loop, index, Index!index
<1>1. CASE HubRegister
  <2> DEFINE c == Head(registerQ)
  <2>1. /\ c \in Conns /\ Index!Add(c) /\ UNCHANGED <<candidates, next>>
    BY <1>1 DEF HubRegister, HubInv, OneAtMost
  <2>2. UserOf[c] \in Users /\ connectionsByUserId[UserOf[c]] \in Seq(Conns)
    BY <2>1, UserAssumption DEF HubInv, Listed
  <2>3. /\ Append(connectionsByUserId[UserOf[c]], c) \in Seq(Conns)
        /\ Append(connections, c) \in Seq(Conns)
    BY <2>1, <2>2 DEF HubInv, Listed
  <2>4. connectionsByUserId' \in [Users -> Seq(Conns)] /\ connections' \in Seq(Conns)
    BY <2>1, <2>3 DEF Index!Add, HubInv, Listed
  <2>5. DOMAIN connectionIndexes' \subseteq Conns
    BY <2>1 DEF Index!Add, Index!Registered, HubInv, Listed
  <2> QED
    BY <2>1, <2>4, <2>5 DEF HubInv, Listed
<1>2. CASE HubUnregister \/ HubNilSession \/ HubPanic
  <2>1. CASE \E cause : Panic(cause)
    <3>1. /\ connections' = <<>> /\ connectionsByUserId' = [u \in Users |-> <<>>]
          /\ DOMAIN connectionIndexes' = {} /\ candidates' = <<>> /\ next' = 1
      BY <2>1 DEF Panic
    <3>2. <<>> \in Seq(Conns)
      OBVIOUS
    <3> QED
      BY <3>1, <3>2 DEF Listed
  <2>2. CASE ~\E cause : Panic(cause)
    <3>1. Head(unregisterQ) \in Conns /\ Index!Remove(Head(unregisterQ)) /\ UNCHANGED <<candidates, next>>
      BY <1>2, <2>2 DEF HubUnregister, HubNilSession, HubPanic, HubInv, OneAtMost
    <3> QED
      BY <3>1, RemoveListed DEF HubInv, Listed
  <2> QED
    BY <2>1, <2>2
<1>3. CASE HubBroadcast
  <2> DEFINE s == Head(broadcastQ).audience
  <2>1. s \in Users \cup {"all"}
    <3>1. Head(broadcastQ) \in Messages
      BY <1>3 DEF HubBroadcast, FlowInv, Source
    <3> QED
      BY <3>1 DEF Messages
  <2>2. Index!StartBroadcast(s)
    BY <1>3 DEF HubBroadcast
  <2> QED
    BY <2>1, <2>2 DEF Index!StartBroadcast, HubInv, Listed
<1>4. CASE HubSkip \/ HubOmit \/ HubSend
  <2>1. Index!Deliver
    BY <1>4 DEF HubSkip, HubOmit, HubSend
  <2> QED
    BY <2>1 DEF Index!Deliver, HubInv, Listed
<1>5. CASE HubDrop
  <2> DEFINE v == Visited
             users == connectionsByUserId[UserOf[v]]
  <2>1. Index!Drop /\ ~RemovePanics(v) /\ v = candidates[next]
    BY <1>5 DEF HubDrop, Visited
  <2>2. v \in Conns
    BY <2>1 DEF Index!Drop, Index!InLoop, HubInv, Listed
  <2>3. v \in RegisteredConns =>
          connections[Len(connections)] \in Conns /\ users[Len(users)] \in Conns
    BY <2>1 DEF RemovePanics, LastOf, RegisteredConns, HubInv, Listed
  <2> HIDE DEF v
  <2>4. candidates' \in Seq(Conns)
    <3>1. candidates' = Index!CandidatesWithout(v) /\ candidates \in Seq(Conns)
      BY <2>1 DEF Index!Drop, HubInv, Listed
    <3>3. CASE v \notin RegisteredConns
      BY <3>1, <3>3 DEF Index!CandidatesWithout, Index!Registered, RegisteredConns
    <3>4. CASE v \in RegisteredConns
      <4>1. \E i, x : x \in Conns /\ candidates' = [candidates EXCEPT ![i] = x]
        BY <2>3, <3>1, <3>4 DEF Index!CandidatesWithout, Index!Registered, RegisteredConns
      <4> QED
        BY <3>1, <4>1, ReplacedType
    <3> QED
      BY <3>3, <3>4
  <2>5. next' = next + 1 /\ Index!Remove(v)
    BY <2>1 DEF Index!Drop
  <2> QED
    BY <2>2, <2>4, <2>5, RemoveListed DEF HubInv, Listed
<1>6. CASE HubLoopEnd
  <2>1. Index!Finish
    BY <1>6 DEF HubLoopEnd
  <2> QED
    BY <2>1 DEF Index!Finish, HubInv, Listed
<1>7. CASE HubCheck \/ HubGet \/ HubSetSession \/ HubMember
  <2>1. UNCHANGED <<index, loop>>
    BY <1>7, LookupLeaves
  <2> QED
    BY <2>1 DEF HubInv, Listed
<1>8. CASE HubStop \/ HubClose \/ HubPumpFinished \/ HubStopped
           \/ \E u \in Users : HubInvalidateUser(u) \/ HubOffline(u)
  <2>1. UNCHANGED <<index, loop>>
    BY <1>8 DEF HubStop, HubClose, HubPumpFinished, HubStopped, HubInvalidateUser, HubOffline
  <2> QED
    BY <2>1 DEF HubInv, Listed
<1> QED
  BY <1>1, <1>2, <1>3, <1>4, <1>5, <1>6, <1>7, <1>8 DEF HubStep

----------------------------------------------------------------------------
(* The steps of the others leave the index alone.                          *)

LEMMA OthersLeaveIndex ==
  ASSUME HubInv,
         \/ \E c \in Conns : HandlerStep(c) \/ WriterStep(c)
         \/ \E u \in Users : InvalidateStopped(u)
         \/ Environment
         \/ UNCHANGED vars
  PROVE  /\ UNCHANGED <<hub, Index!vars, panics, closed, scope>>
         /\ again' = {} => again = {}
         /\ OneAtMost(registerQ)' /\ OneAtMost(unregisterQ)'
<1> USE DEF channels, closing, hubIndex, outside, history, bounds, loop, index, Index!vars,
            Index!index, Index!loop
<1>1. CASE \E c \in Conns : RegisterSend(c) \/ UnregisterSend(c)
  <2> PICK c \in Conns : RegisterSend(c) \/ UnregisterSend(c)
    BY <1>1
  <2> QED
    BY DEF RegisterSend, UnregisterSend, HubInv, OneAtMost
<1>2. CASE \E c \in Conns : \/ Check(c) \/ Get(c) \/ SetSession(c) \/ RevokeStopped(c)
                            \/ SendMessage(c) \/ Serve(c) \/ PublishTyping(c) \/ ReadError(c)
                            \/ Join(c)
  BY <1>2 DEF Check, Get, SetSession, RevokeStopped, SendMessage, Serve, PublishTyping, ReadError,
              Join, HubInv, OneAtMost
<1>3. CASE \E c \in Conns : WriterStep(c)
  BY <1>3 DEF WriterStep, WriterReceive, WriterReturn, AuthTickerStop, HubInv, OneAtMost
<1>4. CASE \E u \in Users : InvalidateStopped(u)
  BY <1>4 DEF InvalidateStopped, HubInv, OneAtMost
<1>5. CASE Environment
  <2>1. ASSUME NEW c \in Conns, ReadRequest(c)
        PROVE  /\ UNCHANGED <<hub, Index!vars, panics, closed, scope, registerQ, unregisterQ>>
               /\ again' = {} => again = {}
    BY <2>1 DEF ReadRequest, Challenge
  <2>2. CASE ~\E c \in Conns : ReadRequest(c)
    BY <1>5, <2>2 DEF Environment, ConnectWithSession, ConnectWithoutSession, ClientClose,
         BecomeIdle, Login, Refill, Evict, ClearSessionCache, Publish, Stop, HubInv, OneAtMost
  <2> QED
    BY <2>1, <2>2 DEF HubInv, OneAtMost
<1>6. CASE UNCHANGED vars
  BY <1>6 DEF vars, HubInv, OneAtMost, OneAtMost
<1> QED
  BY <1>1, <1>2, <1>3, <1>4, <1>5, <1>6 DEF HandlerStep

----------------------------------------------------------------------------
(* Which steps end a handler, which finishes or dies of a panic, and which *)
(* bring it before the write of the expiry of a session.                   *)

Ends == {"panicked", "finished", "expire"}
USE DEF Ends

\* One connection gets another record.
LEMMA RecordCalm ==
  ASSUME Shape, NEW c \in Conns, NEW rec, conn' = [conn EXCEPT ![c] = rec],
         NEW end \in Ends, rec.handler[1] = end => At(c, end), NEW d \in Conns, At(d, end)'
  PROVE  At(d, end)
BY DEF Shape, At, Handler

LEMMA GotoCalm ==
  ASSUME Shape, NEW c \in Conns, NEW step, Goto(c, step), step[1] \notin Ends,
         NEW end \in Ends, NEW d \in Conns, At(d, end)'
  PROVE  At(d, end)
BY DEF Shape, At, Handler, Goto, Fields

\* A handler panics only when it sends to a channel that the hub has closed,
\* and finishes only when it has unregistered.
LEMMA HandlerCalm ==
  ASSUME Shape, NEW c \in Conns, HandlerStep(c), NEW end \in Ends, NEW d \in Conns, At(d, end)'
  PROVE  \/ At(d, end)
         \/ end = "panicked" /\ d \in closed
         \/ end = "finished" /\ d = c /\ UnregisterSend(c)
         \/ end = "expire" /\ d = c /\ At(c, "set") /\ SetSession(c)
<1>1. CASE RegisterSend(c) \/ Serve(c) \/ PublishTyping(c) \/ Join(c)
  <2>1. \/ Goto(c, <<"check", "hello">>) \/ Goto(c, <<"publish">>) \/ Goto(c, <<"send", "reply">>)
        \/ Goto(c, <<"revoke", "reply">>) \/ Goto(c, <<"unregister">>)
    BY <1>1 DEF RegisterSend, Serve, PublishTyping, Join
  <2>2. /\ <<"check", "hello">>[1] \notin Ends /\ <<"publish">>[1] \notin Ends
        /\ <<"send", "reply">>[1] \notin Ends /\ <<"revoke", "reply">>[1] \notin Ends
        /\ <<"unregister">>[1] \notin Ends
    OBVIOUS
  <2> QED
    BY <2>1, <2>2, GotoCalm
<1>2. CASE Check(c) \/ Get(c)
  <2> DEFINE what == Handler(c)[2]
             r == Rejected(conn[c], what)
  <2>1. \/ \E step : Goto(c, step) /\ step[1] \notin Ends
        \/ conn' = [conn EXCEPT ![c] = r]
    <3>1. CASE Check(c)
      <4>1. Authenticated(what)[1] \notin Ends /\ <<"get", what>>[1] \notin Ends
        BY DEF Authenticated
      <4> QED
        BY <3>1, <4>1 DEF Check
    <3>2. CASE Get(c)
      <4> DEFINE to == <<AfterGet(Found(c)), what>>
      <4>1. to[1] \notin Ends
        BY DEF AfterGet
      <4>2. Goto(c, to)
        BY <3>2 DEF Get
      <4> HIDE DEF to
      <4> QED
        BY <4>1, <4>2
    <3> QED
      BY <1>2, <3>1, <3>2
  <2>2. DOMAIN r = Fields /\ r.handler[1] \notin Ends
    BY RejectedRecord DEF Shape
  <2> HIDE DEF r
  <2> QED
    BY <2>1, <2>2, GotoCalm, RecordCalm
<1>3. CASE SetSession(c)
  <2> PICK rec : /\ conn' = [conn EXCEPT ![c] = rec]
                 /\ rec.handler[1] \notin {"panicked", "finished"}
                 /\ rec.handler[1] = "expire" => At(c, "set")
    BY <1>3, SetSessionRecord
  <2>1. CASE rec.handler[1] # end
    BY <2>1, RecordCalm
  <2>2. CASE d # c
    BY <2>2 DEF Shape, At, Handler
  <2>3. CASE rec.handler[1] = end /\ d = c
    BY <1>3, <2>3
  <2> QED
    BY <2>1, <2>2, <2>3
<1>4. CASE RevokeStopped(c)
  BY <1>4, AfterRevokeRecord, RecordCalm DEF RevokeStopped
<1>5. CASE ReadError(c)
  <2> DEFINE rec == [conn[c] EXCEPT !.handler = <<"join">>, !.endWritePump = TRUE]
  <2>1. conn' = [conn EXCEPT ![c] = rec]
    BY <1>5 DEF ReadError, Shape
  <2>2. rec.handler[1] \notin Ends
    BY DEF Shape, Fields
  <2> HIDE DEF rec
  <2> QED
    BY <2>1, <2>2, RecordCalm
<1>6. CASE SendMessage(c)
  <2>1. CASE c \in closed
    <3> DEFINE rec == [conn[c] EXCEPT !.handler = <<"panicked">>,
                                      !.wsOpen = @ /\ conn[c].writer = "none"]
    <3>1. conn' = [conn EXCEPT ![c] = rec]
      BY <1>6, <2>1 DEF SendMessage, Shape
    <3>2. rec.handler = <<"panicked">>
      BY DEF Shape, Fields
    <3> HIDE DEF rec
    <3>3. (d # c => At(d, end)) /\ (d = c => end = "panicked")
      BY <3>1, <3>2 DEF Shape, At, Handler
    <3> QED
      BY <2>1, <3>3
  <2>2. CASE c \notin closed
    <3> DEFINE on == IF Handler(c)[2] = "hello" THEN Registered(conn[c])
                     ELSE [conn[c] EXCEPT !.handler = <<"read">>]
               rec == [on EXCEPT !.send = Append(@, Message)]
    <3>1. conn' = [conn EXCEPT ![c] = rec]
      BY <1>6, <2>2 DEF SendMessage
    <3>2. DOMAIN on = Fields /\ on.handler[1] \notin Ends
      BY RegisteredRecord DEF Shape, Fields
    <3> HIDE DEF on
    <3>3. rec.handler[1] \notin Ends
      BY <3>2 DEF Fields
    <3> HIDE DEF rec
    <3> QED
      BY <3>1, <3>3, RecordCalm
  <2> QED
    BY <2>1, <2>2
<1>7. CASE UnregisterSend(c)
  <2>1. d # c => At(d, end)
    BY <1>7 DEF UnregisterSend, Goto, Shape, At, Handler
  <2>2. d = c => end = "finished"
    <3>1. Goto(c, <<"finished">>)
      BY <1>7 DEF UnregisterSend
    <3> QED
      BY <3>1 DEF Goto, Shape, At, Handler, Fields
  <2> QED
    BY <1>7, <2>1, <2>2
<1> QED
  BY <1>1, <1>2, <1>3, <1>4, <1>5, <1>6, <1>7 DEF HandlerStep

LEMMA WriterCalm ==
  ASSUME Shape, NEW c \in Conns, WriterStep(c), NEW end \in Ends, NEW d \in Conns, At(d, end)'
  PROVE  At(d, end)
<1> DEFINE tail == [conn[c] EXCEPT !.send = Tail(@)]
           gone == [conn[c] EXCEPT !.send = Tail(@), !.writer = "done"]
           done == [conn[c] EXCEPT !.writer = "done", !.wsOpen = FALSE]
           run  == [conn[c] EXCEPT !.writer = "run"]
<1>1. \E rec \in {tail, gone, done, run} : conn' = [conn EXCEPT ![c] = rec]
  <2>1. CASE WriterReceive(c)
    <3>1. conn' = [conn EXCEPT ![c] = tail] \/ conn' = [conn EXCEPT ![c] = gone]
      BY <2>1 DEF WriterReceive, Shape
    <3> HIDE DEF tail, gone
    <3> QED
      BY <3>1
  <2>2. CASE WriterReturn(c)
    <3>1. conn' = [conn EXCEPT ![c] = done]
      BY <2>2 DEF WriterReturn, WriterEnd, Shape
    <3> HIDE DEF done
    <3> QED
      BY <3>1
  <2>3. CASE AuthTickerStop(c)
    <3>1. conn' = [conn EXCEPT ![c] = run]
      BY <2>3 DEF AuthTickerStop, Shape
    <3> HIDE DEF run
    <3> QED
      BY <3>1
  <2> QED
    BY <2>1, <2>2, <2>3 DEF WriterStep
<1>2. \A rec \in {tail, gone, done, run} : rec.handler = conn[c].handler
  BY DEF Shape, Fields
<1> HIDE DEF tail, gone, done, run
<1> QED
  BY <1>1, <1>2, RecordCalm DEF At, Handler

LEMMA EnvironmentCalm ==
  ASSUME Shape, Environment, NEW end \in Ends, NEW d \in Conns, At(d, end)'
  PROVE  At(d, end)
<1>1. CASE \E c \in Conns : \/ ConnectWithSession(c) \/ ConnectWithoutSession(c) \/ ClientClose(c)
  <2> PICK c \in Conns : \/ ConnectWithSession(c) \/ ConnectWithoutSession(c) \/ ClientClose(c)
    BY <1>1
  <2> DEFINE with == [conn[c] EXCEPT !.handler = <<"register">>, !.token = TRUE, !.held = TRUE,
                                      !.fresh = TRUE]
             without == [conn[c] EXCEPT !.handler = <<"read">>, !.writer = "auth"]
             ended == [conn[c] EXCEPT !.wsOpen = FALSE]
  <2>1. \/ conn' = [conn EXCEPT ![c] = with] \/ conn' = [conn EXCEPT ![c] = without]
        \/ conn' = [conn EXCEPT ![c] = ended]
    BY DEF ConnectWithSession, ConnectWithoutSession, ClientClose, Shape
  <2>2. /\ with.handler[1] \notin Ends /\ without.handler[1] \notin Ends
        /\ ended.handler = conn[c].handler
    BY DEF Shape, Fields
  <2> HIDE DEF with, without, ended
  <2> QED
    BY <2>1, <2>2, RecordCalm DEF At, Handler
<1>2. CASE \E c \in Conns : ReadRequest(c)
  <2> PICK c \in Conns : ReadRequest(c)
    BY <1>2
  <2> DEFINE registering == [conn[c] EXCEPT !.token = TRUE, !.held = TRUE,
                                             !.handler = <<"register">>]
             ended == [conn[c] EXCEPT !.wsOpen = FALSE]
  <2>1. \/ UNCHANGED conn
        \/ conn' = [conn EXCEPT ![c] = registering] \/ conn' = [conn EXCEPT ![c] = ended]
        \/ Goto(c, <<"revoke", "close">>)
        \/ \E what \in Requests : Goto(c, <<"check", what>>)
    <3>1. CASE Challenge(c)
      BY <3>1 DEF Challenge, Shape
    <3>2. CASE \E what \in Requests \ {"challenge"} : Goto(c, <<"check", what>>)
      BY <3>2
    <3> QED
      BY <3>1, <3>2 DEF ReadRequest
  <2>2. registering.handler[1] \notin Ends /\ ended.handler = conn[c].handler
    BY DEF Shape, Fields
  <2>3. <<"revoke", "close">>[1] \notin Ends /\ \A what : <<"check", what>>[1] \notin Ends
    OBVIOUS
  <2> HIDE DEF registering, ended
  <2>4. CASE conn' = [conn EXCEPT ![c] = registering] \/ conn' = [conn EXCEPT ![c] = ended]
    BY <2>2, <2>4, RecordCalm DEF At, Handler
  <2>5. CASE Goto(c, <<"revoke", "close">>) \/ \E what \in Requests : Goto(c, <<"check", what>>)
    BY <2>3, <2>5, GotoCalm
  <2>6. CASE UNCHANGED conn
    BY <2>6 DEF At, Handler
  <2> QED
    BY <2>1, <2>4, <2>5, <2>6
<1>3. CASE \/ \E c \in Conns : BecomeIdle(c) \/ Login(c) \/ Refill(c) \/ Evict(c)
           \/ \E u \in Users, revoked \in Revocations : ClearSessionCache(u, revoked)
           \/ \E audience \in Audiences : Publish(audience)
           \/ Stop
  <2>1. UNCHANGED conn
    BY <1>3 DEF BecomeIdle, Login, Refill, Evict, ClearSessionCache, Publish, Stop
  <2> QED
    BY <2>1 DEF At, Handler
<1> QED
  BY <1>1, <1>2, <1>3 DEF Environment

LEMMA HubCalm ==
  ASSUME Shape, HubStep, NEW end \in Ends, NEW d \in Conns, At(d, end)'
  PROVE  At(d, end)
<1>1. CASE \/ HubRegister \/ HubUnregister \/ HubBroadcast \/ HubStop \/ HubCheck \/ HubGet
           \/ HubNilSession \/ HubOmit \/ HubDrop \/ HubPanic \/ HubLoopEnd \/ HubPumpFinished
           \/ HubStopped \/ \E u \in Users : HubOffline(u)
  <2>1. UNCHANGED conn
    BY <1>1 DEF HubRegister, HubUnregister, HubBroadcast, HubStop, HubCheck, HubGet, HubNilSession,
                HubOmit, HubDrop, HubPanic, HubLoopEnd, HubPumpFinished, HubStopped, HubOffline
  <2> QED
    BY <2>1 DEF At, Handler
<1>2. CASE HubSetSession \/ HubSkip \/ HubMember \/ HubSend \/ HubClose
  <2>1. conn'[d].handler = conn[d].handler
    <3> DEFINE v == Visited
               w == Head(toClose)
    <3>1. DOMAIN conn[d] = Fields /\ d \in DOMAIN conn
      BY DEF Shape
    <3>2. CASE HubSetSession \/ HubSkip
      <4>1. UNCHANGED conn \/ \E step \in SessionSteps : conn' = [conn EXCEPT ![v] = Written(@, step)]
        BY <3>2 DEF HubSetSession, HubSkip, SessionSteps, HubAt
      <4>2. \A step \in SessionSteps : Written(conn[d], step).handler = conn[d].handler
        BY <3>1, WrittenRecord
      <4> QED
        BY <3>1, <4>1, <4>2
    <3>3. CASE HubMember \/ HubSend \/ HubClose
      <4>1. \/ UNCHANGED conn
            \/ conn' = [conn EXCEPT ![v].held = TRUE]
            \/ conn' = [conn EXCEPT ![v].send = Append(@, event)]
            \/ conn' = [conn EXCEPT ![w].wsOpen = FALSE, ![w].endWritePump = TRUE]
        BY <3>3 DEF HubMember, HubSend, HubClose
      <4> HIDE DEF v, w
      <4> QED
        BY <3>1, <4>1 DEF Fields
    <3> QED
      BY <1>2, <3>2, <3>3
  <2> QED
    BY <2>1 DEF At, Handler
<1>3. CASE \E u \in Users : HubInvalidateUser(u)
  <2> PICK u \in Users : HubInvalidateUser(u)
    BY <1>3
  <2>1. ASSUME NEW cs, conn' = Forget(cs, u), DOMAIN cs[d] = Fields
        PROVE  conn'[d].handler = cs[d].handler
    <3> DEFINE held == cs[d].held /\ d \notin ForUser(u)
               fresh == cs[d].fresh /\ d \notin ForUser(u)
    <3>1. conn'[d] = [cs[d] EXCEPT !.held = held, !.fresh = fresh]
      BY <2>1 DEF Forget
    <3> HIDE DEF held, fresh
    <3> QED
      BY <2>1, <3>1 DEF Fields
  <2>2. CASE conn' = Forget(conn, u)
    BY <2>1, <2>2 DEF At, Handler, Shape
  <2>3. ASSUME NEW c \in Conns, conn' = Forget([conn EXCEPT ![c] = AfterRevoke(c)], u)
        PROVE  At(d, end)
    <3> DEFINE cs == [conn EXCEPT ![c] = AfterRevoke(c)]
    <3>1. /\ DOMAIN cs[d] = Fields
          /\ cs[d].handler[1] = end => conn[d].handler[1] = end
      BY AfterRevokeRecord DEF Shape
    <3>2. conn' = Forget(cs, u)
      BY <2>3
    <3> HIDE DEF cs
    <3> QED
      BY <2>1, <3>1, <3>2 DEF At, Handler
  <2> QED
    BY <2>2, <2>3 DEF HubInvalidateUser
<1> QED
  BY <1>1, <1>2, <1>3 DEF HubStep

----------------------------------------------------------------------------
(* The theorems.                                                           *)

LEMMA InitHub == Init => HubInv
<1> SUFFICES ASSUME Init  PROVE HubInv
  OBVIOUS
<1>1. registerQ = <<>> /\ unregisterQ = <<>> /\ panics = {} /\ Index!Init
  BY DEF Init
<1>2. IndexProof!IndexInv
  BY <1>1, SameInit, IndexProof!InitIndexInv, UserAssumption
  DEF IndexProof!UserOfAssumption, IndexProof!ScopeAssumption
<1>3. PanickedClosed
  BY DEF Init, PanickedClosed, At, Handler
<1>4. Listed
  BY <1>1 DEF Index!Init, Listed
<1> QED
  BY <1>1, <1>2, <1>3, <1>4 DEF HubInv, OneAtMost, Index!Init

\* Whoever takes a step, if it registers no connection again and the hub does
\* not panic on a session.
LEMMA IndexStep ==
  ASSUME FlowInv, HubInv, [Next]_vars, again' = {}, ~HubNilSession
  PROVE  again = {} /\ panics' = panics /\ [Index!Next]_(Index!vars)
<1>1. CASE HubStep
  BY <1>1, HubIndexStep
<1>2. CASE ~HubStep
  <2>1. UNCHANGED <<hub, Index!vars, panics, closed, scope>> /\ (again' = {} => again = {})
    BY <1>2, OthersLeaveIndex DEF Next
  <2> QED
    BY <2>1
<1> QED
  BY <1>1, <1>2

\* Who ends, and of what.
LEMMA CalmStep ==
  ASSUME Shape, [Next]_vars, NEW end \in Ends, NEW d \in Conns, At(d, end)'
  PROVE  \/ At(d, end)
         \/ end = "panicked" /\ d \in closed
         \/ end = "finished" /\ UnregisterSend(d)
         \/ end = "expire" /\ At(d, "set") /\ SetSession(d)
<1>1. CASE UNCHANGED vars
  BY <1>1 DEF vars, At, Handler
<1>2. CASE \E u \in Users : InvalidateStopped(u)
  BY <1>2 DEF InvalidateStopped, At, Handler
<1> QED
  BY <1>1, <1>2, HandlerCalm, WriterCalm, EnvironmentCalm, HubCalm DEF Next

LEMMA NextHub ==
  ASSUME FlowInv, HubInv, [Next]_vars
  PROVE  HubInv'
<1>1. /\ OneAtMost(registerQ)' /\ OneAtMost(unregisterQ)'
      /\ hub' = "select" => scope' = "none"
  BY OthersLeaveIndex, HubQueues DEF Next, HubInv
<1>2. ASSUME again' = {}
      PROVE  /\ again = {} /\ IndexProof!IndexInv' /\ "index" \notin panics'
             /\ closed \subseteq closed'
  <2>1. CASE HubNilSession
    <3>1. again = {} /\ panics' = panics \cup {"session"} /\ closed' = closed
      BY <1>2, <2>1 DEF HubNilSession, Panic
    <3> QED
      BY <2>1, <3>1, PanicIndexInv DEF HubInv
  <2>2. CASE ~HubNilSession
    <3>1. again = {} /\ panics' = panics /\ [Index!Next]_(Index!vars)
      BY <1>2, <2>2, IndexStep
    <3>2. closed \subseteq closed'
      BY <3>1 DEF Index!Next, Index!Register, Index!Unregister, Index!StartBroadcast,
                  Index!Deliver, Index!Drop, Index!Finish, Index!vars
    <3> QED
      BY <3>1, <3>2, KeepIndexInv DEF HubInv
  <2> QED
    BY <2>1, <2>2
<1>3. again' = {} => PanickedClosed'
  BY <1>2, CalmStep DEF HubInv, PanickedClosed, FlowInv
<1>4. Listed'
  <2>1. CASE HubStep
    BY <2>1, HubListed
  <2>2. CASE ~HubStep
    <3>1. UNCHANGED <<connections, connectionsByUserId, connectionIndexes, candidates, next>>
      BY <2>2, OthersLeaveIndex DEF Next, Index!vars, Index!index, Index!loop
    <3> QED
      BY <3>1 DEF HubInv, Listed
  <2> QED
    BY <2>1, <2>2
<1> QED
  BY <1>1, <1>2, <1>3, <1>4 DEF HubInv

\* As long as no connection is authenticated or registered again the index of
\* the hub keeps what HubConnectionIndex promises, through panics on a session
\* too, and the hub does not panic in it.
THEOREM HubInvariant == Spec => []HubInv
<1>1. FlowInv /\ HubInv /\ [Next]_vars => HubInv'
  BY NextHub
<1> QED
  BY InitHub, <1>1, FlowInvariant, PTL DEF Spec

----------------------------------------------------------------------------
(* The sessions that somebody relies on.                                   *)

\* Nobody relies on more than before, and no session is lost.
LEMMA BackedKept ==
  ASSUME SessionsBacked, torn \subseteq torn', panics' = panics,
         \A d \in Conns : HubRelies(d)' => HubRelies(d),
         \A d \in Conns : At(d, "expire")' => At(d, "expire"),
         \A d \in Conns : (conn[d].held => conn'[d].held) /\ (conn'[d].fresh => conn[d].fresh)
  PROVE  SessionsBacked'
BY DEF SessionsBacked, Backed

\* One connection gets another record with the session and expiry it has.
LEMMA SameFields ==
  ASSUME Shape, NEW c \in Conns, NEW rec, conn' = [conn EXCEPT ![c] = rec],
         rec.held = conn[c].held, rec.fresh = conn[c].fresh, NEW d \in Conns
  PROVE  conn'[d].held = conn[d].held /\ conn'[d].fresh = conn[d].fresh
BY DEF Shape

LEMMA GotoFields ==
  ASSUME Shape, NEW c \in Conns, NEW step, Goto(c, step), NEW d \in Conns
  PROVE  conn'[d].held = conn[d].held /\ conn'[d].fresh = conn[d].fresh
BY DEF Shape, Goto, Fields

LEMMA HandlerFields ==
  ASSUME Shape, NEW c \in Conns, HandlerStep(c), ~SetSession(c), NEW d \in Conns
  PROVE  conn'[d].held = conn[d].held /\ conn'[d].fresh = conn[d].fresh
<1>1. CASE \E step : Goto(c, step)
  BY <1>1, GotoFields
<1>2. CASE Check(c)
  BY <1>1, <1>2, RejectedRecord, SameFields DEF Check, Shape
<1>3. CASE RevokeStopped(c)
  BY <1>3, AfterRevokeRecord, SameFields DEF RevokeStopped
<1>4. CASE ReadError(c)
  <2> DEFINE rec == [conn[c] EXCEPT !.handler = <<"join">>, !.endWritePump = TRUE]
  <2>1. conn' = [conn EXCEPT ![c] = rec]
    BY <1>4 DEF ReadError, Shape
  <2>2. rec.held = conn[c].held /\ rec.fresh = conn[c].fresh
    BY DEF Shape, Fields
  <2> HIDE DEF rec
  <2> QED
    BY <2>1, <2>2, SameFields
<1>5. CASE SendMessage(c) /\ c \in closed
  <2> DEFINE rec == [conn[c] EXCEPT !.handler = <<"panicked">>,
                                    !.wsOpen = @ /\ conn[c].writer = "none"]
  <2>1. conn' = [conn EXCEPT ![c] = rec]
    BY <1>5 DEF SendMessage, Shape
  <2>2. rec.held = conn[c].held /\ rec.fresh = conn[c].fresh
    BY DEF Shape, Fields
  <2> HIDE DEF rec
  <2> QED
    BY <2>1, <2>2, SameFields
<1>6. CASE SendMessage(c) /\ c \notin closed
  <2> DEFINE on == IF Handler(c)[2] = "hello" THEN Registered(conn[c])
                   ELSE [conn[c] EXCEPT !.handler = <<"read">>]
             rec == [on EXCEPT !.send = Append(@, Message)]
  <2>1. conn' = [conn EXCEPT ![c] = rec]
    BY <1>6 DEF SendMessage
  <2>2. DOMAIN on = Fields /\ on.held = conn[c].held /\ on.fresh = conn[c].fresh
    BY RegisteredRecord DEF Shape, Fields
  <2> HIDE DEF on
  <2>3. rec.held = on.held /\ rec.fresh = on.fresh
    BY <2>2 DEF Fields
  <2> HIDE DEF rec
  <2> QED
    BY <2>1, <2>2, <2>3, SameFields
<1> QED
  BY <1>1, <1>2, <1>3, <1>4, <1>5, <1>6
  DEF HandlerStep, RegisterSend, Get, Serve, PublishTyping, Join, UnregisterSend

LEMMA WriterFields ==
  ASSUME Shape, NEW c \in Conns, WriterStep(c), NEW d \in Conns
  PROVE  conn'[d].held = conn[d].held /\ conn'[d].fresh = conn[d].fresh
<1> DEFINE tail == [conn[c] EXCEPT !.send = Tail(@)]
           gone == [conn[c] EXCEPT !.send = Tail(@), !.writer = "done"]
           done == [conn[c] EXCEPT !.writer = "done", !.wsOpen = FALSE]
           run  == [conn[c] EXCEPT !.writer = "run"]
<1>1. \/ conn' = [conn EXCEPT ![c] = tail] \/ conn' = [conn EXCEPT ![c] = gone]
      \/ conn' = [conn EXCEPT ![c] = done] \/ conn' = [conn EXCEPT ![c] = run]
  <2>1. CASE WriterReceive(c)
    BY <2>1 DEF WriterReceive, Shape
  <2>2. CASE WriterReturn(c)
    BY <2>2 DEF WriterReturn, WriterEnd, Shape
  <2>3. CASE AuthTickerStop(c)
    BY <2>3 DEF AuthTickerStop, Shape
  <2> QED
    BY <2>1, <2>2, <2>3 DEF WriterStep
<1>2. \A rec \in {tail, gone, done, run} : rec.held = conn[c].held /\ rec.fresh = conn[c].fresh
  BY DEF Shape, Fields
<1> HIDE DEF tail, gone, done, run
<1> QED
  BY <1>1, <1>2, SameFields

\* The expiry of a connection is set together with its session.
LEMMA EnvironmentFields ==
  ASSUME Shape, Environment, NEW d \in Conns
  PROVE  \/ (conn[d].held => conn'[d].held) /\ (conn'[d].fresh => conn[d].fresh)
         \/ conn'[d].held
<1>1. CASE \E c \in Conns : \/ ConnectWithSession(c) \/ ConnectWithoutSession(c) \/ ClientClose(c)
  <2> PICK c \in Conns : \/ ConnectWithSession(c) \/ ConnectWithoutSession(c) \/ ClientClose(c)
    BY <1>1
  <2> DEFINE with == [conn[c] EXCEPT !.handler = <<"register">>, !.token = TRUE, !.held = TRUE,
                                      !.fresh = TRUE]
             without == [conn[c] EXCEPT !.handler = <<"read">>, !.writer = "auth"]
             ended == [conn[c] EXCEPT !.wsOpen = FALSE]
  <2>1. \/ conn' = [conn EXCEPT ![c] = with] \/ conn' = [conn EXCEPT ![c] = without]
        \/ conn' = [conn EXCEPT ![c] = ended]
    BY DEF ConnectWithSession, ConnectWithoutSession, ClientClose, Shape
  <2>2. /\ with.held /\ without.held = conn[c].held /\ without.fresh = conn[c].fresh
        /\ ended.held = conn[c].held /\ ended.fresh = conn[c].fresh
    BY DEF Shape, Fields
  <2> HIDE DEF with, without, ended
  <2>3. CASE conn' = [conn EXCEPT ![c] = with]
    BY <2>2, <2>3 DEF Shape
  <2> QED
    BY <2>1, <2>2, <2>3, SameFields
<1>2. CASE \E c \in Conns : ReadRequest(c)
  <2> PICK c \in Conns : ReadRequest(c)
    BY <1>2
  <2> DEFINE registering == [conn[c] EXCEPT !.token = TRUE, !.held = TRUE,
                                             !.handler = <<"register">>]
             ended == [conn[c] EXCEPT !.wsOpen = FALSE]
  <2>1. \/ UNCHANGED conn
        \/ conn' = [conn EXCEPT ![c] = registering] \/ conn' = [conn EXCEPT ![c] = ended]
        \/ \E step : Goto(c, step)
    BY DEF ReadRequest, Challenge, Shape
  <2>2. /\ registering.held
        /\ ended.held = conn[c].held /\ ended.fresh = conn[c].fresh
    BY DEF Shape, Fields
  <2> HIDE DEF registering, ended
  <2>3. CASE conn' = [conn EXCEPT ![c] = registering]
    BY <2>2, <2>3 DEF Shape
  <2> QED
    BY <2>1, <2>2, <2>3, SameFields, GotoFields
<1>3. CASE \/ \E c \in Conns : BecomeIdle(c) \/ Login(c) \/ Refill(c) \/ Evict(c)
           \/ \E u \in Users, revoked \in Revocations : ClearSessionCache(u, revoked)
           \/ \E audience \in Audiences : Publish(audience)
           \/ Stop
  BY <1>3 DEF BecomeIdle, Login, Refill, Evict, ClearSessionCache, Publish, Stop
<1> QED
  BY <1>1, <1>2, <1>3 DEF Environment

\* Everybody but the hub.
LEMMA OthersBacked ==
  ASSUME Shape, HubInv, SessionsBacked, [Next]_vars, ~HubStep
  PROVE  SessionsBacked'
<1>1. UNCHANGED <<hub, candidates, next, panics>>
  BY OthersLeaveIndex DEF Next, Index!vars, Index!loop
<1>2. \A d \in Conns : HubRelies(d)' => HubRelies(d)
  BY <1>1 DEF HubRelies
<1>3. CASE \E c \in Conns : SetSession(c)
  <2> PICK c \in Conns : SetSession(c)
    BY <1>3
  <2> DEFINE step == Handler(c)[1]
             w == Written(conn[c], step)
  <2>1. PICK rec : /\ conn' = [conn EXCEPT ![c] = rec]
                   /\ rec.fresh = w.fresh /\ rec.held = w.held
                   /\ rec.handler[1] = "expire" => At(c, "set")
    BY SetSessionRecord
  <2>2. /\ step \in SessionSteps /\ DOMAIN conn[c] = Fields
        /\ torn' = IF step = "unset" /\ (conn[c].fresh \/ HubRelies(c)) THEN torn \cup {c} ELSE torn
    BY DEF SetSession, Tear, Shape
  <2>3. /\ step = "set" => w.held
        /\ step = "expire" => w.held = conn[c].held
        /\ step = "untoken" => w.held = conn[c].held /\ w.fresh = conn[c].fresh
        /\ step = "unset" => ~w.held /\ w.fresh = conn[c].fresh
        /\ step = "unexpire" => ~w.fresh /\ w.held = conn[c].held
    BY <2>2 DEF Written, Fields
  <2> HIDE DEF w, step
  <2>4. Backed(c)'
    <3>1. At(c, "expire")' => step = "set"
      BY <2>1 DEF Shape, At, Handler, step
    <3>2. step = "expire" => At(c, "expire")
      BY DEF At, step
    <3>3. /\ conn'[c].held = w.held /\ conn'[c].fresh = w.fresh /\ Backed(c)
          /\ HubRelies(c)' => HubRelies(c)
      BY <1>2, <2>1 DEF Shape, SessionsBacked
    <3> QED
      BY <2>2, <2>3, <3>1, <3>2, <3>3 DEF Backed, SessionSteps
  <2>5. ASSUME NEW d \in Conns, d # c  PROVE Backed(d)'
    <3>1. conn'[d] = conn[d] /\ torn \subseteq torn' /\ Backed(d)
      BY <2>1, <2>2, <2>5 DEF Shape, SessionsBacked
    <3> QED
      BY <1>2, <3>1 DEF Backed, At, Handler
  <2> QED
    BY <1>1, <2>2, <2>4, <2>5 DEF SessionsBacked
<1>4. CASE ~\E c \in Conns : SetSession(c)
  <2>1. UNCHANGED torn
    <3>1. ASSUME NEW c \in Conns, HandlerStep(c)  PROVE UNCHANGED torn
      BY <1>4, <3>1 DEF HandlerStep, RegisterSend, Check, Get, RevokeStopped, SendMessage, Serve,
                PublishTyping, ReadError, Join, UnregisterSend, history
    <3>2. ASSUME NEW c \in Conns, WriterStep(c)  PROVE UNCHANGED torn
      BY <3>2 DEF WriterStep, WriterReceive, WriterReturn, AuthTickerStop, history
    <3>3. CASE Environment
      BY <3>3 DEF Environment, ConnectWithSession, ConnectWithoutSession, ReadRequest, ClientClose,
           BecomeIdle, Login, Refill, Evict, ClearSessionCache, Publish, Stop, history
    <3>4. CASE UNCHANGED vars \/ \E u \in Users : InvalidateStopped(u)
      BY <3>4 DEF vars, InvalidateStopped, history
    <3> QED
      BY <3>1, <3>2, <3>3, <3>4 DEF Next
  <2>2. \A d \in Conns : At(d, "expire")' => At(d, "expire")
    BY <1>4, CalmStep
  <2>3. ASSUME NEW d \in Conns
        PROVE  \/ (conn[d].held => conn'[d].held) /\ (conn'[d].fresh => conn[d].fresh)
               \/ conn'[d].held
    <3>1. CASE UNCHANGED vars \/ \E u \in Users : InvalidateStopped(u)
      BY <3>1 DEF vars, InvalidateStopped
    <3> QED
      BY <1>4, <3>1, HandlerFields, WriterFields, EnvironmentFields DEF Next
  <2> QED
    BY <1>1, <1>2, <2>1, <2>2, <2>3 DEF SessionsBacked, Backed
<1> QED
  BY <1>3, <1>4

LEMMA HubBacked ==
  ASSUME FlowInv, HubInv, SessionsBacked, HubStep
  PROVE  SessionsBacked'
<1> USE DEF channels, closing, hubIndex, history, loop
<1>1. Shape /\ (next <= Len(candidates) => Visited \in Conns)
  BY DEF FlowInv, HubInv, Listed, Visited
<1> DEFINE v == Visited
<1>2. CASE HubSetSession
  <2>0. PICK c \in Conns : c = Visited /\ HubAt(hub)
    BY <1>1, <1>2 DEF HubSetSession, HubAt
  <2> DEFINE w == Written(conn[c], hub)
  <2>1. /\ c \in Conns /\ hub \in SessionSteps \ {"unexpire"} /\ UNCHANGED <<candidates, next, panics>>
        /\ conn' = [conn EXCEPT ![c] = w]
        /\ hub' = IF hub = "expire" THEN "decide" ELSE FollowedBy[hub]
        /\ torn' = IF hub = "unset" /\ (conn[c].fresh \/ At(c, "expire")) THEN torn \cup {c} ELSE torn
        /\ DOMAIN conn[c] = Fields
    BY <1>1, <1>2, <2>0 DEF HubSetSession, HubAt, Tear, Shape
  <2>2. /\ hub = "set" => w.held
        /\ hub = "expire" => w.held = conn[c].held
        /\ hub = "untoken" => w.held = conn[c].held /\ w.fresh = conn[c].fresh
        /\ hub = "unset" => ~w.held /\ w.fresh = conn[c].fresh
        /\ w.handler = conn[c].handler
    BY <2>1 DEF Written, Fields, SessionSteps
  <2>3. hub' \in {"expire", "decide"} => hub \in {"set", "expire"}
    BY <2>1 DEF FollowedBy, SessionSteps
  <2>4. \A d \in Conns : HubRelies(d)' => d = c
    BY <2>0, <2>1 DEF HubRelies, Visited
  <2>5. hub = "expire" => HubRelies(c)
    BY <2>0 DEF HubAt, HubRelies, Visited
  <2>6. hub \in {"set", "expire", "untoken", "unset"}
    BY <2>1 DEF SessionSteps
  <2> HIDE DEF w
  <2>7. Backed(c)'
    <3>1. conn'[c].held = w.held /\ conn'[c].fresh = w.fresh /\ conn'[c].handler = conn[c].handler
      <4>1. conn'[c] = w
        BY <1>1, <2>1 DEF Shape
      <4>2. w.handler = conn[c].handler
        BY <2>2
      <4> QED
        BY <4>1, <4>2
    <3>2. (At(c, "expire")' <=> At(c, "expire")) /\ Backed(c) /\ torn \subseteq torn'
      BY <2>1, <3>1 DEF At, Handler, SessionsBacked
    <3>3. HubRelies(c)' => hub \in {"set", "expire"}
      BY <2>3 DEF HubRelies
    <3>4. hub = "unset" => \/ c \in torn'
                           \/ ~conn[c].fresh /\ ~At(c, "expire")
      BY <2>1
    <3> QED
      BY <2>2, <2>5, <2>6, <3>1, <3>2, <3>3, <3>4 DEF Backed
  <2>8. ASSUME NEW d \in Conns, d # c  PROVE Backed(d)'
    <3>1. conn'[d] = conn[d] /\ torn \subseteq torn' /\ Backed(d)
      BY <2>1, <2>8 DEF SessionsBacked
    <3> QED
      BY <2>4, <2>8, <3>1 DEF Backed, At, Handler
  <2> QED
    BY <2>1, <2>7, <2>8 DEF SessionsBacked
<1>3. CASE HubMember
  <2>1. /\ v \in Conns /\ UNCHANGED <<candidates, next, panics, torn>>
        /\ UNCHANGED conn \/ conn' = [conn EXCEPT ![v].held = TRUE]
        /\ hub' \in {"member", "invalidating"}
    BY <1>1, <1>3 DEF HubMember, IsAuthenticated, HubAt
  <2>2. \A d \in Conns : ~HubRelies(d)'
    BY <2>1 DEF HubRelies
  <2>3. \A d \in Conns : (conn[d].held => conn'[d].held) /\ (conn'[d].fresh => conn[d].fresh)
    BY <1>1, <2>1 DEF Shape, Fields
  <2>4. \A d \in Conns : At(d, "expire")' => At(d, "expire")
    BY <1>1, HubCalm
  <2> QED
    BY <2>1, <2>2, <2>3, <2>4, BackedKept
<1>4. CASE HubNilSession
  <2>1. /\ v \in Conns /\ ~conn[v].held /\ hub' = "select" /\ UNCHANGED <<conn, torn>>
        /\ panics' = panics \cup {"session"}
        /\ conn[v].fresh \/ HubRelies(v)
    BY <1>1, <1>4 DEF HubNilSession, Panic, IsAuthenticated, HubAt, HubRelies, Visited
  <2>2. v \in torn
    BY <2>1 DEF SessionsBacked, Backed
  <2>3. \A d \in Conns : Backed(d)'
    BY <2>1 DEF SessionsBacked, Backed, HubRelies, At, Handler
  <2> QED
    BY <2>1, <2>2, <2>3 DEF SessionsBacked
<1>5. CASE \E u \in Users : HubInvalidateUser(u)
  <2> PICK u \in Users : HubInvalidateUser(u)
    BY <1>5
  <2>1. /\ UNCHANGED <<hub, panics>> /\ hub = "select"
        /\ torn' = torn \cup {c \in ForUser(u) : At(c, "expire")}
        /\ \/ conn' = Forget(conn, u)
           \/ \E c \in Conns : conn' = Forget([conn EXCEPT ![c] = AfterRevoke(c)], u)
    BY DEF HubInvalidateUser
  <2> DEFINE Kept(d) == (conn'[d].fresh => conn[d].fresh) /\ (conn[d].held => conn'[d].held)
  <2>2. ASSUME NEW cs, DOMAIN cs = Conns, NEW d \in Conns, DOMAIN cs[d] = Fields, conn' = Forget(cs, u),
               cs[d].fresh = conn[d].fresh, cs[d].held = conn[d].held
        PROVE  /\ d \in ForUser(u) => ~conn'[d].fresh
               /\ d \notin ForUser(u) => Kept(d)
    <3> DEFINE held == cs[d].held /\ d \notin ForUser(u)
               fresh == cs[d].fresh /\ d \notin ForUser(u)
    <3>1. conn'[d] = [cs[d] EXCEPT !.held = held, !.fresh = fresh]
      BY <2>2 DEF Forget
    <3>2. conn'[d].held = held /\ conn'[d].fresh = fresh
      BY <2>2, <3>1 DEF Fields
    <3> QED
      BY <2>2, <3>2
  <2>3. ASSUME NEW d \in Conns
        PROVE  /\ d \in ForUser(u) => ~conn'[d].fresh
               /\ d \notin ForUser(u) => Kept(d)
    <3>1. CASE conn' = Forget(conn, u)
      BY <1>1, <2>2, <3>1 DEF Shape
    <3>2. ASSUME NEW c \in Conns, conn' = Forget([conn EXCEPT ![c] = AfterRevoke(c)], u)
          PROVE  /\ d \in ForUser(u) => ~conn'[d].fresh
                 /\ d \notin ForUser(u) => Kept(d)
      <4> DEFINE cs == [conn EXCEPT ![c] = AfterRevoke(c)]
      <4>1. /\ DOMAIN cs = Conns /\ DOMAIN cs[d] = Fields
            /\ cs[d].fresh = conn[d].fresh /\ cs[d].held = conn[d].held
        BY <1>1, AfterRevokeRecord DEF Shape
      <4>2. conn' = Forget(cs, u)
        BY <3>2
      <4> HIDE DEF cs
      <4> QED
        BY <2>2, <4>1, <4>2
    <3> QED
      BY <2>1, <3>1, <3>2
  <2>4. ASSUME NEW d \in Conns  PROVE Backed(d)'
    <3>1. (At(d, "expire")' => At(d, "expire")) /\ ~HubRelies(d)' /\ Backed(d)
      BY <1>1, <2>1, HubCalm DEF HubRelies, SessionsBacked
    <3>2. d \in ForUser(u) /\ At(d, "expire") => d \in torn'
      BY <2>1
    <3>3. torn \subseteq torn'
      BY <2>1
    <3>4. CASE d \in ForUser(u)
      BY <2>3, <3>1, <3>2, <3>4 DEF Backed
    <3>5. CASE d \notin ForUser(u)
      <4>1. Kept(d)
        BY <2>3, <3>5
      <4> QED
        BY <3>1, <3>3, <4>1 DEF Backed
    <3> QED
      BY <3>4, <3>5
  <2>5. torn \subseteq torn'
    BY <2>1
  <2> QED
    BY <2>1, <2>4, <2>5 DEF SessionsBacked
<1>6. CASE \/ HubCheck \/ HubGet \/ HubSkip \/ HubOmit \/ HubSend \/ HubDrop \/ HubPanic
           \/ HubRegister \/ HubUnregister \/ HubBroadcast \/ HubStop \/ HubLoopEnd
           \/ HubClose \/ HubPumpFinished \/ HubStopped \/ \E u \in Users : HubOffline(u)
  <2>1. UNCHANGED torn /\ ("session" \in panics' => "session" \in panics)
    BY <1>6 DEF HubCheck, HubGet, HubSkip, HubOmit, HubSend, HubDrop, HubPanic, HubRegister,
                HubUnregister, HubBroadcast, HubStop, HubLoopEnd, HubClose, HubPumpFinished,
                HubStopped, HubOffline, Panic
  <2>2. hub' \notin {"expire", "decide"}
    BY <1>6 DEF HubCheck, HubGet, HubSkip, HubOmit, HubSend, HubDrop, HubPanic, HubRegister,
                HubUnregister, HubBroadcast, HubStop, HubLoopEnd, HubClose, HubPumpFinished,
                HubStopped, HubOffline, Panic, AfterGet
  <2>3. ASSUME NEW d \in Conns
        PROVE  conn'[d].held = conn[d].held /\ (conn'[d].fresh => conn[d].fresh)
    <3>1. DOMAIN conn[d] = Fields /\ d \in DOMAIN conn
      BY <1>1 DEF Shape
    <3>2. CASE HubSkip
      <4>1. UNCHANGED conn \/ conn' = [conn EXCEPT ![v] = Written(@, "unexpire")]
        BY <3>2 DEF HubSkip
      <4>2. Written(conn[d], "unexpire").held = conn[d].held /\ ~Written(conn[d], "unexpire").fresh
        BY <3>1 DEF Written, Fields
      <4> QED
        BY <3>1, <4>1, <4>2
    <3>3. CASE HubSend \/ HubClose
      <4> DEFINE z == Head(toClose)
      <4>1. \/ conn' = [conn EXCEPT ![v].send = Append(@, event)]
            \/ conn' = [conn EXCEPT ![z].wsOpen = FALSE, ![z].endWritePump = TRUE]
        BY <3>3 DEF HubSend, HubClose
      <4> HIDE DEF v, z
      <4> QED
        BY <3>1, <4>1 DEF Fields
    <3>4. CASE UNCHANGED conn
      BY <3>4
    <3> QED
      BY <1>6, <3>2, <3>3, <3>4 DEF HubCheck, HubGet, HubOmit, HubDrop, HubPanic, HubRegister,
         HubUnregister, HubBroadcast, HubStop, HubLoopEnd, HubPumpFinished, HubStopped, HubOffline
  <2>4. \A d \in Conns : At(d, "expire")' => At(d, "expire")
    BY <1>1, HubCalm
  <2>5. \A d \in Conns : ~HubRelies(d)'
    BY <2>2 DEF HubRelies
  <2> QED
    BY <2>1, <2>3, <2>4, <2>5 DEF SessionsBacked, Backed
<1> QED
  BY <1>2, <1>3, <1>4, <1>5, <1>6 DEF HubStep

\* Whoever relies on the session of a connection, its reader or the hub, finds
\* it unless it was taken away in between.
THEOREM SessionsAreBacked == Spec => []SessionsBacked
<1>1. Init => SessionsBacked
  BY DEF Init, SessionsBacked, Backed
<1>2. FlowInv /\ HubInv /\ SessionsBacked /\ [Next]_vars => SessionsBacked'
  BY HubBacked, OthersBacked DEF FlowInv
<1> QED
  BY <1>1, <1>2, FlowInvariant, HubInvariant, PTL DEF Spec

\* The hub panics in its index, or keeps a handler that died of a panic, only if
\* a connection was authenticated or registered again; it panics on a session
\* only if one goroutine took a session away while the other relied on it: for
\* any number of connections.
THEOREM PanicsHaveTwoCauses == Spec => []PanicsExplained
<1>1. HubInv /\ SessionsBacked => PanicsExplained
  <2> SUFFICES ASSUME HubInv, SessionsBacked, again = {}
               PROVE  "index" \notin panics /\ \A c \in RegisteredConns : ~At(c, "panicked")
    BY DEF PanicsExplained, SessionsBacked
  <2>1. RegisteredConns \cap closed = {} /\ RegisteredConns \subseteq Conns
    BY IndexPromise DEF HubInv, Listed, RegisteredConns
  <2> QED
    BY <2>1 DEF HubInv, PanickedClosed
<1> QED
  BY <1>1, HubInvariant, SessionsAreBacked, PTL

\* As long as no connection is authenticated or registered again, and nobody
\* takes away a session that another relies on, the steps of all goroutines
\* together do to the index only what HubConnectionIndex does: what is proved
\* of it holds in the hub.
THEOREM HubRefinesIndex == Spec /\ [](again = {} /\ torn = {}) => ImplementsIndex
<1>1. Init => Index!Init
  BY DEF Init
<1>2. FlowInv /\ HubInv /\ SessionsBacked' /\ [Next]_vars /\ (again = {} /\ torn = {})'
        => [Index!Next]_(Index!vars)
  <2>1. HubNilSession => "session" \in panics'
    BY DEF HubNilSession, Panic
  <2>2. SessionsBacked' /\ (torn = {})' => ~("session" \in panics')
    BY DEF SessionsBacked
  <2> QED
    BY <2>1, <2>2, IndexStep
<1> QED
  BY <1>1, <1>2, FlowInvariant, HubInvariant, SessionsAreBacked, PTL
  DEF Spec, ImplementsIndex, Index!Spec

----------------------------------------------------------------------------
(* Finished connections leave the index.                                   *)

\* A connection of which the hub holds something, or gets it, although its pump
\* has finished, is about to be unregistered.
Leaving ==
  \A c \in Conns :
    /\ At(c, "finished") /\ ~stop /\ panics = {} /\ c \notin early \cup again
    /\ c \in RegisteredConns \/ registerQ = <<c>>
    => unregisterQ = <<c>>

LEMMA HubLeaving ==
  ASSUME Shape, HubInv, Leaving, HubStep
  PROVE  Leaving'
<1> SUFFICES ASSUME NEW c \in Conns, At(c, "finished")', ~stop', panics' = {},
                    c \notin early', c \notin again',
                    c \in RegisteredConns' \/ registerQ' = <<c>>
             PROVE  unregisterQ' = <<c>>
  BY DEF Leaving
<1> USE DEF channels, closing, hubIndex, outside, history, bounds, loop, index
<1>1. At(c, "finished")
  BY HubCalm
<1>2. CASE HubRegister
  <2> DEFINE r == Head(registerQ)
  <2>1. registerQ = <<r>>
    BY <1>2 DEF HubRegister, HubInv, OneAtMost
  <2>2. /\ registerQ' = <<>> /\ UNCHANGED <<unregisterQ, stop, early, panics>>
        /\ RegisteredConns' = RegisteredConns \cup {r}
        /\ again \subseteq again'
    BY <1>2 DEF HubRegister, Index!Add, Index!Registered, RegisteredConns
  <2>3. c \in RegisteredConns \/ registerQ = <<c>>
    BY <2>1, <2>2
  <2> QED
    BY <1>1, <2>2, <2>3 DEF Leaving
<1>3. CASE HubUnregister
  <2> DEFINE r == Head(unregisterQ)
  <2>1. unregisterQ = <<r>>
    BY <1>3 DEF HubUnregister, HubInv, OneAtMost
  <2>2. /\ UNCHANGED <<registerQ, stop, again, panics>>
        /\ Index!Remove(r) /\ early' = IF registerQ = <<r>> THEN early \cup {r} ELSE early
    BY <1>3 DEF HubUnregister, Panic
  <2>3. RegisteredConns' = RegisteredConns \ {r}
    BY <2>2 DEF Index!Remove, Index!IndexesWithout, Index!Registered, Index!index, RegisteredConns
  <2>4. c # r
    BY <2>2, <2>3
  <2>5. unregisterQ = <<c>>
    BY <1>1, <2>2, <2>3 DEF Leaving
  <2> QED
    BY <2>1, <2>4, <2>5
<1>4. CASE HubDrop
  <2>1. RegisteredConns' \subseteq RegisteredConns
    BY <1>4 DEF HubDrop, Index!Drop, Index!Remove, Index!IndexesWithout, Index!Registered,
                Index!index, RegisteredConns
  <2>2. UNCHANGED <<registerQ, unregisterQ, stop, early, again, panics>>
    BY <1>4 DEF HubDrop
  <2> QED
    BY <1>1, <2>1, <2>2 DEF Leaving
<1>5. CASE HubNilSession \/ HubPanic
  BY <1>5 DEF HubNilSession, HubPanic, Panic
<1>6. CASE HubCheck \/ HubGet \/ HubSetSession \/ HubMember
  BY <1>1, <1>6, LookupLeaves DEF Leaving, RegisteredConns
<1>7. CASE \/ HubBroadcast \/ HubStop \/ HubSkip \/ HubOmit \/ HubSend \/ HubLoopEnd
           \/ HubClose \/ HubPumpFinished \/ HubStopped
           \/ \E u \in Users : HubInvalidateUser(u) \/ HubOffline(u)
  <2>1. UNCHANGED <<registerQ, unregisterQ, stop, early, again, panics, connectionIndexes>>
    BY <1>7 DEF HubBroadcast, HubStop, HubSkip, HubOmit, HubSend, HubLoopEnd, HubClose,
                HubPumpFinished, HubStopped, HubInvalidateUser, HubOffline, Index!StartBroadcast,
                Index!Deliver, Index!Finish, Index!index
  <2> QED
    BY <1>1, <2>1 DEF Leaving, RegisteredConns
<1> QED
  BY <1>2, <1>3, <1>4, <1>5, <1>6, <1>7 DEF HubStep

\* Nothing is taken back.
LEMMA AgainGrows ==
  ASSUME \/ \E c \in Conns : HandlerStep(c) \/ WriterStep(c)
         \/ \E u \in Users : InvalidateStopped(u)
         \/ Environment
         \/ UNCHANGED vars
  PROVE  again \subseteq again'
<1> USE DEF history
<1>1. ASSUME NEW c \in Conns, HandlerStep(c)  PROVE UNCHANGED again
  BY <1>1 DEF HandlerStep, RegisterSend, Check, Get, SetSession, RevokeStopped, SendMessage, Serve,
              PublishTyping, ReadError, Join, UnregisterSend
<1>2. ASSUME NEW c \in Conns, WriterStep(c)  PROVE UNCHANGED again
  BY <1>2 DEF WriterStep, WriterReceive, WriterReturn, AuthTickerStop
<1>3. ASSUME NEW c \in Conns, ReadRequest(c)  PROVE again \subseteq again'
  BY <1>3 DEF ReadRequest, Challenge
<1>4. CASE Environment /\ ~\E c \in Conns : ReadRequest(c)
  BY <1>4 DEF Environment, ConnectWithSession, ConnectWithoutSession, ClientClose,
              BecomeIdle, Login, Refill, Evict, ClearSessionCache, Publish, Stop
<1>5. CASE UNCHANGED vars \/ \E u \in Users : InvalidateStopped(u)
  BY <1>5 DEF vars, InvalidateStopped
<1> QED
  BY <1>1, <1>2, <1>3, <1>4, <1>5

LEMMA OthersLeaving ==
  ASSUME Shape, HubInv, Leaving,
         \/ \E c \in Conns : HandlerStep(c) \/ WriterStep(c)
         \/ \E u \in Users : InvalidateStopped(u)
         \/ Environment
         \/ UNCHANGED vars
  PROVE  Leaving'
<1> SUFFICES ASSUME NEW c \in Conns, At(c, "finished")', ~stop', panics' = {},
                    c \notin early', c \notin again',
                    c \in RegisteredConns' \/ registerQ' = <<c>>
             PROVE  unregisterQ' = <<c>>
  BY DEF Leaving
<1> USE DEF channels, closing, hubIndex, outside, history, bounds, loop, index
<1>1. UNCHANGED <<panics, connectionIndexes>> /\ again \subseteq again'
  <2>1. UNCHANGED <<panics, connectionIndexes>>
    BY OthersLeaveIndex DEF Index!vars, Index!index
  <2>2. again \subseteq again'
    BY AgainGrows
  <2> QED
    BY <2>1, <2>2
<1>2. ASSUME NEW d \in Conns, UnregisterSend(d)
      PROVE  unregisterQ' = <<c>>
  <2>1. UNCHANGED <<stop, early, registerQ>> /\ (unregisterQ = <<>> /\ unregisterQ' = <<d>>)
    BY <1>2 DEF UnregisterSend
  <2>2. CASE d # c
    <3>1. At(c, "finished")
      BY <1>2, <2>2, HandlerCalm DEF HandlerStep
    <3>2. unregisterQ = <<c>>
      BY <1>1, <2>1, <3>1 DEF Leaving, RegisteredConns
    <3> QED
      BY <2>1, <3>2
  <2> QED
    BY <2>1, <2>2
<1>3. ASSUME NEW d \in Conns, RegisterSend(d)
      PROVE  unregisterQ' = <<c>>
  <2>1. At(c, "finished")
    <3>1. ~UnregisterSend(d)
      BY <1>3 DEF RegisterSend, UnregisterSend, At
    <3> QED
      BY <1>3, <3>1, HandlerCalm DEF HandlerStep
  <2>2. UNCHANGED <<stop, early, unregisterQ>> /\ (registerQ' = <<d>> \/ UNCHANGED registerQ)
    BY <1>3 DEF RegisterSend
  <2>3. d # c
    BY <1>3, <2>1 DEF RegisterSend, At
  <2> QED
    BY <1>1, <2>1, <2>2, <2>3 DEF Leaving, RegisteredConns
<1>4. ASSUME \A d \in Conns : ~RegisterSend(d) /\ ~UnregisterSend(d)
      PROVE  unregisterQ' = <<c>>
  <2>1. At(c, "finished")
    <3>1. CASE UNCHANGED vars \/ \E u \in Users : InvalidateStopped(u)
      BY <3>1 DEF vars, InvalidateStopped, At, Handler
    <3> QED
      BY <1>4, <3>1, HandlerCalm, WriterCalm, EnvironmentCalm
  <2>2. /\ UNCHANGED <<early, registerQ, unregisterQ>>
        /\ UNCHANGED stop \/ stop' = TRUE
    <3> DEFINE Kept == UNCHANGED <<early, registerQ, unregisterQ, stop>>
    <3>1. ASSUME NEW d \in Conns, HandlerStep(d)  PROVE Kept
      <4>1. CASE \/ Check(d) \/ Get(d) \/ SetSession(d) \/ RevokeStopped(d) \/ SendMessage(d)
        BY <4>1 DEF Check, Get, SetSession, RevokeStopped, SendMessage
      <4>2. CASE \/ Serve(d) \/ PublishTyping(d) \/ ReadError(d) \/ Join(d)
        BY <4>2 DEF Serve, PublishTyping, ReadError, Join
      <4> QED
        BY <1>4, <3>1, <4>1, <4>2 DEF HandlerStep
    <3>2. ASSUME NEW d \in Conns, WriterStep(d)  PROVE Kept
      BY <3>2 DEF WriterStep, WriterReceive, WriterReturn, AuthTickerStop
    <3>3. ASSUME Environment, ~Stop  PROVE Kept
      <4>1. ASSUME NEW d \in Conns,
                   ConnectWithSession(d) \/ ConnectWithoutSession(d) \/ ClientClose(d)
            PROVE  Kept
        BY <4>1 DEF ConnectWithSession, ConnectWithoutSession, ClientClose
      <4>2. ASSUME NEW d \in Conns,
                   ReadRequest(d) \/ BecomeIdle(d) \/ Login(d) \/ Refill(d) \/ Evict(d)
            PROVE  Kept
        BY <4>2 DEF ReadRequest, BecomeIdle, Login, Refill, Evict
      <4>3. ASSUME NEW u, NEW revoked, ClearSessionCache(u, revoked)  PROVE Kept
        BY <4>3 DEF ClearSessionCache
      <4>4. ASSUME NEW audience, Publish(audience)  PROVE Kept
        BY <4>4 DEF Publish
      <4> QED
        BY <3>3, <4>1, <4>2, <4>3, <4>4 DEF Environment
    <3>4. CASE Stop
      BY <3>4 DEF Stop
    <3>5. CASE UNCHANGED vars \/ \E u \in Users : InvalidateStopped(u)
      BY <3>5 DEF vars, InvalidateStopped
    <3> HIDE DEF Kept
    <3>6. Kept \/ Stop \/ UNCHANGED vars \/ \E u \in Users : InvalidateStopped(u)
      BY <3>1, <3>2, <3>3
    <3>7. Kept => UNCHANGED <<early, registerQ, unregisterQ>> /\ UNCHANGED stop
      BY DEF Kept
    <3> QED
      BY <3>4, <3>5, <3>6, <3>7
  <2> QED
    BY <1>1, <2>1, <2>2 DEF Leaving, RegisteredConns
<1> QED
  BY <1>2, <1>3, <1>4

\* A connection whose pump has finished leaves the index, or was unregistered
\* before it was registered, or registered twice, for any number of connections.
THEOREM FinishedAreForgotten == Spec => []FinishedForgotten
<1>1. Init => Leaving
  BY DEF Init, Leaving, At, Handler
<1>2. FlowInv /\ HubInv /\ Leaving /\ [Next]_vars => Leaving'
  BY HubLeaving, OthersLeaving DEF Next, FlowInv
<1>3. Leaving => FinishedForgotten
  BY DEF Leaving, FinishedForgotten
<1> QED
  BY <1>1, <1>2, <1>3, FlowInvariant, HubInvariant, PTL DEF Spec

(***************************************************************************)
(* Deadlocks of a stopping hub: no step ends one.                          *)
(***************************************************************************)
\* What the hub closes are connections, and it waits for one of them.
ClosingInv ==
  /\ toClose \in Seq(Conns)
  /\ hub = "waiting" => toClose # <<>>

LEMMA HubClosing ==
  ASSUME HubInv, ClosingInv, HubStep
  PROVE  ClosingInv'
<1> USE DEF channels, closing, hubIndex, loop, index, Index!index
<1>1. toClose' \in Seq(Conns) /\ (hub' = "waiting" => toClose' # <<>>)
  <2>1. CASE HubStop \/ HubClose \/ HubPumpFinished
    <3>1. CASE HubStop
      BY <3>1 DEF HubStop, HubInv, Listed
    <3>2. CASE HubClose
      BY <3>2 DEF HubClose, ClosingInv
    <3>3. CASE HubPumpFinished
      BY <3>3 DEF HubPumpFinished, ClosingInv
    <3> QED
      BY <2>1, <3>1, <3>2, <3>3
  <2>2. CASE ~(HubStop \/ HubClose \/ HubPumpFinished)
    <3>1. UNCHANGED toClose /\ (hub' = "waiting" => hub = "waiting")
      <4>1. CASE HubCheck \/ HubGet \/ HubSetSession \/ HubMember
        BY <4>1, LookupLeaves
      <4>2. CASE ~(HubCheck \/ HubGet \/ HubSetSession \/ HubMember)
        BY <2>2, <4>2 DEF HubStep, HubRegister, HubUnregister, HubBroadcast, HubInvalidateUser,
             HubOffline, HubSkip, HubNilSession, HubOmit, HubSend, HubDrop, HubPanic, Panic,
             HubLoopEnd, HubStopped
      <4> QED
        BY <4>1, <4>2
    <3> QED
      BY <3>1 DEF ClosingInv
  <2> QED
    BY <2>1, <2>2
<1> QED
  BY <1>1 DEF ClosingInv

----------------------------------------------------------------------------
(* What the others do to a hub that is stuck.                              *)

\* Queues that only the hub empties, and what only the hub changes.
LEMMA OthersKeepWaiting ==
  ASSUME HubInv,
         \/ \E c \in Conns : HandlerStep(c) \/ WriterStep(c)
         \/ \E u \in Users : InvalidateStopped(u)
         \/ Environment
         \/ UNCHANGED vars
  PROVE  /\ UNCHANGED <<hub, toClose, toOffline, closed, connections>>
         /\ registerQ # <<>> => UNCHANGED registerQ
         /\ Len(broadcastQ) = BroadcastCap => UNCHANGED broadcastQ
<1> USE DEF channels, closing, hubIndex, outside, history, bounds, loop, index
<1>1. UNCHANGED <<hub, closed, connections>>
  BY OthersLeaveIndex DEF Index!vars, Index!index
<1>2. Len(broadcastQ) = BroadcastCap => ~(Len(broadcastQ) < BroadcastCap)
  BY CapacityAssumption
<1>3. ASSUME NEW c \in Conns, HandlerStep(c)
      PROVE  /\ UNCHANGED <<toClose, toOffline>>
             /\ registerQ # <<>> => UNCHANGED registerQ
             /\ Len(broadcastQ) = BroadcastCap => UNCHANGED broadcastQ
  <2>1. CASE RegisterSend(c) \/ UnregisterSend(c)
    BY <2>1 DEF RegisterSend, UnregisterSend
  <2>2. CASE PublishTyping(c)
    BY <1>2, <2>2 DEF PublishTyping, Broadcast
  <2>3. CASE \/ Check(c) \/ Get(c) \/ SetSession(c) \/ RevokeStopped(c) \/ SendMessage(c)
    BY <2>3 DEF Check, Get, SetSession, RevokeStopped, SendMessage
  <2>4. CASE \/ Serve(c) \/ ReadError(c) \/ Join(c)
    BY <2>4 DEF Serve, ReadError, Join
  <2> QED
    BY <1>3, <2>1, <2>2, <2>3, <2>4 DEF HandlerStep
<1>4. ASSUME NEW c \in Conns, WriterStep(c)
      PROVE  UNCHANGED <<toClose, toOffline, registerQ, broadcastQ>>
  BY <1>4 DEF WriterStep, WriterReceive, WriterReturn, AuthTickerStop
<1>5. ASSUME Environment
      PROVE  /\ UNCHANGED <<toClose, toOffline, registerQ>>
             /\ Len(broadcastQ) = BroadcastCap => UNCHANGED broadcastQ
  <2>1. ASSUME NEW c \in Conns,
               ConnectWithSession(c) \/ ConnectWithoutSession(c) \/ ClientClose(c)
        PROVE  UNCHANGED <<toClose, toOffline, registerQ, broadcastQ>>
    BY <2>1 DEF ConnectWithSession, ConnectWithoutSession, ClientClose
  <2>2. ASSUME NEW c \in Conns,
               ReadRequest(c) \/ BecomeIdle(c) \/ Login(c) \/ Refill(c) \/ Evict(c)
        PROVE  UNCHANGED <<toClose, toOffline, registerQ, broadcastQ>>
    BY <2>2 DEF ReadRequest, BecomeIdle, Login, Refill, Evict
  <2>3. ASSUME NEW u, NEW revoked, ClearSessionCache(u, revoked)
        PROVE  UNCHANGED <<toClose, toOffline, registerQ, broadcastQ>>
    BY <2>3 DEF ClearSessionCache
  <2>4. ASSUME NEW audience, Publish(audience)
        PROVE  /\ UNCHANGED <<toClose, toOffline, registerQ>>
               /\ Len(broadcastQ) = BroadcastCap => UNCHANGED broadcastQ
    BY <1>2, <2>4 DEF Publish, Broadcast
  <2>5. CASE Stop
    BY <2>5 DEF Stop
  <2> QED
    BY <1>5, <2>1, <2>2, <2>3, <2>4, <2>5 DEF Environment
<1>6. CASE UNCHANGED vars
  BY <1>6 DEF vars
<1>7. ASSUME NEW u, InvalidateStopped(u)
      PROVE  UNCHANGED <<toClose, toOffline, registerQ, broadcastQ>>
  BY <1>7 DEF InvalidateStopped
<1> QED
  BY <1>1, <1>3, <1>4, <1>5, <1>6, <1>7

\* A step of another connection, of the writer or of a client leaves a stuck
\* handler where it is; its own next step is what it waits for.
LEMMA StuckStaysPut ==
  ASSUME HubInv, FlowInv, ~Stopped, NEW h \in Conns, HandlerStuck(h),
         \/ \E c \in Conns : HandlerStep(c) \/ WriterStep(c)
         \/ \E u \in Users : InvalidateStopped(u)
         \/ Environment
         \/ UNCHANGED vars
  PROVE  HandlerStuck(h)'
<1> USE DEF channels, closing, hubIndex, outside, history, bounds, loop, index
<1>1. Shape
  BY DEF FlowInv
<1>2. /\ UNCHANGED closed
      /\ registerQ # <<>> => UNCHANGED registerQ
      /\ Len(broadcastQ) = BroadcastCap => UNCHANGED broadcastQ
  BY OthersKeepWaiting
<1>3. ~HandlerStep(h)
  <2>1. /\ Len(broadcastQ) = BroadcastCap => ~(Len(broadcastQ) < BroadcastCap)
        /\ Len(conn[h].send) = SendCap => ~(Len(conn[h].send) < SendCap)
    BY CapacityAssumption
  <2>2. ~RegisterSend(h) /\ ~RevokeStopped(h) /\ ~PublishTyping(h) /\ ~SendMessage(h)
    BY <2>1 DEF HandlerStuck, RegisterSend, RevokeStopped, PublishTyping, Broadcast, SendMessage, At
  <2>3. /\ ~Check(h) /\ ~Get(h) /\ ~SetSession(h) /\ ~Serve(h) /\ ~ReadError(h) /\ ~Join(h)
        /\ ~UnregisterSend(h)
    BY DEF HandlerStuck, Check, Get, SetSession, SessionSteps, Serve, ReadError, Join, UnregisterSend, At
  <2> QED
    BY <2>2, <2>3 DEF HandlerStep
<1>4. ASSUME NEW d \in Conns \ {h}, HandlerStep(d) \/ WriterStep(d)
      PROVE  conn'[h] = conn[h]
  <2>1. CASE HandlerStep(d)
    <3>1. CASE \/ RegisterSend(d) \/ Check(d) \/ Get(d) \/ SetSession(d) \/ RevokeStopped(d)
               \/ SendMessage(d)
      BY <1>1, <1>4, <3>1 DEF RegisterSend, Check, Get, SetSession, RevokeStopped, SendMessage, Goto, Shape
    <3>2. CASE Serve(d) \/ PublishTyping(d) \/ ReadError(d) \/ Join(d) \/ UnregisterSend(d)
      BY <1>1, <1>4, <3>2 DEF Serve, PublishTyping, ReadError, Join, UnregisterSend, Goto, Shape
    <3> QED
      BY <2>1, <3>1, <3>2 DEF HandlerStep
  <2>2. CASE WriterStep(d)
    BY <1>1, <1>4, <2>2 DEF WriterStep, WriterReceive, WriterReturn, WriterEnd, AuthTickerStop, Shape
  <2> QED
    BY <1>4, <2>1, <2>2
<1>5. ASSUME WriterStep(h)
      PROVE  conn'[h].handler = conn[h].handler /\ ~At(h, "send")
  <2>1. conn'[h].handler = conn[h].handler
    <3> DEFINE tail == [conn[h] EXCEPT !.send = Tail(@)]
               gone == [conn[h] EXCEPT !.send = Tail(@), !.writer = "done"]
               done == [conn[h] EXCEPT !.writer = "done", !.wsOpen = FALSE]
               run  == [conn[h] EXCEPT !.writer = "run"]
    <3>1. conn'[h] \in {tail, gone, done, run}
      BY <1>1, <1>5 DEF WriterStep, WriterReceive, WriterReturn, WriterEnd, AuthTickerStop, Shape
    <3>2. \A rec \in {tail, gone, done, run} : rec.handler = conn[h].handler
      BY <1>1 DEF Shape, Fields
    <3> HIDE DEF tail, gone, done, run
    <3> QED
      BY <3>1, <3>2
  <2>2. conn[h].writer \notin {"none", "done"}
    BY <1>5 DEF WriterStep, WriterReceive, WriterReturn, AuthTickerStop, Writing
  <2> QED
    BY <2>1, <2>2 DEF HandlerStuck, At
<1>6. ASSUME Environment
      PROVE  /\ conn'[h].handler = conn[h].handler
             /\ conn'[h].send = conn[h].send /\ conn'[h].writer = conn[h].writer
  <2>1. ASSUME NEW d \in Conns, ConnectWithSession(d) \/ ConnectWithoutSession(d) \/ ReadRequest(d)
        PROVE  conn'[h] = conn[h]
    <3>1. d # h
      BY <2>1 DEF HandlerStuck, ConnectWithSession, ConnectWithoutSession, ReadRequest, At
    <3> QED
      BY <1>1, <2>1, <3>1 DEF ConnectWithSession, ConnectWithoutSession, ReadRequest, Challenge,
                              Goto, Shape
  <2>2. ASSUME NEW d \in Conns, ClientClose(d)
        PROVE  /\ conn'[h].handler = conn[h].handler
               /\ conn'[h].send = conn[h].send /\ conn'[h].writer = conn[h].writer
    <3>1. conn' = [conn EXCEPT ![d].wsOpen = FALSE]
      BY <2>2 DEF ClientClose
    <3> QED
      BY <1>1, <3>1 DEF Shape, Fields
  <2>3. CASE \/ \E d \in Conns : BecomeIdle(d) \/ Login(d) \/ Refill(d) \/ Evict(d)
             \/ \E u \in Users, revoked \in Revocations : ClearSessionCache(u, revoked)
             \/ \E audience \in Audiences : Publish(audience)
             \/ Stop
    BY <2>3 DEF BecomeIdle, Login, Refill, Evict, ClearSessionCache, Publish, Stop
  <2> QED
    BY <1>6, <2>1, <2>2, <2>3 DEF Environment
<1>7. CASE UNCHANGED vars \/ \E u \in Users : InvalidateStopped(u)
  <2>1. UNCHANGED conn
    BY <1>7 DEF vars, InvalidateStopped
  <2> QED
    BY <1>2, <2>1 DEF HandlerStuck, At, Handler
<1>8. CASE conn'[h].handler = conn[h].handler /\ ~At(h, "send")
  BY <1>2, <1>8 DEF HandlerStuck, At, Handler
<1>9. CASE /\ conn'[h].handler = conn[h].handler
           /\ conn'[h].send = conn[h].send /\ conn'[h].writer = conn[h].writer
  BY <1>2, <1>9 DEF HandlerStuck, At, Handler
<1> QED
  BY <1>3, <1>4, <1>5, <1>6, <1>7, <1>8, <1>9

----------------------------------------------------------------------------
(* The theorem.                                                            *)

LEMMA NextClosing ==
  ASSUME FlowInv, HubInv, ClosingInv, [Next]_vars
  PROVE  ClosingInv'
<1>1. CASE HubStep
  BY <1>1, HubClosing
<1>2. CASE ~HubStep
  <2>1. UNCHANGED <<hub, toClose>>
    BY <1>2, OthersKeepWaiting DEF Next
  <2> QED
    BY <2>1 DEF ClosingInv
<1> QED
  BY <1>1, <1>2

LEMMA StuckStep ==
  ASSUME FlowInv, HubInv, ClosingInv, HubStuck, [Next]_vars
  PROVE  HubStuck'
<1> USE DEF channels, closing, hubIndex, loop
<1>1. ~Stopped
  BY DEF HubStuck, Stopped
<1>2. hub = "waiting" => Head(toClose) \in Conns
  BY DEF ClosingInv
<1>3. ~HubStep
  <2>1. ~HubCheck /\ ~HubGet /\ ~HubSetSession /\ ~HubMember
    BY LookupLeaves DEF HubStuck
  <2>2. ~ShouldSend /\ ~IsAuthenticated /\ ~HubSkip /\ hub \notin {"select", "loop"}
    BY DEF HubStuck, ShouldSend, IsAuthenticated, HubSkip, HubAt
  <2>3. /\ ~HubNilSession /\ ~HubOmit /\ ~HubSend /\ ~HubDrop /\ ~HubPanic
        /\ ~HubRegister /\ ~HubUnregister /\ ~HubBroadcast /\ ~HubStop /\ ~HubLoopEnd
        /\ \A u \in Users : ~HubInvalidateUser(u)
    BY <2>2 DEF HubNilSession, HubOmit, HubSend, HubDrop, HubPanic, HubRegister, HubUnregister,
                HubBroadcast, HubStop, HubLoopEnd, HubInvalidateUser
  <2>4. ~HubPumpFinished
    BY DEF HubStuck, HubPumpFinished, HandlerStuck, At
  <2>5. ~HubClose /\ ~HubStopped /\ \A u \in Users : ~HubOffline(u)
    <3>1. Len(broadcastQ) = BroadcastCap => ~(Len(broadcastQ) < BroadcastCap)
      BY CapacityAssumption
    <3> QED
      BY <3>1 DEF HubStuck, HubClose, HubStopped, HubOffline
  <2> QED
    BY <2>1, <2>2, <2>3, <2>4, <2>5 DEF HubStep
<1>4. /\ UNCHANGED <<hub, toClose, toOffline>>
      /\ Len(broadcastQ) = BroadcastCap => UNCHANGED broadcastQ
  BY <1>3, OthersKeepWaiting DEF Next
<1>5. hub = "waiting" /\ HandlerStuck(Head(toClose)) => HandlerStuck(Head(toClose))'
  <2> DEFINE h == Head(toClose)
  <2> SUFFICES ASSUME hub = "waiting", HandlerStuck(h)
               PROVE  HandlerStuck(h)'
    OBVIOUS
  <2>1. PICK g \in Conns : g = h
    BY <1>2
  <2>2. HandlerStuck(g)'
    BY <1>1, <1>3, <2>1, StuckStaysPut DEF Next
  <2> QED
    BY <1>4, <2>1, <2>2 DEF HandlerStuck, At, Handler
<1> QED
  BY <1>4, <1>5 DEF HubStuck

\* The deadlocks of a stopping hub, or of one that revokes an idle session from
\* its own loop, are for ever, whatever anybody else does.
THEOREM DeadlocksAreForEver == Spec => StuckForever
<1>1. Init => ClosingInv
  BY DEF Init, ClosingInv
<1>2. FlowInv /\ HubInv /\ ClosingInv /\ [Next]_vars => ClosingInv'
  BY NextClosing
<1>3. FlowInv /\ HubInv /\ ClosingInv /\ [Next]_vars => [HubStuck => HubStuck']_vars
  BY StuckStep
<1> QED
  BY <1>1, <1>2, <1>3, FlowInvariant, HubInvariant, PTL DEF Spec, StuckForever
=============================================================================

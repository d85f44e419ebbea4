----------------------- MODULE WebSocketClient_proofs -----------------------
(***************************************************************************)
(* Proofs about the webapp's WebSocket client, for any number of posts,    *)
(* failures, timers and logouts, and any page size: it never has two       *)
(* sockets, it connects after a logout only when close() came too early,   *)
(* and it lacks posts only of a blind window.                              *)
(***************************************************************************)
EXTENDS WebSocketClient, TLAPS

SocketRecord == [state : {"connecting", "open", "closed"}, auth : {"none", "session", "stale"},
                 registered : BOOLEAN, next : Nat]

\* Whatever an action does to the client and its sockets, this is what it must
\* keep: one socket at most, and what is known of it.
Sound(client, sockets, n) ==
  /\ client \in [conn : Sockets \cup {NoSocket}, failed : BOOLEAN, timers : Nat]
  /\ sockets \in [Sockets -> SocketRecord]
  /\ \A s \in Sockets : sockets[s].state # "closed" <=> client.conn = s
  /\ \A s \in Sockets : /\ sockets[s].registered => sockets[s].state # "closed"
                        /\ sockets[s].registered => sockets[s].next \in 1..(n + 1)
                        /\ sockets[s].state = "open" => ~client.failed

\* The rest of ClientTypeOK.
DataTypes ==
  /\ loggedIn \in BOOLEAN /\ slipped \in BOOLEAN
  /\ posts \in Nat /\ store \subseteq 1..posts /\ blind \subseteq 1..posts
  /\ requests \in [asked : Nat, answers : SUBSET (0..posts)]
  /\ spent \in [drops : 0..MaxDrops, lost : 0..MaxLost, logouts : 0..MaxLogouts]

LogoutKnown == ~loggedIn /\ (ws.conn # NoSocket \/ ws.timers > 0) => slipped

Pursued == loggedIn /\ spent.lost = 0 =>
             \A p \in NewestPage(posts) \ (store \cup blind) : OnItsWay(p)

\* The inductive invariant, in the parts that the proofs speak about.
LEMMA ClientInvParts ==
  ClientInv <=> Sound(ws, socket, posts) /\ DataTypes /\ LogoutKnown /\ Pursued
BY DEF ClientInv, Sound, DataTypes, LogoutKnown, Pursued, ClientTypeOK, OneSocket, Live, SocketRecord

----------------------------------------------------------------------------
(* What initialize() and close() do, whoever calls them.                   *)

\* A client without a connection gets a new socket, which is not registered:
\* there is an identity for it, because no socket is live. One with a
\* connection is left alone.
LEMMA InitializeSound ==
  ASSUME NEW client, NEW sockets, NEW n \in Nat, NEW cookie \in BOOLEAN,
         Sound(client, sockets, n)
  PROVE  LET r == Initialized(client, sockets, cookie)
         IN  /\ Sound(r[1], r[2], n)
             /\ r[1].failed = client.failed /\ r[1].timers = client.timers
             /\ \A s \in Sockets : sockets[s].registered => r[2][s] = sockets[s]
<1> USE DEF Sound
<1>1. CASE client.conn # NoSocket
  BY <1>1 DEF Initialized
<1>2. CASE client.conn = NoSocket
  <2> DEFINE s == Fresh(sockets)
             c == [client EXCEPT !.conn = s]
             new == [sockets EXCEPT ![s] = [Closed EXCEPT !.state = "connecting",
                                                   !.auth = Authenticated(cookie)]]
  <2>1. \A t \in Sockets : sockets[t].state = "closed"
    BY <1>2, SocketAssumption
  <2>2. s \in Sockets /\ sockets[s].state = "closed"
    BY <2>1, SocketAssumption DEF Fresh
  <2>3. Initialized(client, sockets, cookie) = <<c, new>>
    BY <1>2 DEF Initialized
  <2>4. /\ c \in [conn : Sockets \cup {NoSocket}, failed : BOOLEAN, timers : Nat]
        /\ c.conn = s /\ c.failed = client.failed /\ c.timers = client.timers
    BY <2>2
  <2>5. /\ new[s] = [state |-> "connecting", auth |-> Authenticated(cookie),
               registered |-> FALSE, next |-> 0]
        /\ \A t \in Sockets \ {s} : new[t] = sockets[t]
    BY <2>2 DEF Closed
  <2>6. DOMAIN new = Sockets /\ new = [t \in Sockets |-> new[t]]
    BY <2>2
  <2> HIDE DEF new, c
  <2>7. new \in [Sockets -> SocketRecord]
    <3>1. sockets \in [Sockets -> SocketRecord]
      OBVIOUS
    <3>2. new[s] \in SocketRecord
      BY <2>5 DEF SocketRecord, Authenticated
    <3> QED BY <2>6, <2>2, <3>1, <3>2, <2>5
  <2>8. Sound(c, new, n)
    <3>1. \A t \in Sockets : new[t].state # "closed" <=> c.conn = t
      BY <2>1, <2>2, <2>4, <2>5
    <3>2. \A t \in Sockets : ~new[t].registered /\ new[t].state # "open"
      BY <2>1, <2>5
    <3> QED BY <2>4, <2>7, <3>1, <3>2
  <2>9. \A t \in Sockets : sockets[t].registered => new[t] = sockets[t]
    BY <2>1, <2>2, <2>5
  <2> QED
    BY <2>3, <2>4, <2>8, <2>9
<1> QED
  BY <1>1, <1>2

\* When the one live socket has ended and the client knows of none, the client
\* may change in any other way.
LEMMA EndSound ==
  ASSUME NEW client, NEW sockets, NEW n \in Nat, Sound(client, sockets, n),
         NEW s \in Sockets, sockets[s].state # "closed",
         NEW after \in [conn : Sockets \cup {NoSocket}, failed : BOOLEAN, timers : Nat],
         after.conn = NoSocket
  PROVE  Sound(after, [sockets EXCEPT ![s] = Closed], n)
<1> DEFINE new == [sockets EXCEPT ![s] = Closed]
<1> USE DEF Sound
<1>1. sockets \in [Sockets -> SocketRecord]
  OBVIOUS
<1>2. Closed \in SocketRecord /\ Closed.state = "closed" /\ ~Closed.registered
  BY DEF Closed, SocketRecord
<1>3. new \in [Sockets -> SocketRecord]
  BY <1>1, <1>2
<1>4. \A t \in Sockets : new[t] = IF t = s THEN Closed ELSE sockets[t]
  BY <1>1
<1>5. \A t \in Sockets : new[t].state = "closed" /\ ~new[t].registered
  BY <1>2, <1>4
<1> QED
  BY <1>3, <1>5, SocketAssumption

\* close() ends an open socket, and leaves a client without a connection; it
\* does nothing to a handshake under way but forget its failures.
LEMMA CloseSound ==
  ASSUME NEW client, NEW sockets, NEW n \in Nat, Sound(client, sockets, n)
  PROVE  LET r == CloseSocket(sockets, client)
         IN  /\ Sound(r[2], r[1], n)
             /\ r[2].timers = client.timers
             /\ r[2].conn # NoSocket => r[2].conn = client.conn /\ sockets[client.conn].state = "connecting"
<1> DEFINE open == client.conn # NoSocket /\ sockets[client.conn].state = "open"
<1>1. /\ client \in [conn : Sockets \cup {NoSocket}, failed : BOOLEAN, timers : Nat]
      /\ sockets \in [Sockets -> SocketRecord]
  BY DEF Sound
<1>2. CASE open
  <2> DEFINE s == client.conn
             after == [client EXCEPT !.conn = NoSocket, !.failed = FALSE]
  <2>1. s \in Sockets /\ sockets[s].state # "closed"
    BY <1>1, <1>2
  <2>2. /\ after \in [conn : Sockets \cup {NoSocket}, failed : BOOLEAN, timers : Nat]
        /\ after.conn = NoSocket /\ after.timers = client.timers
    BY <1>1
  <2>3. CloseSocket(sockets, client) = <<[sockets EXCEPT ![s] = Closed], after>>
    BY <1>2 DEF CloseSocket
  <2> HIDE DEF s, after
  <2>4. Sound(after, [sockets EXCEPT ![s] = Closed], n)
    BY <2>1, <2>2, EndSound
  <2> QED
    BY <2>2, <2>3, <2>4
<1>3. CASE ~open
  <2> DEFINE after == [client EXCEPT !.failed = FALSE]
  <2>1. /\ after \in [conn : Sockets \cup {NoSocket}, failed : BOOLEAN, timers : Nat]
        /\ after.conn = client.conn /\ after.timers = client.timers /\ ~after.failed
    BY <1>1
  <2>2. CloseSocket(sockets, client) = <<sockets, after>>
    BY <1>3 DEF CloseSocket
  <2> HIDE DEF after
  <2>3. Sound(after, sockets, n)
    BY <2>1 DEF Sound
  <2>4. client.conn # NoSocket => sockets[client.conn].state = "connecting"
    <3> SUFFICES ASSUME client.conn # NoSocket  PROVE sockets[client.conn].state = "connecting"
      OBVIOUS
    <3>1. client.conn \in Sockets
      BY <1>1
    <3>2. sockets[client.conn].state \in {"connecting", "open", "closed"}
      BY <1>1, <3>1 DEF SocketRecord
    <3>3. sockets[client.conn].state # "closed"
      BY <3>1 DEF Sound
    <3> QED BY <1>3, <3>2, <3>3
  <2> QED
    BY <2>1, <2>2, <2>3, <2>4
<1> QED
  BY <1>2, <1>3

----------------------------------------------------------------------------
(* The invariant is kept.                                                  *)

LEMMA InitClientInv == ClientInit => ClientInv
<1> SUFFICES ASSUME ClientInit  PROVE ClientInv
  OBVIOUS
<1>1. Closed \in SocketRecord /\ Closed.state = "closed" /\ ~Closed.registered
  BY DEF Closed, SocketRecord
<1>2. Sound(ws, socket, posts)
  BY <1>1, SocketAssumption DEF ClientInit, Sound
<1>3. DataTypes
  <2>1. /\ MaxDrops \in Nat /\ MaxLost \in Nat /\ MaxLogouts \in Nat
    BY SocketAssumption
  <2>2. 0 \in 0..MaxDrops /\ 0 \in 0..MaxLost /\ 0 \in 0..MaxLogouts
    BY <2>1
  <2>3. spent \in [drops : 0..MaxDrops, lost : 0..MaxLost, logouts : 0..MaxLogouts]
    BY <2>2 DEF ClientInit
  <2>4. {} \in SUBSET (0..0) /\ 0 \in Nat
    OBVIOUS
  <2>5. requests \in [asked : Nat, answers : SUBSET (0..posts)]
    BY <2>4 DEF ClientInit
  <2> QED
    BY <2>3, <2>5 DEF ClientInit, DataTypes
<1>4. LogoutKnown /\ Pursued
  BY DEF ClientInit, LogoutKnown, Pursued
<1> QED
  BY <1>2, <1>3, <1>4, ClientInvParts

\* The handshake ends. A failure gives way to a request for the posts.
LEMMA OnOpenInv ==
  ASSUME ClientInv, NEW s \in Sockets, OnOpen(s)
  PROVE  ClientInv'
<1>1. Sound(ws, socket, posts) /\ DataTypes /\ LogoutKnown /\ Pursued
  BY ClientInvParts
<1>2. /\ socket[s].state = "connecting" /\ ws.conn = s
      /\ ws' = [ws EXCEPT !.failed = FALSE]
      /\ socket' = [socket EXCEPT ![s].state = "open"]
      /\ requests' = [requests EXCEPT !.asked = @ + (IF ws.failed /\ loggedIn THEN 1 ELSE 0)]
      /\ UNCHANGED <<loggedIn, posts, store, blind, slipped, spent>>
  BY DEF OnOpen, AskForPosts
<1>3. ws'.conn = ws.conn /\ ws'.timers = ws.timers /\ ~ws'.failed
  BY <1>1, <1>2 DEF Sound
<1>4. \A t \in Sockets : /\ socket'[t].registered = socket[t].registered
                         /\ socket'[t].next = socket[t].next
                         /\ socket'[t].state # "closed" <=> socket[t].state # "closed"
  BY <1>1, <1>2 DEF Sound, SocketRecord
<1>5. Sound(ws, socket, posts)'
  <2>1. socket' \in [Sockets -> SocketRecord]
    BY <1>1, <1>2 DEF Sound, SocketRecord
  <2>2. ws' \in [conn : Sockets \cup {NoSocket}, failed : BOOLEAN, timers : Nat]
    BY <1>1, <1>2 DEF Sound
  <2> QED
    BY <1>1, <1>2, <1>3, <1>4, <2>1, <2>2 DEF Sound
<1>6. DataTypes' /\ LogoutKnown'
  BY <1>1, <1>2, <1>3 DEF DataTypes, LogoutKnown
<1>7. Pursued'
  <2> SUFFICES ASSUME loggedIn, spent.lost = 0, NEW p \in NewestPage(posts) \ (store \cup blind)
               PROVE  OnItsWay(p)'
    BY <1>2 DEF Pursued, NewestPage
  <2>1. OnItsWay(p)
    BY <1>1 DEF Pursued
  <2>2. requests.asked \in Nat /\ requests'.answers = requests.answers
        /\ requests'.asked = requests.asked + (IF ws.failed /\ loggedIn THEN 1 ELSE 0)
    BY <1>1, <1>2 DEF DataTypes
  <2> QED
    BY <2>1, <2>2, <1>4 DEF OnItsWay
<1> QED
  BY <1>5, <1>6, <1>7, ClientInvParts, PTL

\* A connection that is lost counts as a failure, and sets a timer.
LEMMA LossInv ==
  ASSUME ClientInv, NEW s \in Sockets, Live(s),
         socket' = [socket EXCEPT ![s] = Closed],
         ws' = [ws EXCEPT !.conn = NoSocket, !.failed = TRUE, !.timers = @ + 1],
         UNCHANGED <<loggedIn, posts, store, requests, blind, slipped>>,
         spent'.lost = spent.lost,
         spent' \in [drops : 0..MaxDrops, lost : 0..MaxLost, logouts : 0..MaxLogouts]
  PROVE  ClientInv'
<1>1. Sound(ws, socket, posts) /\ DataTypes /\ LogoutKnown /\ Pursued
  BY ClientInvParts
<1>2. /\ ws' \in [conn : Sockets \cup {NoSocket}, failed : BOOLEAN, timers : Nat]
      /\ ws'.conn = NoSocket /\ ws'.failed
  <2>1. ws \in [conn : Sockets \cup {NoSocket}, failed : BOOLEAN, timers : Nat]
    BY <1>1 DEF Sound
  <2>2. ws.timers + 1 \in Nat
    BY <2>1
  <2> QED
    BY <2>1, <2>2
<1>3. Sound(ws', socket', posts)
  BY <1>1, <1>2, EndSound DEF Live, DataTypes
<1>4. ws.conn # NoSocket
  BY <1>1, SocketAssumption DEF Sound, Live
<1>5. DataTypes' /\ LogoutKnown' /\ Pursued'
  BY <1>1, <1>2, <1>4 DEF DataTypes, LogoutKnown, Pursued, OnItsWay
<1>6. Sound(ws, socket, posts)'
  BY <1>3
<1> QED
  BY <1>5, <1>6, ClientInvParts, PTL

Spent == [drops : 0..MaxDrops, lost : 0..MaxLost, logouts : 0..MaxLogouts]

LEMMA OnCloseInv ==
  ASSUME ClientInv, NEW s \in Sockets, OnClose(s)
  PROVE  ClientInv'
<1>1. spent \in Spent /\ MaxDrops \in Nat
  BY ClientInvParts, SocketAssumption DEF DataTypes, Spent
<1>2. spent.drops < MaxDrops /\ spent' = [spent EXCEPT !.drops = @ + 1]
  BY DEF OnClose
<1>3. spent.drops + 1 \in 0..MaxDrops
  BY <1>1, <1>2 DEF Spent
<1>4. spent' \in Spent /\ spent'.lost = spent.lost
  BY <1>1, <1>2, <1>3 DEF Spent
<1> QED
  BY <1>4, LossInv DEF OnClose, Spent

LEMMA AuthTimeoutInv ==
  ASSUME ClientInv, NEW s \in Sockets, AuthTimeout(s)
  PROVE  ClientInv'
<1>1. spent' = spent /\ spent \in Spent
  BY ClientInvParts DEF DataTypes, Spent, AuthTimeout
<1> QED
  BY <1>1, LossInv DEF AuthTimeout, Spent, Live

\* The registration makes no post that was on its way less so: the socket
\* carried nothing before.
LEMMA HubRegisterInv ==
  ASSUME ClientInv, NEW s \in Sockets, HubRegister(s)
  PROVE  ClientInv'
<1>1. Sound(ws, socket, posts) /\ DataTypes /\ LogoutKnown /\ Pursued
  BY ClientInvParts
<1>2. /\ socket[s].state # "closed" /\ ~socket[s].registered
      /\ socket' = [socket EXCEPT ![s].registered = TRUE, ![s].next = posts + 1]
      /\ UNCHANGED <<loggedIn, ws, posts, store, requests, blind, slipped, spent>>
  BY DEF HubRegister, Live
<1>3. posts \in Nat /\ socket \in [Sockets -> SocketRecord]
  BY <1>1 DEF DataTypes, Sound
<1>4. /\ socket'[s].registered /\ socket'[s].next = posts + 1
      /\ socket'[s].state = socket[s].state
      /\ \A t \in Sockets \ {s} : socket'[t] = socket[t]
  BY <1>2, <1>3 DEF SocketRecord
<1>5. Sound(ws, socket, posts)'
  <2> DEFINE taken == [socket[s] EXCEPT !.registered = TRUE, !.next = posts + 1]
  <2>1. socket' \in [Sockets -> SocketRecord]
    <3>1. taken \in SocketRecord
      <4> DEFINE half == [socket[s] EXCEPT !.registered = TRUE]
      <4>1. posts + 1 \in Nat /\ socket[s] \in SocketRecord
        BY <1>3
      <4>2. half \in SocketRecord
        BY <4>1 DEF SocketRecord
      <4>3. taken = [half EXCEPT !.next = posts + 1]
        OBVIOUS
      <4> HIDE DEF half, taken
      <4>4. taken \in SocketRecord
        BY <4>1, <4>2, <4>3 DEF SocketRecord
      <4> QED
        BY <4>4
    <3>2. socket' = [socket EXCEPT ![s] = taken]
      BY <1>2, <1>3
    <3> HIDE DEF taken
    <3> QED
      BY <1>3, <3>1, <3>2
  <2> QED
    BY <1>1, <1>2, <1>3, <1>4, <2>1 DEF Sound
<1>6. DataTypes' /\ LogoutKnown'
  BY <1>1, <1>2 DEF DataTypes, LogoutKnown
<1>7. Pursued'
  BY <1>1, <1>2, <1>4 DEF Pursued, NewestPage, OnItsWay
<1> QED
  BY <1>5, <1>6, <1>7, ClientInvParts, PTL

\* What leaves the socket is in the store.
LEMMA OnMessageInv ==
  ASSUME ClientInv, NEW s \in Sockets, OnMessage(s)
  PROVE  ClientInv'
<1>1. Sound(ws, socket, posts) /\ DataTypes /\ LogoutKnown /\ Pursued
  BY ClientInvParts
<1>2. /\ socket[s].registered /\ socket[s].next <= posts
      /\ store' = store \cup {socket[s].next}
      /\ socket' = [socket EXCEPT ![s].next = @ + 1]
      /\ UNCHANGED <<loggedIn, ws, posts, requests, blind, slipped, spent>>
  BY DEF OnMessage
<1>3. posts \in Nat /\ socket \in [Sockets -> SocketRecord] /\ socket[s].next \in 1..posts
  BY <1>1, <1>2 DEF DataTypes, Sound
<1>4. /\ socket'[s].registered /\ socket'[s].next = socket[s].next + 1
      /\ socket'[s].state = socket[s].state
      /\ \A t \in Sockets \ {s} : socket'[t] = socket[t]
  BY <1>2, <1>3 DEF SocketRecord
<1>5. Sound(ws, socket, posts)'
  <2>1. socket' \in [Sockets -> SocketRecord]
    BY <1>2, <1>3 DEF SocketRecord
  <2>2. socket'[s].next \in 1..(posts + 1)
    BY <1>3, <1>4
  <2> QED
    BY <1>1, <1>2, <1>3, <1>4, <2>1, <2>2 DEF Sound
<1>6. DataTypes' /\ LogoutKnown'
  BY <1>1, <1>2, <1>3 DEF DataTypes, LogoutKnown
<1>7. Pursued'
  <2> SUFFICES ASSUME loggedIn, spent.lost = 0,
                      NEW p \in NewestPage(posts) \ (store' \cup blind)
               PROVE  OnItsWay(p)'
    BY <1>2 DEF Pursued, NewestPage
  <2>1. OnItsWay(p) /\ p # socket[s].next /\ p \in Nat
    BY <1>1, <1>2, <1>3 DEF Pursued, NewestPage
  <2>2. CASE \E t \in Sockets : socket[t].registered /\ socket[t].next <= p
    <3> PICK t \in Sockets : socket[t].registered /\ socket[t].next <= p
      BY <2>2
    <3>1. socket'[t].registered /\ socket'[t].next <= p
      BY <1>3, <1>4, <2>1
    <3> QED
      BY <3>1 DEF OnItsWay
  <2> QED
    BY <2>1, <2>2, <1>2 DEF OnItsWay
<1> QED
  BY <1>5, <1>6, <1>7, ClientInvParts, PTL

\* A timer is there: if nobody is logged in, that slipped through already.
LEMMA OnTimerInv ==
  ASSUME ClientInv, OnTimer
  PROVE  ClientInv'
<1>1. Sound(ws, socket, posts) /\ DataTypes /\ LogoutKnown /\ Pursued
  BY ClientInvParts
<1> DEFINE fired == [ws EXCEPT !.timers = @ - 1]
           r == Initialized(fired, socket, loggedIn)
<1>2. /\ ws.timers > 0 /\ ws' = r[1] /\ socket' = r[2]
      /\ UNCHANGED <<loggedIn, posts, store, requests, blind, slipped, spent>>
  BY DEF OnTimer
<1>3. /\ fired \in [conn : Sockets \cup {NoSocket}, failed : BOOLEAN, timers : Nat]
      /\ fired.conn = ws.conn /\ fired.failed = ws.failed
  <2>1. ws \in [conn : Sockets \cup {NoSocket}, failed : BOOLEAN, timers : Nat]
    BY <1>1 DEF Sound
  <2>2. ws.timers - 1 \in Nat
    BY <2>1, <1>2
  <2> QED BY <2>1, <2>2
<1>4. posts \in Nat /\ loggedIn \in BOOLEAN
  BY <1>1 DEF DataTypes
<1> HIDE DEF fired
<1>5. Sound(fired, socket, posts)
  BY <1>1, <1>3 DEF Sound
<1>6. /\ Sound(r[1], r[2], posts) /\ r[1].failed = fired.failed
      /\ \A s \in Sockets : socket[s].registered => r[2][s] = socket[s]
  BY <1>4, <1>5, InitializeSound
<1> HIDE DEF r
<1>7. Sound(ws, socket, posts)'
  BY <1>2, <1>6
<1>8. DataTypes' /\ LogoutKnown'
  BY <1>1, <1>2 DEF DataTypes, LogoutKnown
<1>9. Pursued'
  <2>1. ws'.failed = ws.failed /\ \A s \in Sockets : socket[s].registered => socket'[s] = socket[s]
    BY <1>2, <1>3, <1>6
  <2> QED
    BY <1>1, <1>2, <2>1 DEF Pursued, NewestPage, OnItsWay
<1> QED
  BY <1>7, <1>8, <1>9, ClientInvParts, PTL

LEMMA SendMessageInv ==
  ASSUME ClientInv, SendMessage
  PROVE  ClientInv'
<1>1. Sound(ws, socket, posts) /\ DataTypes /\ LogoutKnown /\ Pursued
  BY ClientInvParts
<1> DEFINE r == Initialized(ws, socket, loggedIn)
<1>2. /\ loggedIn /\ ws' = r[1] /\ socket' = r[2]
      /\ UNCHANGED <<loggedIn, posts, store, requests, blind, slipped, spent>>
  BY DEF SendMessage, Initialize
<1>3. posts \in Nat /\ loggedIn \in BOOLEAN
  BY <1>1 DEF DataTypes
<1>4. /\ Sound(r[1], r[2], posts) /\ r[1].failed = ws.failed
      /\ \A s \in Sockets : socket[s].registered => r[2][s] = socket[s]
  BY <1>1, <1>3, InitializeSound
<1> HIDE DEF r
<1>5. Sound(ws, socket, posts)'
  BY <1>2, <1>4
<1>6. DataTypes' /\ LogoutKnown'
  BY <1>1, <1>2 DEF DataTypes, LogoutKnown
<1>7. Pursued'
  BY <1>1, <1>2, <1>4 DEF Pursued, NewestPage, OnItsWay
<1> QED
  BY <1>5, <1>6, <1>7, ClientInvParts, PTL

\* Logging in asks for the newest page, so whatever is missing is on its way.
LEMMA LogInInv ==
  ASSUME ClientInv, LogIn
  PROVE  ClientInv'
<1>1. Sound(ws, socket, posts) /\ DataTypes
  BY ClientInvParts
<1> DEFINE r == Initialized(ws, socket, TRUE)
<1>2. /\ loggedIn' = TRUE /\ slipped' = FALSE /\ ws' = r[1] /\ socket' = r[2]
      /\ requests' = [requests EXCEPT !.asked = @ + 1]
      /\ UNCHANGED <<posts, store, blind, spent>>
  BY DEF LogIn, Initialize, AskForPosts
<1>3. posts \in Nat /\ requests \in [asked : Nat, answers : SUBSET (0..posts)]
  BY <1>1 DEF DataTypes
<1>4. Sound(r[1], r[2], posts)
  BY <1>1, <1>3, InitializeSound
<1> HIDE DEF r
<1>5. Sound(ws, socket, posts)'
  BY <1>2, <1>4
<1>6. requests' \in [asked : Nat, answers : SUBSET (0..posts)] /\ requests'.asked > 0
  BY <1>2, <1>3
<1>7. DataTypes' /\ LogoutKnown' /\ Pursued'
  BY <1>1, <1>2, <1>6 DEF DataTypes, LogoutKnown, Pursued, OnItsWay
<1> QED
  BY <1>5, <1>7, ClientInvParts, PTL

\* A socket that a logout leaves is as it was, or has no registration any more.
LEMMA RevokedSound ==
  ASSUME NEW client, NEW n \in Nat, NEW sockets, Sound(client, sockets, n),
         NEW s \in Sockets, sockets[s].state = "connecting",
         NEW r \in Revoked(sockets[s])
  PROVE  Sound(client, [sockets EXCEPT ![s] = r], n)
<1> DEFINE new == [sockets EXCEPT ![s] = r]
<1>1. sockets \in [Sockets -> SocketRecord]
  BY DEF Sound
<1>2. /\ r \in SocketRecord /\ r.state = sockets[s].state /\ r.next = sockets[s].next
      /\ r.registered => sockets[s].registered
  BY <1>1 DEF Revoked, SocketRecord
<1>3. new \in [Sockets -> SocketRecord] /\ \A t \in Sockets : new[t] = IF t = s THEN r ELSE sockets[t]
  BY <1>1, <1>2
<1> HIDE DEF new
<1>4. Sound(client, new, n)
  BY <1>2, <1>3 DEF Sound
<1> QED BY <1>4 DEF new

\* close() leaves the socket of a handshake under way as it is.
LEMMA CloseKeeps ==
  ASSUME NEW client, NEW sockets, CloseSocket(sockets, client)[2].conn # NoSocket,
         NEW n \in Nat, Sound(client, sockets, n)
  PROVE  CloseSocket(sockets, client)[1] = sockets
BY SocketAssumption DEF CloseSocket, Sound

\* Only a handshake under way or a timer is left of the client after close().
LEMMA LogOutInv ==
  ASSUME ClientInv, LogOut
  PROVE  ClientInv'
<1>1. Sound(ws, socket, posts) /\ DataTypes
  BY ClientInvParts
<1> DEFINE closed == CloseSocket(socket, ws)
<1>2. /\ loggedIn' = FALSE /\ ws' = closed[2] /\ store' = {}
      /\ \/ closed[2].conn = NoSocket /\ socket' = closed[1]
         \/ /\ closed[2].conn # NoSocket
            /\ \E r \in Revoked(socket[ws.conn]) : socket' = [socket EXCEPT ![ws.conn] = r]
      /\ slipped' = (ws.timers > 0 \/ (ws.conn # NoSocket /\ socket[ws.conn].state = "connecting"))
      /\ spent.logouts < MaxLogouts /\ spent' = [spent EXCEPT !.logouts = @ + 1]
      /\ UNCHANGED <<posts, requests, blind>>
  BY DEF LogOut
<1>3. posts \in Nat /\ spent \in Spent /\ MaxLogouts \in Nat
  BY <1>1, SocketAssumption DEF DataTypes, Spent
<1>4. /\ Sound(closed[2], closed[1], posts) /\ closed[2].timers = ws.timers
      /\ closed[2].conn # NoSocket => closed[2].conn = ws.conn /\ socket[ws.conn].state = "connecting"
  BY <1>1, <1>3, CloseSound
<1>a. closed[2].conn # NoSocket => closed[1] = socket
  BY <1>1, <1>3, CloseKeeps
<1> HIDE DEF closed
<1>5. Sound(ws, socket, posts)'
  <2>1. CASE closed[2].conn = NoSocket
    BY <1>2, <1>4, <2>1
  <2>2. CASE closed[2].conn # NoSocket
    <3>1. /\ ws.conn \in Sockets /\ socket[ws.conn].state = "connecting"
          /\ Sound(closed[2], socket, posts)
      BY <1>1, <1>4, <1>a, <2>2 DEF Sound
    <3>2. PICK r \in Revoked(socket[ws.conn]) : socket' = [socket EXCEPT ![ws.conn] = r]
      BY <1>2, <2>2
    <3>3. Sound(closed[2], [socket EXCEPT ![ws.conn] = r], posts)
      BY <1>3, <3>1, RevokedSound
    <3> QED BY <1>2, <3>2, <3>3
  <2> QED BY <2>1, <2>2
<1>6. spent.logouts + 1 \in 0..MaxLogouts
  BY <1>2, <1>3 DEF Spent
<1>7. spent' \in Spent
  BY <1>2, <1>3, <1>6 DEF Spent
<1>8. DataTypes'
  BY <1>1, <1>2, <1>7 DEF DataTypes, Spent
<1>9. LogoutKnown' /\ Pursued'
  BY <1>2, <1>4 DEF LogoutKnown, Pursued
<1> QED
  BY <1>5, <1>8, <1>9, ClientInvParts, PTL

LEMMA PeriodicSyncInv ==
  ASSUME ClientInv, PeriodicSync
  PROVE  ClientInv'
<1>1. Sound(ws, socket, posts) /\ DataTypes /\ LogoutKnown
  BY ClientInvParts
<1>2. /\ requests' = [requests EXCEPT !.asked = @ + 1]
      /\ UNCHANGED <<loggedIn, ws, socket, posts, store, blind, slipped, spent>>
  BY DEF PeriodicSync, AskForPosts
<1>3. requests' \in [asked : Nat, answers : SUBSET (0..posts)] /\ requests'.asked > 0
  BY <1>1, <1>2 DEF DataTypes
<1>4. Sound(ws, socket, posts)'
  BY <1>1, <1>2
<1>5. DataTypes' /\ LogoutKnown' /\ Pursued'
  BY <1>1, <1>2, <1>3 DEF DataTypes, LogoutKnown, Pursued, OnItsWay
<1> QED
  BY <1>4, <1>5, ClientInvParts, PTL

\* A new post is blind, or a registered socket has it still before it; of the
\* older ones, those of the newest page were in the page before.
LEMMA PostInv ==
  ASSUME ClientInv, Post
  PROVE  ClientInv'
<1>1. Sound(ws, socket, posts) /\ DataTypes /\ LogoutKnown /\ Pursued
  BY ClientInvParts
<1>2. /\ posts' = posts + 1
      /\ blind' = IF \E s \in Sockets : socket[s].registered THEN blind ELSE blind \cup {posts + 1}
      /\ UNCHANGED <<loggedIn, ws, socket, store, requests, slipped, spent>>
  BY DEF Post
<1>3. posts \in Nat /\ Page \in Nat
  BY <1>1, SocketAssumption DEF DataTypes
<1>4. \A s \in Sockets : socket[s].registered => /\ socket[s].next \in 1..(posts + 1)
                                                 /\ socket[s].next \in 1..((posts + 1) + 1)
  BY <1>1, <1>3 DEF Sound
<1>5. Sound(ws, socket, posts + 1)
  BY <1>1, <1>4 DEF Sound
<1>6. Sound(ws, socket, posts)'
  BY <1>2, <1>5
<1>7. DataTypes'
  <2>1. 1..posts \subseteq 1..(posts + 1) /\ 0..posts \subseteq 0..(posts + 1)
        /\ posts + 1 \in 1..(posts + 1) /\ posts + 1 \in Nat
    BY <1>3
  <2>2. requests \in [asked : Nat, answers : SUBSET (0..(posts + 1))]
    BY <1>1, <2>1 DEF DataTypes
  <2> QED
    BY <1>1, <1>2, <2>1, <2>2 DEF DataTypes
<1>8. LogoutKnown'
  BY <1>1, <1>2 DEF LogoutKnown
<1>9. Pursued'
  <2> SUFFICES ASSUME loggedIn, spent.lost = 0,
                      NEW p \in NewestPage(posts + 1) \ (store \cup blind')
               PROVE  OnItsWay(p)
    BY <1>2 DEF Pursued, NewestPage, OnItsWay
  <2>1. p \in 1..(posts + 1) /\ p + Page > posts + 1 /\ p \notin blind
    BY <1>2 DEF NewestPage
  <2>2. CASE p = posts + 1
    <3> PICK s \in Sockets : socket[s].registered
      BY <1>2, <2>2
    <3> QED
      BY <1>3, <1>4, <2>2 DEF OnItsWay
  <2>3. CASE p # posts + 1
    <3>1. p \in NewestPage(posts)
      BY <1>3, <2>1, <2>3 DEF NewestPage
    <3> QED
      BY <1>1, <2>1, <3>1 DEF Pursued
  <2> QED
    BY <2>2, <2>3
<1> QED
  BY <1>6, <1>7, <1>8, <1>9, ClientInvParts, PTL

\* A page of the moment has every post that there is.
LEMMA AnswerPostsInv ==
  ASSUME ClientInv, AnswerPosts
  PROVE  ClientInv'
<1>1. Sound(ws, socket, posts) /\ DataTypes /\ LogoutKnown /\ Pursued
  BY ClientInvParts
<1>2. /\ requests.asked > 0
      /\ requests' = [asked |-> requests.asked - 1, answers |-> requests.answers \cup {posts}]
      /\ UNCHANGED <<loggedIn, ws, socket, posts, store, blind, slipped, spent>>
  BY DEF AnswerPosts
<1>3. posts \in 0..posts /\ posts \in Nat
  BY <1>1 DEF DataTypes
<1>4. requests' \in [asked : Nat, answers : SUBSET (0..posts)]
  BY <1>1, <1>2, <1>3 DEF DataTypes
<1>5. Sound(ws, socket, posts)'
  BY <1>1, <1>2
<1>6. DataTypes' /\ LogoutKnown'
  BY <1>1, <1>2, <1>4 DEF DataTypes, LogoutKnown
<1>7. Pursued'
  <2> SUFFICES ASSUME NEW p \in NewestPage(posts)  PROVE OnItsWay(p)'
    BY <1>2 DEF Pursued, NewestPage
  <2>1. p <= posts
    BY <1>3 DEF NewestPage
  <2> QED
    BY <1>2, <2>1 DEF OnItsWay
<1> QED
  BY <1>5, <1>6, <1>7, ClientInvParts, PTL

\* What was on its way in the answer is in the page that is stored: a post of
\* the newest page is in each older page that it can be in.
LEMMA ReceivePostsInv ==
  ASSUME ClientInv, NEW n \in 0..MaxPosts, ReceivePosts(n)
  PROVE  ClientInv'
<1>1. Sound(ws, socket, posts) /\ DataTypes /\ LogoutKnown /\ Pursued
  BY ClientInvParts
<1>2. /\ n \in requests.answers /\ store' = store \cup NewestPage(n)
      /\ requests' = [requests EXCEPT !.answers = @ \ {n}]
      /\ UNCHANGED <<loggedIn, ws, socket, posts, blind, slipped, spent>>
  BY DEF ReceivePosts
<1>3. posts \in Nat /\ n \in 0..posts /\ Page \in Nat
  BY <1>1, <1>2, SocketAssumption DEF DataTypes
<1>4. NewestPage(n) \subseteq 1..posts
  BY <1>3 DEF NewestPage
<1>5. /\ requests' \in [asked : Nat, answers : SUBSET (0..posts)]
      /\ requests'.asked = requests.asked /\ requests'.answers = requests.answers \ {n}
  BY <1>1, <1>2 DEF DataTypes
<1>6. Sound(ws, socket, posts)'
  BY <1>1, <1>2
<1>7. DataTypes' /\ LogoutKnown'
  BY <1>1, <1>2, <1>4, <1>5 DEF DataTypes, LogoutKnown
<1>8. Pursued'
  <2> SUFFICES ASSUME loggedIn, spent.lost = 0,
                      NEW p \in NewestPage(posts) \ (store' \cup blind)
               PROVE  OnItsWay(p)'
    BY <1>2 DEF Pursued, NewestPage
  <2>1. OnItsWay(p) /\ p \notin NewestPage(n)
    BY <1>1, <1>2 DEF Pursued
  <2>2. ~(p <= n)
    BY <1>3, <2>1 DEF NewestPage
  <2>3. CASE \E m \in requests.answers : p <= m
    <3> PICK m \in requests.answers : p <= m
      BY <2>3
    <3>1. m \in requests'.answers
      BY <1>5, <2>2
    <3> QED
      BY <3>1 DEF OnItsWay
  <2> QED
    BY <1>2, <1>5, <2>1, <2>3 DEF OnItsWay
<1> QED
  BY <1>6, <1>7, <1>8, ClientInvParts, PTL

LEMMA LosePostsInv ==
  ASSUME ClientInv, LosePosts
  PROVE  ClientInv'
<1>1. Sound(ws, socket, posts) /\ DataTypes /\ LogoutKnown
  BY ClientInvParts
<1>2. /\ requests.asked > 0 /\ requests' = [requests EXCEPT !.asked = @ - 1]
      /\ spent.lost < MaxLost /\ spent' = [spent EXCEPT !.lost = @ + 1]
      /\ UNCHANGED <<loggedIn, ws, socket, posts, store, blind, slipped>>
  BY DEF LosePosts
<1>3. requests' \in [asked : Nat, answers : SUBSET (0..posts)]
  BY <1>1, <1>2 DEF DataTypes
<1>4. spent \in Spent /\ MaxLost \in Nat
  BY <1>1, SocketAssumption DEF DataTypes, Spent
<1>5. spent.lost + 1 \in 0..MaxLost /\ spent.lost + 1 # 0
  BY <1>2, <1>4 DEF Spent
<1>6. spent' \in Spent /\ spent'.lost # 0
  BY <1>2, <1>4, <1>5 DEF Spent
<1>7. Sound(ws, socket, posts)'
  BY <1>1, <1>2
<1>8. DataTypes' /\ LogoutKnown' /\ Pursued'
  BY <1>1, <1>2, <1>3, <1>6 DEF DataTypes, LogoutKnown, Pursued, Spent
<1> QED
  BY <1>7, <1>8, ClientInvParts, PTL

LEMMA NextClientInv ==
  ASSUME ClientInv, [ClientNext]_clientVars
  PROVE  ClientInv'
<1>1. CASE UNCHANGED clientVars
  <2>1. Sound(ws, socket, posts) /\ DataTypes /\ LogoutKnown /\ Pursued
    BY ClientInvParts
  <2>2. UNCHANGED <<loggedIn, ws, socket, posts, store, requests, blind, slipped, spent>>
    BY <1>1 DEF clientVars
  <2>3. Sound(ws, socket, posts)'
    BY <2>1, <2>2
  <2>4. DataTypes' /\ LogoutKnown' /\ Pursued'
    BY <2>1, <2>2 DEF DataTypes, LogoutKnown, Pursued, OnItsWay, NewestPage
  <2> QED
    BY <2>3, <2>4, ClientInvParts, PTL
<1>2. ASSUME NEW s \in Sockets,
             OnOpen(s) \/ OnClose(s) \/ AuthTimeout(s) \/ HubRegister(s) \/ OnMessage(s)
      PROVE  ClientInv'
  BY <1>2, OnOpenInv, OnCloseInv, AuthTimeoutInv, HubRegisterInv, OnMessageInv
<1>3. CASE OnTimer \/ SendMessage \/ LogIn \/ LogOut \/ PeriodicSync
  BY <1>3, OnTimerInv, SendMessageInv, LogInInv, LogOutInv, PeriodicSyncInv
<1>4. CASE Post \/ AnswerPosts \/ LosePosts
  BY <1>4, PostInv, AnswerPostsInv, LosePostsInv
<1>5. ASSUME NEW n \in 0..MaxPosts, ReceivePosts(n)
      PROVE  ClientInv'
  BY <1>5, ReceivePostsInv
<1> QED
  BY <1>1, <1>2, <1>3, <1>4, <1>5 DEF ClientNext

----------------------------------------------------------------------------
(* What follows.                                                           *)

\* The invariant that relates the client's connection, the sockets, the
\* requests and the posts that are missing holds in every state.
THEOREM ClientInvariant == ClientSpec => []ClientInv
<1>1. ClientInit => ClientInv
  BY InitClientInv
<1>2. ClientInv /\ [ClientNext]_clientVars => ClientInv'
  BY NextClientInv
<1> QED
  BY <1>1, <1>2, PTL DEF ClientSpec

\* Every variable keeps its type, the bounds included.
THEOREM ClientTypes == ClientSpec => []ClientTypeOK
<1>1. ClientInv => ClientTypeOK
  BY DEF ClientInv
<1> QED
  BY <1>1, ClientInvariant, PTL

\* Timers, typing and logging in never give the client a second live socket,
\* and it forgets none (initialize, websocket_client.jsx:31-34).
THEOREM SocketUnique == ClientSpec => []OneSocket
<1>1. ClientInv => OneSocket
  BY DEF ClientInv
<1> QED
  BY <1>1, ClientInvariant, PTL

\* A client is connected after a logout only if close() found a handshake
\* under way or a timer pending.
THEOREM LogoutDisconnects == ClientSpec => []NoSocketAfterLogout
<1>1. ClientInv => NoSocketAfterLogout
  BY DEF ClientInv, NoSocketAfterLogout
<1> QED
  BY <1>1, ClientInvariant, PTL

\* In a quiet state nothing can be on its way: nothing is asked or answered,
\* an open socket means that no failure is pending, and a registered socket can
\* only be the open one, which has delivered everything. So what is missing of
\* the newest page is blind.
THEOREM GapsAreBlind == ClientSpec => []GapOnlyFromBlindness
<1>1. ClientInv => GapOnlyFromBlindness
  <2> SUFFICES ASSUME ClientInv, Quiet, spent.lost = 0,
                      NEW p \in NewestPage(posts) \ (store \cup blind)
               PROVE  FALSE
    BY DEF GapOnlyFromBlindness
  <2>1. Sound(ws, socket, posts) /\ DataTypes /\ Pursued
    BY ClientInvParts
  <2>2. PICK s \in Sockets : /\ socket[s].state = "open"
                             /\ socket[s].registered => socket[s].next > posts
    BY DEF Quiet
  <2>3. ~ws.failed /\ ws.conn = s
    BY <2>1, <2>2 DEF Sound
  <2>4. requests.asked = 0 /\ requests.answers = {} /\ loggedIn
    BY DEF Quiet
  <2>5. PICK t \in Sockets : socket[t].registered /\ socket[t].next <= p
    BY <2>1, <2>3, <2>4 DEF Pursued, OnItsWay
  <2>6. t = s
    BY <2>1, <2>3, <2>5 DEF Sound
  <2>7. p <= posts /\ p \in Nat /\ posts \in Nat /\ socket[s].next \in Nat
    BY <2>1 DEF DataTypes, NewestPage, Sound, SocketRecord
  <2> QED
    BY <2>2, <2>5, <2>6, <2>7
<1> QED
  BY <1>1, ClientInvariant, PTL
=============================================================================

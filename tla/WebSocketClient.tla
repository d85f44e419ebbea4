-------------------------- MODULE WebSocketClient --------------------------
(***************************************************************************)
(* The webapp's WebSocket client (client/websocket_client.jsx), its owner  *)
(* LoggedIn, and the resynchronisation that actions/websocket_actions.jsx  *)
(* hangs on it, for the posts of the channel on the screen.                *)
(*                                                                         *)
(* The server is the other end of WebHub: it accepts a socket, registers   *)
(* it with its hub some time later, and delivers what is posted from then  *)
(* on, in order and without a gap, until the socket closes (WebHub!NoGap)  *)
(* or its session is revoked. Left out: sessions revoked by others than    *)
(* the logout of this page, and the state CLOSING of a WebSocket.          *)
(***************************************************************************)
EXTENDS Naturals, FiniteSets

CONSTANTS
  Sockets,     \* identities of WebSocket objects, used again once closed
  Page,        \* posts that getPosts returns at most
  MaxPosts,    \* bound: posts made in the channel
  MaxDrops,    \* bound: sockets that fail or are cut
  MaxLost,     \* bound: getPosts requests that fail
  MaxTimers,   \* bound: reconnection timers pending when the user types
  MaxLogouts   \* bound: times the user logs out


VARIABLES
  loggedIn,    \* LoggedIn is mounted and the session cookie is there
  ws,          \* the WebSocketClient: conn, failed, timers
  socket,      \* the WebSocket objects and their ends at the server
  posts,       \* how many posts the channel has; post p is the p-th
  store,       \* the posts in the client's store
  requests,    \* getPosts requests on their way
  blind,       \* history: posts made while no socket was registered
  slipped,     \* history: close() found a connection under way
  spent        \* how much of each bound is used

clientVars == <<loggedIn, ws, socket, posts, store, requests, blind, slipped, spent>>

NoSocket == "no socket"

ASSUME SocketAssumption == /\ Sockets # {} /\ NoSocket \notin Sockets
                           /\ Page \in Nat \ {0}
                           /\ {MaxPosts, MaxDrops, MaxLost, MaxTimers, MaxLogouts} \subseteq Nat

\* A WebSocket that is not connected to anything: never opened, or closed.
Closed == [state |-> "closed", auth |-> "none", registered |-> FALSE, next |-> 0]

\* The session that the server finds for a new WebSocket. A "stale" one has a
\* session that was revoked since.
Authenticated(cookie) == IF cookie THEN "session" ELSE "none"

\* The identity that a new WebSocket gets.
Fresh(sockets) == CHOOSE s \in Sockets : sockets[s].state = "closed"

Live(s) == socket[s].state # "closed"

NewestPage(n) == {p \in 1..n : p + Page > n}

----------------------------------------------------------------------------
(* The client object.                                                      *)

\* Mutant of Initialized: it connects whether or not there is a connection.
InitializedAgain(client, sockets, cookie) ==
  LET s == Fresh(sockets)
  IN  <<[client EXCEPT !.conn = s],
        [sockets EXCEPT ![s] = [Closed EXCEPT !.state = "connecting",
                                              !.auth = Authenticated(cookie)]]>>

\* initialize(): nothing when there is a connection, else a new WebSocket.
\* The browser sends the session cookie of that moment with it.
Initialized(client, sockets, cookie) ==
  IF client.conn # NoSocket
  THEN <<client, sockets>>
  ELSE LET s == Fresh(sockets)
       IN  <<[client EXCEPT !.conn = s],
             [sockets EXCEPT ![s] = [Closed EXCEPT !.state = "connecting",
                                                   !.auth = Authenticated(cookie)]]>>

Initialize(cookie) ==
  LET r == Initialized(ws, socket, cookie)
  IN  ws' = r[1] /\ socket' = r[2]

\* reconnect(false): what the client does when it suspects a gap. Of all it
\* asks for, the model follows the posts of the current channel. Without a
\* user there is no current team, and nothing is asked.
AskForPosts(n) == requests' = [requests EXCEPT !.asked = @ + n]

\* The handshake succeeds: onopen. Only a client that has failed before
\* resynchronises; a first connection does not.
OnOpen(s) ==
  /\ socket[s].state = "connecting"
  /\ ws.conn = s
  /\ socket' = [socket EXCEPT ![s].state = "open"]
  /\ ws' = [ws EXCEPT !.failed = FALSE]
  /\ AskForPosts(IF ws.failed /\ loggedIn THEN 1 ELSE 0)
  /\ UNCHANGED <<loggedIn, posts, store, blind, slipped, spent>>

\* Mutant of OnClose: the failure is not counted.
OnCloseUncounted(s) ==
  /\ Live(s)
  /\ spent.drops < MaxDrops
  /\ socket' = [socket EXCEPT ![s] = Closed]
  /\ ws' = [ws EXCEPT !.conn = NoSocket, !.timers = @ + 1]
  /\ spent' = [spent EXCEPT !.drops = @ + 1]
  /\ UNCHANGED <<loggedIn, posts, store, requests, blind, slipped>>

\* Mutant of OnClose: no timer is set while the user is logged in.
OnCloseGivesUp(s) ==
  /\ Live(s)
  /\ spent.drops < MaxDrops
  /\ socket' = [socket EXCEPT ![s] = Closed]
  /\ ws' = [ws EXCEPT !.conn = NoSocket, !.failed = TRUE]
  /\ spent' = [spent EXCEPT !.drops = @ + 1]
  /\ UNCHANGED <<loggedIn, posts, store, requests, blind, slipped>>

\* The network or the server ends a socket: onclose. What the server still
\* had for it is lost. connectFailCount matters as zero or not.
OnClose(s) ==
  /\ Live(s)
  /\ spent.drops < MaxDrops
  /\ socket' = [socket EXCEPT ![s] = Closed]
  /\ ws' = [ws EXCEPT !.conn = NoSocket, !.failed = TRUE, !.timers = @ + 1]
  /\ spent' = [spent EXCEPT !.drops = @ + 1]
  /\ UNCHANGED <<loggedIn, posts, store, requests, blind, slipped>>

\* The server ends a socket that did not authenticate in time
\* (app/web_conn.go): the client sees an onclose like any other. It may end a
\* stale one, if an event has shown it in that time that the session is gone.
AuthTimeout(s) ==
  /\ socket[s].state = "open" /\ socket[s].auth # "session"
  /\ socket' = [socket EXCEPT ![s] = Closed]
  /\ ws' = [ws EXCEPT !.conn = NoSocket, !.failed = TRUE, !.timers = @ + 1]
  /\ UNCHANGED <<loggedIn, posts, store, requests, blind, slipped, spent>>

\* The timer set by an onclose. Nobody cancels it.
OnTimer ==
  /\ ws.timers > 0
  /\ LET r == Initialized([ws EXCEPT !.timers = @ - 1], socket, loggedIn)
     IN  ws' = r[1] /\ socket' = r[2]
  /\ UNCHANGED <<loggedIn, posts, store, requests, blind, slipped, spent>>

\* sendMessage of a user_typing action: it connects at once when the client
\* has no connection.
SendMessage ==
  /\ loggedIn
  /\ ws.conn = NoSocket
  /\ ws.timers < MaxTimers
  /\ Initialize(loggedIn)
  /\ UNCHANGED <<loggedIn, posts, store, requests, blind, slipped, spent>>

\* Mutant of CloseSocket: the closed socket keeps its onclose handler, which
\* runs when the closing handshake ends.
CloseSocketLoudly(sockets, client) ==
  IF client.conn # NoSocket /\ sockets[client.conn].state = "open"
  THEN <<[sockets EXCEPT ![client.conn] = Closed],
         [client EXCEPT !.conn = NoSocket, !.failed = TRUE, !.timers = @ + 1]>>
  ELSE <<sockets, [client EXCEPT !.failed = FALSE]>>

\* close(): only an open socket is closed, and its onclose handler is
\* replaced by one that does nothing. The count of failures is reset.
CloseSocket(sockets, client) ==
  IF client.conn # NoSocket /\ sockets[client.conn].state = "open"
  THEN <<[sockets EXCEPT ![client.conn] = Closed],
         [client EXCEPT !.conn = NoSocket, !.failed = FALSE]>>
  ELSE <<sockets, [client EXCEPT !.failed = FALSE]>>

----------------------------------------------------------------------------
(* The application around it.                                              *)

\* LoggedIn mounts: it initializes the client, and the channel that appears
\* loads its posts (loadInitialPosts).
LogIn ==
  /\ ~loggedIn
  /\ loggedIn' = TRUE
  /\ Initialize(TRUE)
  /\ AskForPosts(1)
  /\ slipped' = FALSE
  /\ UNCHANGED <<posts, store, blind, spent>>

\* What a revoked session leaves of a socket that close() has not closed. Its
\* request comes too late and finds no session; or the hub has its registration
\* and sends it no more (web_conn.go:288-292); or the registration comes after
\* the invalidation, which misses it (the run hub_needs_session).
Revoked(sock) ==
  IF sock.auth # "session" THEN {sock}
  ELSE {[sock EXCEPT !.auth = "stale", !.registered = FALSE]}
         \cup {r \in {sock, [sock EXCEPT !.auth = "none"]} : ~sock.registered}

\* The user logs out: the server revokes the session, LoggedIn unmounts, which
\* closes the client, and the store of the user is emptied.
LogOut ==
  /\ loggedIn
  /\ spent.logouts < MaxLogouts
  /\ loggedIn' = FALSE
  /\ LET closed == CloseSocket(socket, ws)
     IN  /\ ws' = closed[2]
         /\ \/ closed[2].conn = NoSocket /\ socket' = closed[1]
            \/ /\ closed[2].conn # NoSocket
               /\ \E r \in Revoked(socket[ws.conn]) : socket' = [socket EXCEPT ![ws.conn] = r]
  /\ slipped' = (ws.timers > 0 \/ (ws.conn # NoSocket /\ socket[ws.conn].state = "connecting"))
  /\ store' = {}
  /\ spent' = [spent EXCEPT !.logouts = @ + 1]
  /\ UNCHANGED <<posts, requests, blind>>

\* Mutant of PeriodicSync: it only runs for a client without a connection.
PeriodicSyncIfClosed ==
  /\ loggedIn
  /\ ws.conn = NoSocket
  /\ requests.asked = 0 /\ requests.answers = {}
  /\ AskForPosts(1)
  /\ UNCHANGED <<loggedIn, ws, socket, posts, store, blind, slipped, spent>>

\* Every fifteen minutes (startPeriodicSync). The guard on requests names
\* what the interval means: the last ones have ended long ago.
PeriodicSync ==
  /\ loggedIn
  /\ requests.asked = 0 /\ requests.answers = {}
  /\ AskForPosts(1)
  /\ UNCHANGED <<loggedIn, ws, socket, posts, store, blind, slipped, spent>>

----------------------------------------------------------------------------
(* The server.                                                             *)

\* Somebody posts. The hub has the event for the sockets registered by now.
Post ==
  /\ posts < MaxPosts
  /\ posts' = posts + 1
  /\ blind' = IF \E s \in Sockets : socket[s].registered THEN blind ELSE blind \cup {posts + 1}
  /\ UNCHANGED <<loggedIn, ws, socket, store, requests, slipped, spent>>

\* The hub receives the registration of an authenticated connection, which
\* may be before or after the client has seen the end of the handshake.
HubRegister(s) ==
  /\ Live(s) /\ socket[s].auth = "session" /\ ~socket[s].registered
  /\ socket' = [socket EXCEPT ![s].registered = TRUE, ![s].next = posts + 1]
  /\ UNCHANGED <<loggedIn, ws, posts, store, requests, blind, slipped, spent>>

\* onmessage with a posted event: handleNewPostEvent stores the post.
OnMessage(s) ==
  /\ socket[s].state = "open" /\ socket[s].registered
  /\ socket[s].next <= posts
  /\ store' = store \cup {socket[s].next}
  /\ socket' = [socket EXCEPT ![s].next = @ + 1]
  /\ UNCHANGED <<loggedIn, ws, posts, requests, blind, slipped, spent>>

\* The server answers a getPosts request with the newest page of then.
AnswerPosts ==
  /\ requests.asked > 0
  /\ requests' = [asked |-> requests.asked - 1, answers |-> requests.answers \cup {posts}]
  /\ UNCHANGED <<loggedIn, ws, socket, posts, store, blind, slipped, spent>>

\* The client receives the answer. Two answers of the same moment are one.
ReceivePosts(n) ==
  /\ n \in requests.answers
  /\ store' = store \cup NewestPage(n)
  /\ requests' = [requests EXCEPT !.answers = @ \ {n}]
  /\ UNCHANGED <<loggedIn, ws, socket, posts, blind, slipped, spent>>

\* A request or its answer is lost. The error is logged; nobody asks again.
LosePosts ==
  /\ requests.asked > 0
  /\ spent.lost < MaxLost
  /\ requests' = [requests EXCEPT !.asked = @ - 1]
  /\ spent' = [spent EXCEPT !.lost = @ + 1]
  /\ UNCHANGED <<loggedIn, ws, socket, posts, store, blind, slipped>>

----------------------------------------------------------------------------
ClientInit ==
  /\ loggedIn = FALSE
  /\ ws = [conn |-> NoSocket, failed |-> FALSE, timers |-> 0]
  /\ socket = [s \in Sockets |-> Closed]
  /\ posts = 0
  /\ store = {}
  /\ requests = [asked |-> 0, answers |-> {}]
  /\ blind = {}
  /\ slipped = FALSE
  /\ spent = [drops |-> 0, lost |-> 0, logouts |-> 0]

ClientNext ==
  \/ \E s \in Sockets : \/ OnOpen(s) \/ OnClose(s) \/ AuthTimeout(s)
                        \/ HubRegister(s) \/ OnMessage(s)
  \/ OnTimer \/ SendMessage
  \/ LogIn \/ LogOut \/ PeriodicSync
  \/ Post \/ AnswerPosts \/ LosePosts
  \/ \E n \in 0..MaxPosts : ReceivePosts(n)

ClientSpec == ClientInit /\ [][ClientNext]_clientVars

\* Timers fire, handshakes end one way or the other, the hub takes what is
\* sent to it, requests are answered, and the periodic synchronisation runs.
\* Nothing is assumed of the user, of posts, of failures, or of what ends a
\* stale socket.
ClientFairness ==
  /\ WF_clientVars(OnTimer)
  /\ WF_clientVars(PeriodicSync)
  /\ WF_clientVars(AnswerPosts)
  /\ \A n \in 0..MaxPosts : WF_clientVars(ReceivePosts(n))
  /\ \A s \in Sockets : /\ WF_clientVars(OnOpen(s))
                        /\ WF_clientVars(AuthTimeout(s) /\ socket[s].auth = "none")
                        /\ WF_clientVars(HubRegister(s))
                        /\ WF_clientVars(OnMessage(s))

ClientFairSpec == ClientSpec /\ ClientFairness

----------------------------------------------------------------------------
(* Properties.                                                             *)

ClientTypeOK ==
  /\ loggedIn \in BOOLEAN
  /\ ws \in [conn : Sockets \cup {NoSocket}, failed : BOOLEAN, timers : Nat]
  /\ socket \in [Sockets -> [state : {"connecting", "open", "closed"},
                             auth : {"none", "session", "stale"},
                             registered : BOOLEAN, next : Nat]]
  /\ posts \in Nat
  /\ store \subseteq 1..posts
  /\ requests \in [asked : Nat, answers : SUBSET (0..posts)]
  /\ blind \subseteq 1..posts
  /\ slipped \in BOOLEAN
  /\ spent \in [drops : 0..MaxDrops, lost : 0..MaxLost, logouts : 0..MaxLogouts]

\* The only live socket is the one the client knows as conn. A second one
\* would deliver every event twice and spoil the sequence numbers, since both
\* share eventSequence (websocket_client.jsx:116-121). Timers, sendMessage
\* and LoggedIn all call initialize() with no regard to each other.
OneSocket == \A s \in Sockets : Live(s) <=> ws.conn = s

\* After a logout the client is connected only when close() came while a
\* connection was under way or a timer was pending: it stops neither.
NoSocketAfterLogout == ~loggedIn /\ ws.conn # NoSocket => slipped

Quiet == /\ loggedIn
         /\ requests.asked = 0 /\ requests.answers = {}
         /\ \E s \in Sockets : /\ socket[s].state = "open"
                               /\ socket[s].registered => socket[s].next > posts

\* A client with an open connection and nothing on its way lacks a post of
\* the newest page only if the post was made while no socket of a valid session
\* was registered, or if a getPosts request was lost. A post made while one was
\* registered, and cut off with it, comes back with the resynchronisation that
\* the failure entails. The windows without such a socket are those before the
\* hub has a registration, and the time of a stale socket: after a logout during
\* a handshake and another login, initialize() takes it for a connection.
GapOnlyFromBlindness ==
  Quiet /\ spent.lost = 0 => NewestPage(posts) \ store \subseteq blind

\* A post the client still lacks, with nothing lost and none blind, is on its
\* way: on a registered socket, or in an answer, asked for, or to be asked for
\* when the connection that failed is open again.
OnItsWay(p) ==
  \/ \E s \in Sockets : socket[s].registered /\ socket[s].next <= p
  \/ ws.failed \/ requests.asked > 0
  \/ \E n \in requests.answers : p <= n

\* The inductive strengthening of OneSocket, NoSocketAfterLogout and
\* GapOnlyFromBlindness.
ClientInv ==
  /\ ClientTypeOK
  /\ OneSocket
  /\ \A s \in Sockets : /\ socket[s].registered => Live(s) /\ socket[s].next \in 1..(posts + 1)
                        /\ socket[s].state = "open" => ~ws.failed
  /\ ~loggedIn /\ (ws.conn # NoSocket \/ ws.timers > 0) => slipped
  /\ loggedIn /\ spent.lost = 0 => \A p \in NewestPage(posts) \ (store \cup blind) : OnItsWay(p)

\* While the user stays logged in, whatever the client lacks of the newest
\* page it gets in the end, through reconnections, lost requests and the
\* posts that fell between a synchronisation and a registration.
CaughtUp == (loggedIn /\ NewestPage(posts) \subseteq store) \/ ~loggedIn
EventuallyCaughtUp == (loggedIn /\ ~CaughtUp) ~> CaughtUp

\* A client without a connection gets one, which the hub sends events, while the
\* user is logged in; but for a stale socket, which nothing need ever end.
EventuallyConnected ==
  loggedIn ~> \/ ~loggedIn
              \/ \E s \in Sockets : \/ socket[s].state = "open" /\ socket[s].registered
                                    \/ socket[s].auth = "stale"
=============================================================================

------------------------------- MODULE WebHub -------------------------------
(***************************************************************************)
(* A websocket hub and its connections: app/web_hub.go, app/web_conn.go,   *)
(* app/websocket_router.go, api4/websocket.go and wsapi.                   *)
(*                                                                         *)
(* Goroutines: the hub (Start); for every connection the HTTP handler,     *)
(* which registers the connection and then becomes its reader (Pump,       *)
(* readPump, ServeWebSocket), and its writer (writePump); the callers of   *)
(* Publish and InvalidateUser; Stop.  An action is a channel operation, or *)
(* a step between two of them at which another goroutine could interfere.  *)
(* The index of the hub is HubConnectionIndex.                             *)
(*                                                                         *)
(* A connection keeps a token, a pointer to its session and the expiry of  *)
(* the session.  Its reader and the hub both write them, each write a step *)
(* of its own; what they read before the session is looked up is one step, *)
(* as only these two goroutines change it.                                 *)
(*                                                                         *)
(* Left out: the activity channel and the times of the last activity, the  *)
(* status goroutines that the hub spawns, the expiry of sessions by time,  *)
(* and the cluster.  The channels, teams and permissions that narrow the   *)
(* audience of an event are a choice of the hub (HubOmit).  A connection   *)
(* that authenticates again does so as the same user.                      *)
(***************************************************************************)
EXTENDS Integers, Sequences, FiniteSets, SequencesExt

CONSTANTS
  Conns,            \* websocket connections
  Users,            \* user ids
  UserOf,           \* the user whose session a connection presents
  SendCap,          \* SEND_QUEUE_SIZE
  SendSlow,         \* SEND_SLOW_WARN
  BroadcastCap,     \* BROADCAST_QUEUE_SIZE
  Requests,         \* the kinds of requests clients send
  StatusUsers,      \* users with a status that is not set manually, if EnableUserStatuses
  IdleTimeout,      \* SessionIdleTimeoutInMinutes > 0
  Audiences,        \* the audiences of the events of other goroutines
  Revocations,      \* the sets of sessions that a caller may remove from the store
  MaxEvents,        \* bound on the events published
  MaxRequests,      \* bound on the requests of every connection
  MaxInvalidations, \* bound on the calls of ClearSessionCacheForUser
  MaxLogins,        \* bound on the sessions created after one was revoked
  MaxRefills,       \* bound on the revoked sessions that get back into the cache
  MaxStops          \* 1 if the server may shut down, 0 to check it in service

ASSUME CapacityAssumption ==
  /\ SendCap \in Nat \ {0} /\ BroadcastCap \in Nat \ {0} /\ SendSlow \in 1..SendCap
  /\ StatusUsers \subseteq Users /\ IdleTimeout \in BOOLEAN
  /\ Requests \subseteq {"challenge", "ping", "typing"}
  /\ Audiences \subseteq Users \cup {"all"}
  /\ Revocations \subseteq SUBSET Conns
ASSUME UserAssumption ==
  UserOf \in [Conns -> Users] /\ "none" \notin Users /\ "all" \notin Users
ASSUME BoundAssumption ==
  /\ {MaxEvents, MaxInvalidations, MaxLogins, MaxRefills, MaxStops} \subseteq Nat
  /\ MaxRequests \in [Conns -> Nat]

VARIABLES
  hub,          \* where the goroutine of the hub is
  registerQ,    \* h.register, capacity 1
  unregisterQ,  \* h.unregister, capacity 1
  broadcastQ,   \* h.broadcast
  stop,         \* h.stop is closed; h.didStop is closed when hub = "stopped"
  event,        \* msg, the event the loop broadcasts
  toClose,      \* connections the stopping hub has still to close
  toOffline,    \* users it has still to set offline
  connections, connectionsByUserId, connectionIndexes, connectionCount,
  unregistered, closed, scope, candidates, next,   \* see HubConnectionIndex
  conn,         \* the goroutines and the fields of every connection
  session,      \* the session behind the token of a connection, in the store
  lingering,    \* those whose revoked session is in the session cache
  invalidating, \* users for which a caller is blocked in InvalidateUser
  published, requests, invalidations, logins, refills,  \* what the bounds count
  wire,         \* history: critical events written to the websocket
  due,          \* history: critical events the hub had for the connection
  again,        \* history: connections authenticated or registered again
  early,        \* history: connections unregistered before they were registered
  missed,       \* history: connections the last invalidation passed by
  torn,         \* history: connections whose session was taken away by one
                \* goroutine while the other relied on it
  panics        \* history: why the hub has panicked and started again

Index == INSTANCE HubConnectionIndex

channels  == <<registerQ, unregisterQ, broadcastQ, stop>>
closing   == <<toClose, toOffline>>
index     == <<connections, connectionsByUserId, connectionIndexes>>
loop      == <<scope, candidates, next, event>>
hubIndex  == <<index, connectionCount, unregistered, closed, loop>>
bounds    == <<published, requests, invalidations, logins, refills>>
sessions  == <<session, lingering>>
history   == <<wire, due, again, early, missed, torn, panics>>
outside   == <<sessions, invalidating, bounds>>
vars == <<hub, channels, closing, hubIndex, conn, outside, history>>

NoEvent == [id |-> 0, critical |-> TRUE, audience |-> "all"]
Message == NoEvent  \* a hello or a reply, which carries no published event

\* What a client must not miss: a published event that is not typing.
Critical(e) == e.critical /\ e.id # 0

Init ==
  /\ hub = "select"
  /\ registerQ = <<>> /\ unregisterQ = <<>> /\ broadcastQ = <<>>
  /\ stop = FALSE
  /\ event = NoEvent
  /\ toClose = <<>> /\ toOffline = {}
  /\ Index!Init
  /\ conn = [c \in Conns |->
       [handler |-> <<"new">>, writer |-> "none", send |-> <<>>, wsOpen |-> TRUE,
        endWritePump |-> FALSE, token |-> FALSE, held |-> TRUE, fresh |-> FALSE]]
  /\ session = [c \in Conns |-> "valid"] /\ lingering = {}
  /\ invalidating = {}
  /\ published = 0 /\ invalidations = 0 /\ logins = 0 /\ refills = 0
  /\ requests = [c \in Conns |-> 0]
  /\ wire = [c \in Conns |-> <<>>] /\ due = [c \in Conns |-> <<>>]
  /\ again = {} /\ early = {} /\ missed = {} /\ torn = {} /\ panics = {}

Stopped == hub = "stopped"
Handler(c) == conn[c].handler
At(c, step) == Handler(c)[1] = step

Goto(c, step) == conn' = [conn EXCEPT ![c].handler = step]

-----------------------------------------------------------------------------
(* Sessions: GetSession, and what IsAuthenticated writes *)

ConnsOf(u) == {c \in Conns : UserOf[c] = u}

\* What GetSession finds behind the token: the cache comes before the store.
Found(c) == IF c \in lingering THEN "valid" ELSE session[c]

\* An idle session is revoked: removed from the store, and with the others of
\* its user from the cache; then InvalidateUser is called.
GetSession(c) ==
  IF Found(c) = "idle"
  THEN /\ session' = [session EXCEPT ![c] = "gone"]
       /\ lingering' = lingering \ ConnsOf(UserOf[c])
  ELSE UNCHANGED sessions

\* History: a revoked session was found in the cache.
FoundInCache(c) == missed' = IF c \in lingering THEN missed \cup {c} ELSE missed

\* How IsAuthenticated goes on after GetSession, and the writes it makes one
\* after the other: session and expiry, or on an error token, session, expiry.
AfterGet(found) ==
  CASE found = "valid" -> "set" [] found = "idle" -> "revoke" [] OTHER -> "untoken"
FollowedBy == [set |-> "expire", untoken |-> "unset", unset |-> "unexpire"]
SessionSteps == {"set", "expire", "untoken", "unset", "unexpire"}

\* Mutant of Written: the expiry is stored before the session.
WrittenExpiryFirst(r, step) ==
  CASE step = "set"      -> [r EXCEPT !.fresh = TRUE]
    [] step = "expire"   -> [r EXCEPT !.held = TRUE]
    [] step = "untoken"  -> [r EXCEPT !.token = FALSE]
    [] step = "unset"    -> [r EXCEPT !.held = FALSE]
    [] step = "unexpire" -> [r EXCEPT !.fresh = FALSE]

\* A write of a field of a connection, by its reader or by the hub.
Written(r, step) ==
  CASE step = "set"      -> [r EXCEPT !.held = TRUE]
    [] step = "expire"   -> [r EXCEPT !.fresh = TRUE]
    [] step = "untoken"  -> [r EXCEPT !.token = FALSE]
    [] step = "unset"    -> [r EXCEPT !.held = FALSE]
    [] step = "unexpire" -> [r EXCEPT !.fresh = FALSE]

\* History: the session is taken away although its expiry says that it is
\* there, or the other goroutine is about to say so.
Tear(c, step, relied) ==
  torn' = IF step = "unset" /\ (conn[c].fresh \/ relied) THEN torn \cup {c} ELSE torn

-----------------------------------------------------------------------------
(* The HTTP handler: connectWebSocket, HubRegister, Pump, readPump *)

\* The session came with the request: the connection is registered before
\* its pump starts.
ConnectWithSession(c) ==
  /\ At(c, "new")
  /\ Found(c) = "valid"
  /\ conn' = [conn EXCEPT ![c].handler = <<"register">>, ![c].token = TRUE,
                          ![c].held = TRUE, ![c].fresh = TRUE]
  /\ FoundInCache(c)
  /\ UNCHANGED <<hub, channels, closing, hubIndex, outside, wire, due, again, early, torn,
                 panics>>

\* No session: the pump starts and waits for an authentication challenge.
\* Bound: only connections that may send one are of interest.
ConnectWithoutSession(c) ==
  /\ At(c, "new")
  /\ "challenge" \in Requests /\ MaxRequests[c] > 0
  /\ conn' = [conn EXCEPT ![c].handler = <<"read">>, ![c].writer = "auth"]
  /\ UNCHANGED <<hub, channels, closing, hubIndex, outside, history>>

\* What follows HubRegister: the pump starts, or the challenge is answered.
Registered(r) ==
  IF r.writer = "none"
  THEN [r EXCEPT !.handler = <<"read">>, !.writer = "auth"]
  ELSE [r EXCEPT !.handler = <<"send", "reply">>]

\* h.register <- webConn, or <-h.didStop.
RegisterSend(c) ==
  /\ At(c, "register")
  /\ \/ /\ registerQ = <<>>
        /\ registerQ' = <<c>>
     \/ /\ Stopped
        /\ UNCHANGED registerQ
  /\ Goto(c, <<"check", "hello">>)
  /\ UNCHANGED <<hub, unregisterQ, broadcastQ, stop, closing, hubIndex, outside, history>>

\* IsAuthenticated, for the hello of a registration or for a request: a yes
\* goes on to "hello", or to the handler of the request.
Authenticated(what) == IF what = "hello" THEN <<"send", "hello">> ELSE <<"serve", what>>
Rejected(r, what) ==
  IF what = "hello" THEN Registered(r) ELSE [r EXCEPT !.handler = <<"send", "reply">>]

\* The expiry and the token are read.
Check(c) ==
  LET what == Handler(c)[2] IN
  /\ At(c, "check")
  /\ \/ /\ conn[c].fresh
        /\ Goto(c, Authenticated(what))
     \/ /\ ~conn[c].fresh /\ conn[c].token
        /\ Goto(c, <<"get", what>>)
     \/ /\ ~conn[c].fresh /\ ~conn[c].token
        /\ conn' = [conn EXCEPT ![c] = Rejected(@, what)]
  /\ UNCHANGED <<hub, channels, closing, hubIndex, outside, history>>

Get(c) ==
  /\ At(c, "get")
  /\ GetSession(c)
  /\ FoundInCache(c)
  /\ Goto(c, <<AfterGet(Found(c)), Handler(c)[2]>>)
  /\ UNCHANGED <<hub, channels, closing, hubIndex, invalidating, bounds, wire, due, again,
                 early, torn, panics>>

\* The hub relies on the session of a connection, or is about to.
HubRelies(c) ==
  hub \in {"expire", "decide"} /\ next <= Len(candidates) /\ candidates[next] = c

\* SetSessionToken, SetSession and SetSessionExpiresAt of the reader.
SetSession(c) ==
  LET step == Handler(c)[1]
      what == Handler(c)[2]
      r    == Written(conn[c], step) IN
  /\ step \in SessionSteps
  /\ conn' = [conn EXCEPT ![c] =
       CASE step = "expire"   -> [r EXCEPT !.handler = Authenticated(what)]
         [] step = "unexpire" -> Rejected(r, what)
         [] OTHER             -> [r EXCEPT !.handler = <<FollowedBy[step], what>>]]
  /\ Tear(c, step, HubRelies(c))
  /\ UNCHANGED <<hub, channels, closing, hubIndex, outside, wire, due, again, early, missed,
                 panics>>

\* After the InvalidateUser of an idle session returned: GetSession fails.
AfterRevoke(c) ==
  LET what == Handler(c)[2] IN
  CASE what = "close" -> [conn[c] EXCEPT !.handler = <<"read">>, !.wsOpen = FALSE]
    [] what = "reply" -> [conn[c] EXCEPT !.handler = <<"send", "reply">>]
    [] OTHER          -> [conn[c] EXCEPT !.handler = <<"untoken", what>>]

\* InvalidateUser returns because the hub has stopped.
RevokeStopped(c) ==
  /\ At(c, "revoke")
  /\ Stopped
  /\ conn' = [conn EXCEPT ![c] = AfterRevoke(c)]
  /\ UNCHANGED <<hub, channels, closing, hubIndex, outside, history>>

\* webCon.Send <- hello, reply or error.  It blocks while the channel is full
\* and panics once the hub has closed it; net/http recovers the panic.
SendMessage(c) ==
  /\ At(c, "send")
  /\ \/ /\ c \notin closed
        /\ Len(conn[c].send) < SendCap
        /\ conn' = [conn EXCEPT ![c] =
             [(IF Handler(c)[2] = "hello" THEN Registered(conn[c])
               ELSE [conn[c] EXCEPT !.handler = <<"read">>])
                EXCEPT !.send = Append(@, Message)]]
     \/ /\ c \in closed
        /\ conn' = [conn EXCEPT ![c].handler = <<"panicked">>,
                                ![c].wsOpen = @ /\ conn[c].writer = "none"]
  /\ UNCHANGED <<hub, channels, closing, hubIndex, outside, history>>

\* ServeWebSocket of an authentication challenge.  The user of a connection
\* that the hub knows already is written while the hub may use it.
Challenge(c) ==
  \/ /\ conn[c].token
     /\ UNCHANGED <<conn, sessions, again>>
  \/ /\ ~conn[c].token
     /\ Found(c) = "valid"
     /\ conn' = [conn EXCEPT ![c].token = TRUE, ![c].held = TRUE, ![c].handler = <<"register">>]
     /\ again' = IF c \in unregistered /\ registerQ # <<c>> THEN again ELSE again \cup {c}
     /\ UNCHANGED sessions
  \/ /\ ~conn[c].token
     /\ Found(c) = "gone"
     /\ conn' = [conn EXCEPT ![c].wsOpen = FALSE]
     /\ UNCHANGED <<sessions, again>>
  \/ /\ ~conn[c].token
     /\ Found(c) = "idle"
     /\ GetSession(c)
     /\ Goto(c, <<"revoke", "close">>)
     /\ UNCHANGED again

ReadRequest(c) ==
  /\ At(c, "read")
  /\ conn[c].wsOpen
  /\ requests[c] < MaxRequests[c]
  /\ requests' = [requests EXCEPT ![c] = @ + 1]
  /\ \/ "challenge" \in Requests /\ Challenge(c)
     \/ /\ \E what \in Requests \ {"challenge"} : Goto(c, <<"check", what>>)
        /\ UNCHANGED <<sessions, again>>
  /\ UNCHANGED <<hub, channels, closing, hubIndex, invalidating, published,
                 invalidations, logins, refills, wire, due, early, missed, torn, panics>>

\* webSocketHandler.ServeWebSocket asks for the session once more.
Serve(c) ==
  LET found == IF conn[c].token THEN Found(c) ELSE "gone" IN
  /\ At(c, "serve")
  /\ \/ /\ found = "valid"
        /\ Goto(c, IF Handler(c)[2] = "typing" THEN <<"publish">> ELSE <<"send", "reply">>)
        /\ UNCHANGED sessions
     \/ /\ found = "gone"
        /\ Goto(c, <<"send", "reply">>)
        /\ UNCHANGED sessions
     \/ /\ found = "idle"
        /\ GetSession(c)
        /\ Goto(c, <<"revoke", "reply">>)
  /\ UNCHANGED <<hub, channels, closing, hubIndex, invalidating, bounds, history>>

\* Mutant of Broadcast: it does not select on h.didStop.
BroadcastBlocks(critical, audience) ==
  /\ Len(broadcastQ) < BroadcastCap
  /\ broadcastQ' = Append(broadcastQ,
       [id |-> published + 1, critical |-> critical, audience |-> audience])
  /\ published' = published + 1

\* Hub.Broadcast: h.broadcast <- message, or <-h.didStop.
Broadcast(critical, audience) ==
  \/ /\ Len(broadcastQ) < BroadcastCap
     /\ broadcastQ' = Append(broadcastQ,
          [id |-> published + 1, critical |-> critical, audience |-> audience])
     /\ published' = published + 1
  \/ /\ Stopped
     /\ UNCHANGED <<broadcastQ, published>>

\* user_typing publishes from the goroutine that reads.
PublishTyping(c) ==
  /\ At(c, "publish")
  /\ Broadcast(FALSE, "all")
  /\ Goto(c, <<"send", "reply">>)
  /\ UNCHANGED <<hub, registerQ, unregisterQ, stop, closing, hubIndex, sessions,
                 invalidating, requests, invalidations, logins, refills, history>>

\* ReadJSON fails; Pump closes endWritePump (once) and waits for the writer.
ReadError(c) ==
  /\ At(c, "read")
  /\ ~conn[c].wsOpen
  /\ conn' = [conn EXCEPT ![c].handler = <<"join">>, ![c].endWritePump = TRUE]
  /\ UNCHANGED <<hub, channels, closing, hubIndex, outside, history>>

Join(c) ==
  /\ At(c, "join")
  /\ conn[c].writer = "done"
  /\ Goto(c, <<"unregister">>)
  /\ UNCHANGED <<hub, channels, closing, hubIndex, outside, history>>

\* Mutant of UnregisterSend: the pump unregisters only if there is no wait.
TryUnregister(c) ==
  /\ At(c, "unregister")
  /\ unregisterQ' = IF unregisterQ = <<>> THEN <<c>> ELSE unregisterQ
  /\ Goto(c, <<"finished">>)
  /\ UNCHANGED <<hub, registerQ, broadcastQ, stop, closing, hubIndex, outside, history>>

\* h.unregister <- webConn, or <-h.stop; then pumpFinished is closed.
UnregisterSend(c) ==
  /\ At(c, "unregister")
  /\ \/ /\ unregisterQ = <<>>
        /\ unregisterQ' = <<c>>
     \/ /\ stop
        /\ UNCHANGED unregisterQ
  /\ Goto(c, <<"finished">>)
  /\ UNCHANGED <<hub, registerQ, broadcastQ, stop, closing, hubIndex, outside, history>>

HandlerStep(c) ==
  \/ RegisterSend(c) \/ Check(c) \/ Get(c) \/ SetSession(c) \/ RevokeStopped(c)
  \/ SendMessage(c) \/ Serve(c) \/ PublishTyping(c) \/ ReadError(c) \/ Join(c) \/ UnregisterSend(c)

-----------------------------------------------------------------------------
(* The writer: writePump *)

Writing(c) == conn[c].writer \in {"auth", "run"}

\* The writer returns; its deferred call closes the websocket.
WriterEnd(c) == conn' = [conn EXCEPT ![c].writer = "done", ![c].wsOpen = FALSE]

\* Mutant of Skip: a slow connection loses critical events too.
SkipAny(c) == Len(conn[c].send) - 1 >= SendSlow

\* The queue behind the message is long and the message is not critical.
Skip(c) == ~Head(conn[c].send).critical /\ Len(conn[c].send) - 1 >= SendSlow

\* A message is taken, and written unless it is skipped.
WriterReceive(c) ==
  /\ Writing(c)
  /\ conn[c].send # <<>>
  /\ LET msg == Head(conn[c].send) IN
     \/ /\ Skip(c) \/ conn[c].wsOpen
        /\ conn' = [conn EXCEPT ![c].send = Tail(@)]
        /\ wire' = IF Skip(c) \/ ~Critical(msg) THEN wire
                   ELSE [wire EXCEPT ![c] = Append(@, msg)]
     \/ /\ ~Skip(c) /\ ~conn[c].wsOpen
        /\ conn' = [conn EXCEPT ![c].send = Tail(@), ![c].writer = "done"]
        /\ UNCHANGED wire
  /\ UNCHANGED <<hub, channels, closing, hubIndex, outside, due, again, early, missed,
                 torn, panics>>

\* Mutant of WriterReturn: the writer ends only when its channel is closed.
WriterReturnIfClosed(c) ==
  /\ Writing(c)
  /\ c \in closed /\ conn[c].send = <<>>
  /\ WriterEnd(c)
  /\ UNCHANGED <<hub, channels, closing, hubIndex, outside, history>>

\* The channel is closed and empty, endWritePump is closed, a ping fails, or
\* there is no token when authTicker fires.
WriterReturn(c) ==
  /\ Writing(c)
  /\ \/ c \in closed /\ conn[c].send = <<>>
     \/ conn[c].endWritePump
     \/ ~conn[c].wsOpen
     \/ conn[c].writer = "auth" /\ ~conn[c].token
  /\ WriterEnd(c)
  /\ UNCHANGED <<hub, channels, closing, hubIndex, outside, history>>

AuthTickerStop(c) ==
  /\ conn[c].writer = "auth"
  /\ conn[c].token
  /\ conn' = [conn EXCEPT ![c].writer = "run"]
  /\ UNCHANGED <<hub, channels, closing, hubIndex, outside, history>>

WriterStep(c) == WriterReceive(c) \/ WriterReturn(c) \/ AuthTickerStop(c)

-----------------------------------------------------------------------------
(* Clients, and goroutines that use the hub *)

ClientClose(c) ==
  /\ ~At(c, "new")
  /\ conn[c].wsOpen
  /\ conn' = [conn EXCEPT ![c].wsOpen = FALSE]
  /\ UNCHANGED <<hub, channels, closing, hubIndex, outside, history>>

Publish(audience) ==
  /\ published < MaxEvents
  /\ Broadcast(TRUE, audience)
  /\ UNCHANGED <<hub, registerQ, unregisterQ, stop, closing, hubIndex, conn, sessions,
                 invalidating, requests, invalidations, logins, refills, history>>

\* ClearSessionCacheForUser, alone or after a session was removed from the
\* store: the caller then blocks in Hub.InvalidateUser.
ClearSessionCache(u, revoked) ==
  /\ invalidations < MaxInvalidations
  /\ \A c \in revoked : UserOf[c] = u
  /\ invalidations' = invalidations + 1
  /\ session' = [c \in Conns |-> IF c \in revoked THEN "gone" ELSE session[c]]
  /\ lingering' = lingering \ ConnsOf(u)
  /\ invalidating' = invalidating \cup {u}
  /\ UNCHANGED <<hub, channels, closing, hubIndex, conn, published, requests, logins, refills,
                 history>>

\* A goroutine that read the session before it was removed from the store puts
\* it into the cache after the cache was cleared; later the entry expires.
Refill(c) ==
  /\ refills < MaxRefills
  /\ session[c] = "gone"
  /\ refills' = refills + 1
  /\ lingering' = lingering \cup {c}
  /\ UNCHANGED <<hub, channels, closing, hubIndex, conn, session, invalidating, published,
                 requests, invalidations, logins, history>>

Evict(c) ==
  /\ c \in lingering
  /\ lingering' = lingering \ {c}
  /\ UNCHANGED <<hub, channels, closing, hubIndex, conn, session, invalidating, bounds, history>>

\* The caller of InvalidateUser returns because the hub has stopped.
InvalidateStopped(u) ==
  /\ Stopped
  /\ u \in invalidating
  /\ invalidating' = invalidating \ {u}
  /\ UNCHANGED <<hub, channels, closing, hubIndex, conn, sessions, bounds, history>>

BecomeIdle(c) ==
  /\ IdleTimeout
  /\ session[c] = "valid"
  /\ session' = [session EXCEPT ![c] = "idle"]
  /\ UNCHANGED <<hub, channels, closing, hubIndex, conn, lingering, invalidating, bounds,
                 history>>

\* A new session, with a new token.  Bound: the hub does not look up the old
\* token at that time.
Login(c) ==
  /\ logins < MaxLogins
  /\ session[c] = "gone"
  /\ ~conn[c].token /\ hub # "get"
  /\ logins' = logins + 1
  /\ session' = [session EXCEPT ![c] = "valid"]
  /\ lingering' = lingering \ {c}
  /\ UNCHANGED <<hub, channels, closing, hubIndex, conn, invalidating, published, requests,
                 invalidations, refills, history>>

Stop ==
  /\ ~stop
  /\ MaxStops > 0
  /\ stop' = TRUE
  /\ UNCHANGED <<hub, registerQ, unregisterQ, broadcastQ, closing, hubIndex, conn, outside,
                 history>>

-----------------------------------------------------------------------------
(* The hub *)

RegisteredConns == DOMAIN connectionIndexes
LastOf(s) == s[Len(s)]

\* The hub panics and doRecover starts it again with an empty index.
Panic(cause) ==
  /\ hub' = "select"
  /\ connections' = <<>>
  /\ connectionsByUserId' = [u \in Users |-> <<>>]
  /\ connectionIndexes' = [c \in {} |-> 0]
  /\ scope' = "none" /\ candidates' = <<>> /\ next' = 1 /\ event' = NoEvent
  /\ panics' = panics \cup {cause}
  /\ UNCHANGED <<connectionCount, unregistered, wire, due, again, early, missed, torn>>

\* Remove dereferences the entry of the last connection of each list; a
\* connection that was added twice and removed once is listed without one.
RemovePanics(c) ==
  /\ c \in RegisteredConns
  /\ ~({LastOf(connections), LastOf(connectionsByUserId[UserOf[c]])} \subseteq RegisteredConns)

HubRegister ==
  /\ hub = "select"
  /\ registerQ # <<>>
  /\ LET c == Head(registerQ) IN
     /\ Index!Add(c)
     /\ connectionCount' = Len(connections')
     /\ unregistered' = unregistered \ {c}
     /\ again' = IF c \in unregistered THEN again ELSE again \cup {c}
  /\ registerQ' = <<>>
  /\ UNCHANGED <<hub, unregisterQ, broadcastQ, stop, closing, closed, loop, conn, outside,
                 wire, due, early, missed, torn, panics>>

HubUnregister ==
  /\ hub = "select"
  /\ unregisterQ # <<>>
  /\ LET c == Head(unregisterQ) IN
     \/ /\ RemovePanics(c)
        /\ Panic("index")
        /\ UNCHANGED closed
     \/ /\ ~RemovePanics(c)
        /\ Index!Remove(c)
        /\ connectionCount' = Len(connections')
        /\ early' = IF registerQ = <<c>> THEN early \cup {c} ELSE early
        /\ UNCHANGED <<hub, unregistered, closed, loop, wire, due, again, missed, torn,
                       panics>>
  /\ unregisterQ' = <<>>
  /\ UNCHANGED <<registerQ, broadcastQ, stop, closing, conn, outside>>

ForUser(u) == ToSet(connectionsByUserId[u])

\* Mutant of Forget: InvalidateCache leaves the session and its expiry.
KeepSessions(cs, u) == cs

\* InvalidateCache of the connections of a user.  Its two writes are one step:
\* whoever stores an expiry has stored a session before.
Forget(cs, u) ==
  [c \in Conns |-> [cs[c] EXCEPT !.held = @ /\ c \notin ForUser(u),
                                 !.fresh = @ /\ c \notin ForUser(u)]]

\* The reader is storing a session that it has found.
Storing(c) == At(c, "set") \/ At(c, "expire")

\* The invalidation does nothing about a session that is gone: the connection
\* is not in the index, or its reader stores what it has found.
PassedBy(u) ==
  {c \in ConnsOf(u) : /\ session[c] = "gone"
                      /\ Storing(c) \/ (conn[c].fresh /\ c \notin ForUser(u))}

\* The caller is a goroutine of the API, or a reader whose session was idle.
HubInvalidateUser(u) ==
  /\ hub = "select"
  /\ \/ /\ u \in invalidating
        /\ invalidating' = invalidating \ {u}
        /\ conn' = Forget(conn, u)
     \/ \E c \in Conns :
          /\ UserOf[c] = u
          /\ At(c, "revoke")
          /\ conn' = Forget([conn EXCEPT ![c] = AfterRevoke(c)], u)
          /\ UNCHANGED invalidating
  /\ missed' = (missed \ ConnsOf(u)) \cup PassedBy(u)
  /\ torn' = torn \cup {c \in ForUser(u) : At(c, "expire")}
  /\ UNCHANGED <<hub, channels, closing, hubIndex, sessions, bounds, wire, due, again, early,
                 panics>>

HubBroadcast ==
  /\ hub = "select"
  /\ broadcastQ # <<>>
  /\ hub' = "loop"
  /\ event' = Head(broadcastQ)
  /\ broadcastQ' = Tail(broadcastQ)
  /\ Index!StartBroadcast(Head(broadcastQ).audience)
  /\ UNCHANGED <<registerQ, unregisterQ, stop, closing, conn, outside, history>>

\* The loop visits a connection, and is at a step of ShouldSendEvent.
HubAt(step) == hub = step /\ next <= Len(candidates)
Visited == candidates[next]

\* IsAuthenticated in the loop: the expiry and the token are read.
HubCheck ==
  /\ HubAt("loop")
  /\ ~conn[Visited].fresh /\ conn[Visited].token
  /\ hub' = "get"
  /\ UNCHANGED <<channels, closing, hubIndex, conn, outside, history>>

\* An idle session is revoked, and the hub waits in InvalidateUser for a
\* receiver that only it could be.
HubGet ==
  /\ HubAt("get")
  /\ GetSession(Visited)
  /\ FoundInCache(Visited)
  /\ hub' = IF Found(Visited) = "idle" THEN "invalidating" ELSE AfterGet(Found(Visited))
  /\ UNCHANGED <<channels, closing, hubIndex, conn, invalidating, bounds, wire, due, again,
                 early, torn, panics>>

\* The writes of the hub, up to the last of a refusal.
HubSetSession ==
  /\ \E step \in SessionSteps \ {"unexpire"} : HubAt(step)
  /\ conn' = [conn EXCEPT ![Visited] = Written(@, hub)]
  /\ hub' = IF hub = "expire" THEN "decide" ELSE FollowedBy[hub]
  /\ Tear(Visited, hub, At(Visited, "expire"))
  /\ UNCHANGED <<channels, closing, hubIndex, outside, wire, due, again, early, missed, panics>>

\* IsAuthenticated says no: the event is skipped, the connection stays.
HubSkip ==
  /\ \/ /\ HubAt("loop")
        /\ ~conn[Visited].fresh /\ ~conn[Visited].token
        /\ UNCHANGED conn
     \/ /\ HubAt("unexpire")
        /\ conn' = [conn EXCEPT ![Visited] = Written(@, "unexpire")]
  /\ hub' = "loop"
  /\ Index!Deliver
  /\ UNCHANGED <<channels, closing, event, outside, history>>

\* IsAuthenticated says yes.
IsAuthenticated == HubAt("decide") \/ (HubAt("loop") /\ conn[Visited].fresh)

\* GetSession().GetUserRoles() for an event with private data: the session may
\* be nil for all that, and the hub panics.
HubNilSession ==
  /\ IsAuthenticated
  /\ ~conn[Visited].held
  /\ Panic("session")
  /\ UNCHANGED <<channels, closing, closed, conn, outside>>

\* IsMemberOfTeam for an event of a team: a nil session is looked up again.
\* One that is not found is not sent the event.
HubMember ==
  /\ IsAuthenticated
  /\ ~conn[Visited].held
  /\ conn[Visited].token /\ Found(Visited) # "gone"
  /\ GetSession(Visited)
  /\ FoundInCache(Visited)
  /\ \/ /\ Found(Visited) = "valid"
        /\ conn' = [conn EXCEPT ![Visited].held = TRUE]
        /\ hub' = "member"
     \/ /\ Found(Visited) = "idle"
        /\ hub' = "invalidating"
        /\ UNCHANGED conn
  /\ UNCHANGED <<channels, closing, hubIndex, invalidating, bounds, wire, due, again, early,
                 torn, panics>>

\* The end of ShouldSendEvent.
ShouldSend == IsAuthenticated \/ HubAt("member")

\* The channel, the team, the omitted users or the permissions of the event
\* leave the connection out.
HubOmit ==
  /\ ShouldSend
  /\ hub' = "loop"
  /\ Index!Deliver
  /\ UNCHANGED <<channels, closing, conn, event, outside, history>>

HasRoom == Len(conn[Visited].send) < SendCap
EventDue == due' = IF Critical(event) THEN [due EXCEPT ![Visited] = Append(@, event)] ELSE due

HubSend ==
  /\ ShouldSend
  /\ Visited \notin closed /\ HasRoom
  /\ conn' = [conn EXCEPT ![Visited].send = Append(@, event)]
  /\ EventDue
  /\ hub' = "loop"
  /\ Index!Deliver
  /\ UNCHANGED <<channels, closing, event, outside, wire, again, early, missed, torn, panics>>

\* Mutant of HubDrop: a full queue costs the event and nothing else.
HubLose ==
  /\ ShouldSend
  /\ Visited \notin closed /\ ~HasRoom
  /\ EventDue
  /\ hub' = "loop"
  /\ Index!Deliver
  /\ UNCHANGED <<channels, closing, conn, event, outside, wire, again, early, missed, torn, panics>>

\* Mutant of HubDrop: the channel is closed, the connection stays in the index.
HubCloseOnly ==
  /\ ShouldSend
  /\ Visited \notin closed /\ ~HasRoom
  /\ EventDue
  /\ closed' = closed \cup {Visited}
  /\ next' = next + 1
  /\ hub' = "loop"
  /\ UNCHANGED <<channels, closing, index, connectionCount, unregistered, scope, candidates,
                 conn, event, outside, wire, again, early, missed, torn, panics>>

\* The queue is full: the channel is closed and the connection removed.
HubDrop ==
  /\ ShouldSend
  /\ Visited \notin closed /\ ~HasRoom /\ ~RemovePanics(Visited)
  /\ EventDue
  /\ hub' = "loop"
  /\ Index!Drop
  /\ UNCHANGED <<channels, closing, conn, event, outside, wire, again, early, missed, torn, panics>>

\* A second entry of a connection: its channel is closed, or Remove panics
\* after it was closed.
HubPanic ==
  /\ ShouldSend
  /\ \/ /\ Visited \in closed
        /\ UNCHANGED closed
     \/ /\ Visited \notin closed /\ ~HasRoom /\ RemovePanics(Visited)
        /\ closed' = closed \cup {Visited}
  /\ Panic("index")
  /\ UNCHANGED <<channels, closing, conn, outside>>

HubLoopEnd ==
  /\ hub = "loop"
  /\ Index!Finish
  /\ hub' = "select"
  /\ event' = NoEvent
  /\ UNCHANGED <<channels, closing, conn, outside, history>>

\* case <-h.stop: every connection is closed and its pump awaited, in turn.
HubStop ==
  /\ hub = "select"
  /\ stop
  /\ hub' = "closing"
  /\ toClose' = connections
  /\ toOffline' = {UserOf[connections[k]] : k \in 1..Len(connections)} \cap StatusUsers
  /\ UNCHANGED <<channels, hubIndex, conn, outside, history>>

\* WebConn.Close, up to its wait for pumpFinished.
HubClose ==
  /\ hub = "closing"
  /\ toClose # <<>>
  /\ conn' = [conn EXCEPT ![Head(toClose)].wsOpen = FALSE,
                          ![Head(toClose)].endWritePump = TRUE]
  /\ hub' = "waiting"
  /\ UNCHANGED <<channels, closing, hubIndex, outside, history>>

\* Mutant of HubPumpFinished: Close waits for the writer only.
HubWriterDone ==
  /\ hub = "waiting"
  /\ conn[Head(toClose)].writer = "done"
  /\ toClose' = Tail(toClose)
  /\ hub' = "closing"
  /\ UNCHANGED <<channels, toOffline, hubIndex, conn, outside, history>>

HubPumpFinished ==
  /\ hub = "waiting"
  /\ At(Head(toClose), "finished")
  /\ toClose' = Tail(toClose)
  /\ hub' = "closing"
  /\ UNCHANGED <<channels, toOffline, hubIndex, conn, outside, history>>

\* SetStatusOffline publishes to this hub, which receives no more.
HubOffline(u) ==
  /\ hub = "closing"
  /\ toClose = <<>>
  /\ u \in toOffline
  /\ Len(broadcastQ) < BroadcastCap
  /\ broadcastQ' = Append(broadcastQ, NoEvent)
  /\ toOffline' = toOffline \ {u}
  /\ UNCHANGED <<hub, registerQ, unregisterQ, stop, toClose, hubIndex, conn, outside, history>>

HubStopped ==
  /\ hub = "closing"
  /\ toClose = <<>> /\ toOffline = {}
  /\ hub' = "stopped"
  /\ UNCHANGED <<channels, closing, hubIndex, conn, outside, history>>

HubStep ==
  \/ HubRegister \/ HubUnregister \/ HubBroadcast \/ HubStop
  \/ \E u \in Users : HubInvalidateUser(u) \/ HubOffline(u)
  \/ HubCheck \/ HubGet \/ HubSetSession \/ HubSkip \/ HubNilSession \/ HubMember
  \/ HubOmit \/ HubSend \/ HubDrop \/ HubPanic \/ HubLoopEnd
  \/ HubClose \/ HubPumpFinished \/ HubStopped

Environment ==
  \/ \E c \in Conns : \/ ConnectWithSession(c) \/ ConnectWithoutSession(c)
                      \/ ReadRequest(c) \/ ClientClose(c)
                      \/ BecomeIdle(c) \/ Login(c) \/ Refill(c) \/ Evict(c)
  \/ \E u \in Users, revoked \in Revocations : ClearSessionCache(u, revoked)
  \/ \E audience \in Audiences : Publish(audience)
  \/ Stop

Next ==
  \/ HubStep
  \/ \E c \in Conns : HandlerStep(c) \/ WriterStep(c)
  \/ \E u \in Users : InvalidateStopped(u)
  \/ Environment

Spec == Init /\ [][Next]_vars

\* Every goroutine that can take a step takes one; the clients, the callers of
\* the API and the passing of time need not do anything.
Fairness ==
  /\ WF_vars(HubStep)
  /\ \A c \in Conns : WF_vars(HandlerStep(c)) /\ WF_vars(WriterStep(c))
  /\ \A u \in Users : WF_vars(InvalidateStopped(u))

FairSpec == Spec /\ Fairness

-----------------------------------------------------------------------------
(* Properties *)

\* As long as no connection is authenticated or registered twice, and the hub
\* does not panic on a session, what the hub does to its index is what
\* HubConnectionIndex does: the goroutines around it never send it a connection
\* it holds, or one whose channel it has closed.
ImplementsIndex == Index!Spec

\* No silent gap: the critical events a client receives are the first of those
\* the hub had for its connection, in the order of the broadcasts, none missing
\* and none twice.  A connection that falls behind is closed, not skipped.
NoGap ==
  \A c \in Conns : IsPrefix(wire[c], due[c])

\* A connection whose pump has finished leaves the index, except when the hub
\* receives its unregistration before its registration.
FinishedForgotten ==
  \A c \in Conns :
    /\ At(c, "finished") /\ ~stop /\ panics = {}
    /\ registerQ # <<c>> /\ unregisterQ # <<c>>
    /\ c \in RegisteredConns
    => c \in early \cup again

\* The hub panics for two reasons only, and both need two goroutines: in its
\* index, or a handler that died of a panic stays there, if a connection was
\* authenticated or registered again; on a session, if one goroutine took it
\* away while the other relied on it.
PanicsExplained ==
  /\ "session" \in panics => torn # {}
  /\ again = {} => /\ "index" \notin panics
                   /\ \A c \in RegisteredConns : ~At(c, "panicked")

\* The hub queues an event for the connection.
Queued(c) == /\ Len(conn'[c].send) > Len(conn[c].send)
             /\ LastOf(conn'[c].send) # Message

\* "Do not send event if WebConn does not have a session": once the hub has
\* handled the InvalidateUser that follows the removal of a session, it queues
\* no event for the connection.
EventNeedsSession ==
  [][\A c \in Conns :
       Queued(c) /\ session[c] = "gone" =>
         \/ UserOf[c] \in invalidating
         \/ \E d \in Conns : UserOf[d] = UserOf[c] /\ At(d, "revoke")]_vars

\* The same, unless the last invalidation passed the connection by: it was
\* authenticated and not in the index, or its reader was storing the session it
\* had found, or a revoked session was found in the cache since.
EventNeedsSessionUnlessMissed ==
  [][\A c \in Conns :
       Queued(c) /\ session[c] = "gone" =>
         \/ UserOf[c] \in invalidating
         \/ \E d \in Conns : UserOf[d] = UserOf[c] /\ At(d, "revoke")
         \/ c \in missed]_vars

\* A handler that waits for something only the hub, or nobody, could do.
HandlerStuck(c) ==
  \/ At(c, "revoke")
  \/ At(c, "publish") /\ Len(broadcastQ) = BroadcastCap
  \/ At(c, "register") /\ registerQ # <<>>
  \/ At(c, "panicked")
  \/ /\ At(c, "send") /\ c \notin closed
     /\ Len(conn[c].send) = SendCap
     /\ conn[c].writer \in {"none", "done"}

\* The hub waits for itself, for a pump that cannot finish, or for room in a
\* queue that only it empties.
HubStuck ==
  \/ hub = "invalidating"
  \/ hub = "waiting" /\ HandlerStuck(Head(toClose))
  \/ hub = "closing" /\ toClose = <<>> /\ toOffline # {} /\ Len(broadcastQ) = BroadcastCap

\* Stop returns, or the hub is in one of the deadlocks listed above.
StopReturnsUnlessStuck == stop ~> (Stopped \/ HubStuck)

\* A deadlock is for ever: nothing a client or another goroutine does ends it.
StuckForever == [][HubStuck => HubStuck']_vars

InHubMethod(c) == Handler(c)[1] \in {"register", "revoke", "publish", "unregister"}

\* "Attempts to use the hub after it has shutdown does not block the caller
\* indefinitely": once the hub has stopped nobody waits in its methods for ever.
CallersReleased ==
  /\ \A c \in Conns : Stopped /\ InHubMethod(c) ~> ~InHubMethod(c)
  /\ \A u \in Users : Stopped /\ u \in invalidating ~> u \notin invalidating
=============================================================================

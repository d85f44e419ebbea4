---------------------------- MODULE WebHub_proofs ----------------------------
(***************************************************************************)
(* Proof that a client of a hub never misses an event silently, and that   *)
(* the hub queues no event for a connection whose session is gone, once it *)
(* has handled the invalidation, unless the invalidation missed the        *)
(* connection: for any number of connections, users, sessions and events,  *)
(* and queues of any length.                                               *)
(***************************************************************************)
EXTENDS WebHub, TLAPS

Messages == [id : Nat, critical : BOOLEAN, audience : Users \cup {"all"}]

Fields == {"handler", "writer", "send", "wsOpen", "endWritePump", "token", "held", "fresh"}

----------------------------------------------------------------------------
(* What a queue carries, between what was written and what is due.         *)

Prefix(written, owed) ==
  Len(written) <= Len(owed) /\ \A i \in 1..Len(written) : written[i] = owed[i]

\* pos counts the critical messages up to each place of the queue: each is the
\* next one owed, and unless the queue was cut off, the last place is the last
\* one owed.
Places(pos, send, written, owed, cut) ==
  /\ pos \in [0..Len(send) -> Nat]
  /\ pos[0] = Len(written)
  /\ \A k \in 1..Len(send) :
       IF Critical(send[k])
       THEN pos[k] = pos[k - 1] + 1 /\ pos[k] <= Len(owed) /\ owed[pos[k]] = send[k]
       ELSE pos[k] = pos[k - 1]
  /\ ~cut => pos[Len(send)] = Len(owed)

Carries(send, written, owed, cut) == \E pos : Places(pos, send, written, owed, cut)

\* The writer takes a message that need not arrive.
LEMMA TakeOther ==
  ASSUME NEW send \in Seq(Messages), NEW written, NEW owed, NEW cut \in BOOLEAN,
         Carries(send, written, owed, cut), send # <<>>, ~Critical(Head(send))
  PROVE  Carries(Tail(send), written, owed, cut)
<1> PICK pos : Places(pos, send, written, owed, cut)
  BY DEF Carries
<1> DEFINE rest == [k \in 0..Len(Tail(send)) |-> pos[k + 1]]
<1>1. /\ Len(send) \in Nat \ {0} /\ Len(Tail(send)) = Len(send) - 1
      /\ \A k \in 1..Len(Tail(send)) : Tail(send)[k] = send[k + 1]
      /\ Head(send) = send[1]
  OBVIOUS
<1>2. rest \in [0..Len(Tail(send)) -> Nat]
  BY <1>1 DEF Places
<1>3. rest[0] = Len(written)
  BY <1>1 DEF Places
<1>4. \A k \in 1..Len(Tail(send)) :
        IF Critical(Tail(send)[k])
        THEN rest[k] = rest[k - 1] + 1 /\ rest[k] <= Len(owed) /\ owed[rest[k]] = Tail(send)[k]
        ELSE rest[k] = rest[k - 1]
  <2> TAKE k \in 1..Len(Tail(send))
  <2>1. k + 1 \in 1..Len(send) /\ rest[k] = pos[k + 1] /\ rest[k - 1] = pos[(k + 1) - 1]
    BY <1>1
  <2>2. Tail(send)[k] = send[k + 1]
    BY <1>1
  <2> QED
    BY <2>1, <2>2 DEF Places
<1>5. ~cut => rest[Len(Tail(send))] = Len(owed)
  BY <1>1 DEF Places
<1> QED
  BY <1>2, <1>3, <1>4, <1>5 DEF Carries, Places

\* The writer writes a critical message: it is the next one owed.
LEMMA TakeCritical ==
  ASSUME NEW send \in Seq(Messages), NEW written \in Seq(Messages), NEW owed \in Seq(Messages),
         NEW cut \in BOOLEAN, Carries(send, written, owed, cut), Prefix(written, owed),
         send # <<>>, Critical(Head(send))
  PROVE  /\ Carries(Tail(send), Append(written, Head(send)), owed, cut)
         /\ Prefix(Append(written, Head(send)), owed)
<1> PICK pos : Places(pos, send, written, owed, cut)
  BY DEF Carries
<1> DEFINE rest == [k \in 0..Len(Tail(send)) |-> pos[k + 1]]
           longer == Append(written, Head(send))
<1>1. /\ Len(send) \in Nat \ {0} /\ Len(Tail(send)) = Len(send) - 1
      /\ \A k \in 1..Len(Tail(send)) : Tail(send)[k] = send[k + 1]
      /\ Head(send) = send[1]
  OBVIOUS
<1>2. /\ Len(longer) = Len(written) + 1 /\ longer[Len(written) + 1] = Head(send)
      /\ \A i \in 1..Len(written) : longer[i] = written[i]
      /\ Len(written) \in Nat
  <2>1. Head(send) \in Messages
    BY <1>1
  <2> QED
    BY <2>1
<1>3. /\ pos[1] = Len(written) + 1 /\ pos[1] <= Len(owed) /\ owed[pos[1]] = Head(send)
  BY <1>1 DEF Places
<1>4. rest \in [0..Len(Tail(send)) -> Nat]
  BY <1>1 DEF Places
<1>5. rest[0] = Len(longer)
  BY <1>1, <1>2, <1>3
<1>6. \A k \in 1..Len(Tail(send)) :
        IF Critical(Tail(send)[k])
        THEN rest[k] = rest[k - 1] + 1 /\ rest[k] <= Len(owed) /\ owed[rest[k]] = Tail(send)[k]
        ELSE rest[k] = rest[k - 1]
  <2> TAKE k \in 1..Len(Tail(send))
  <2>1. k + 1 \in 1..Len(send) /\ rest[k] = pos[k + 1] /\ rest[k - 1] = pos[(k + 1) - 1]
    BY <1>1
  <2>2. Tail(send)[k] = send[k + 1]
    BY <1>1
  <2> QED
    BY <2>1, <2>2 DEF Places
<1>7. ~cut => rest[Len(Tail(send))] = Len(owed)
  BY <1>1 DEF Places
<1>8. Prefix(longer, owed)
  <2> HIDE DEF longer
  <2> QED
    BY <1>2, <1>3 DEF Prefix
<1> HIDE DEF rest, longer
<1>9. Carries(Tail(send), longer, owed, cut)
  BY <1>4, <1>5, <1>6, <1>7 DEF Carries, Places
<1> QED
  BY <1>8, <1>9 DEF longer

\* A hello, a reply or a typing event is queued.
LEMMA PutOther ==
  ASSUME NEW send \in Seq(Messages), NEW written, NEW owed, NEW cut \in BOOLEAN,
         NEW msg \in Messages, Carries(send, written, owed, cut), ~Critical(msg)
  PROVE  Carries(Append(send, msg), written, owed, cut)
<1> PICK pos : Places(pos, send, written, owed, cut)
  BY DEF Carries
<1> DEFINE more == Append(send, msg)
           n == Len(send)
           place == [k \in 0..(n + 1) |-> IF k = n + 1 THEN pos[n] ELSE pos[k]]
<1>1. /\ n \in Nat /\ Len(more) = n + 1 /\ more[n + 1] = msg
      /\ \A k \in 1..n : more[k] = send[k]
  OBVIOUS
<1>2. place \in [0..Len(more) -> Nat] /\ place[0] = Len(written)
  BY <1>1 DEF Places
<1>3. \A k \in 0..n : place[k] = pos[k]
  BY <1>1
<1>4. place[n + 1] = pos[n]
  BY <1>1
<1> HIDE DEF place, more
<1>5. \A k \in 1..Len(more) :
        IF Critical(more[k])
        THEN place[k] = place[k - 1] + 1 /\ place[k] <= Len(owed) /\ owed[place[k]] = more[k]
        ELSE place[k] = place[k - 1]
  <2> TAKE k \in 1..Len(more)
  <2>1. CASE k = n + 1
    BY <1>1, <1>3, <1>4, <2>1
  <2>2. CASE k \in 1..n
    <3>1. place[k] = pos[k] /\ place[k - 1] = pos[k - 1] /\ more[k] = send[k]
      BY <1>1, <1>3, <2>2
    <3> QED
      BY <2>2, <3>1 DEF Places
  <2> QED
    BY <1>1, <2>1, <2>2
<1>6. ~cut => place[Len(more)] = Len(owed)
  BY <1>1, <1>4 DEF Places
<1>7. Carries(more, written, owed, cut)
  BY <1>2, <1>5, <1>6 DEF Carries, Places
<1> QED
  BY <1>7 DEF more

\* A critical event is queued, and owed from now on.
LEMMA PutCritical ==
  ASSUME NEW send \in Seq(Messages), NEW written, NEW owed \in Seq(Messages),
         NEW msg \in Messages, Carries(send, written, owed, FALSE), Critical(msg)
  PROVE  Carries(Append(send, msg), written, Append(owed, msg), FALSE)
<1> PICK pos : Places(pos, send, written, owed, FALSE)
  BY DEF Carries
<1> DEFINE more == Append(send, msg)
           debt == Append(owed, msg)
           n == Len(send)
           place == [k \in 0..(n + 1) |-> IF k = n + 1 THEN pos[n] + 1 ELSE pos[k]]
<1>1. /\ n \in Nat /\ Len(more) = n + 1 /\ more[n + 1] = msg
      /\ \A k \in 1..n : more[k] = send[k]
  OBVIOUS
<1>2. /\ Len(owed) \in Nat /\ Len(debt) = Len(owed) + 1 /\ debt[Len(owed) + 1] = msg
      /\ \A i \in 1..Len(owed) : debt[i] = owed[i]
  OBVIOUS
<1>3. place \in [0..Len(more) -> Nat] /\ place[0] = Len(written)
  BY <1>1 DEF Places
<1>4. \A k \in 0..n : place[k] = pos[k] /\ pos[k] \in Nat
  BY <1>1 DEF Places
<1>5. pos[n] = Len(owed) /\ place[n + 1] = Len(owed) + 1
  BY <1>1 DEF Places
<1> HIDE DEF place, more, debt
<1>6. \A k \in 1..Len(more) :
        IF Critical(more[k])
        THEN place[k] = place[k - 1] + 1 /\ place[k] <= Len(debt) /\ debt[place[k]] = more[k]
        ELSE place[k] = place[k - 1]
  <2> TAKE k \in 1..Len(more)
  <2>1. CASE k = n + 1
    BY <1>1, <1>2, <1>4, <1>5, <2>1
  <2>2. CASE k \in 1..n
    <3>1. place[k] = pos[k] /\ place[k - 1] = pos[k - 1] /\ more[k] = send[k] /\ pos[k - 1] \in Nat
      BY <1>1, <1>4, <2>2
    <3>2. Critical(send[k]) => /\ pos[k] = pos[k - 1] + 1 /\ pos[k] <= Len(owed)
                               /\ owed[pos[k]] = send[k] /\ pos[k] \in 1..Len(owed)
      BY <1>2, <2>2, <3>1 DEF Places
    <3> QED
      BY <1>2, <2>2, <3>1, <3>2 DEF Places
  <2> QED
    BY <1>1, <2>1, <2>2
<1>7. place[Len(more)] = Len(debt)
  BY <1>1, <1>2, <1>5
<1>8. Carries(more, written, debt, FALSE)
  BY <1>3, <1>6, <1>7 DEF Carries, Places
<1> QED
  BY <1>8 DEF more, debt

\* What the queue carries stays in order when an event is owed that finds no
\* room in it, if nothing more is queued.
LEMMA CutOff ==
  ASSUME NEW send \in Seq(Messages), NEW written, NEW owed \in Seq(Messages), NEW cut \in BOOLEAN,
         NEW msg \in Messages, Carries(send, written, owed, cut)
  PROVE  /\ Carries(send, written, owed, TRUE)
         /\ Carries(send, written, Append(owed, msg), TRUE)
<1> PICK pos : Places(pos, send, written, owed, cut)
  BY DEF Carries
<1> DEFINE debt == Append(owed, msg)
<1>1. /\ Len(owed) \in Nat /\ Len(debt) = Len(owed) + 1
      /\ \A i \in 1..Len(owed) : debt[i] = owed[i]
      /\ Len(send) \in Nat
  OBVIOUS
<1> HIDE DEF debt
<1>2. \A k \in 1..Len(send) :
        IF Critical(send[k])
        THEN pos[k] = pos[k - 1] + 1 /\ pos[k] <= Len(debt) /\ debt[pos[k]] = send[k]
        ELSE pos[k] = pos[k - 1]
  <2> TAKE k \in 1..Len(send)
  <2>1. k - 1 \in 0..Len(send) /\ pos[k - 1] \in Nat
    <3>1. k - 1 \in 0..Len(send)
      BY <1>1
    <3> QED
      BY <3>1 DEF Places
  <2>2. Critical(send[k]) => /\ pos[k] = pos[k - 1] + 1 /\ owed[pos[k]] = send[k]
                             /\ pos[k] \in 1..Len(owed)
    BY <1>1, <2>1 DEF Places
  <2> QED
    BY <1>1, <2>2 DEF Places
<1>3. Places(pos, send, written, owed, TRUE) /\ Places(pos, send, written, debt, TRUE)
  BY <1>2 DEF Places
<1> QED
  BY <1>3 DEF Carries, debt

\* What was written stays the beginning of what is owed.
LEMMA PrefixOfMore ==
  ASSUME NEW written \in Seq(Messages), NEW owed \in Seq(Messages), NEW msg \in Messages,
         Prefix(written, owed)
  PROVE  Prefix(written, Append(owed, msg))
BY DEF Prefix

LEMMA PrefixIsPrefix ==
  ASSUME NEW written \in Seq(Messages), NEW owed \in Seq(Messages), Prefix(written, owed)
  PROVE  IsPrefix(written, owed)
BY DEF Prefix, IsPrefix

----------------------------------------------------------------------------
(* The invariant.                                                          *)

\* Events have the form of messages, wherever they are.
Source ==
  /\ published \in Nat
  /\ broadcastQ \in Seq(Messages) /\ event \in Messages

\* The handler has not started.
IsNew(rec) == rec.handler[1] = "new"

Shape ==
  /\ DOMAIN conn = Conns
  /\ \A c \in Conns : /\ DOMAIN conn[c] = Fields /\ conn[c].send \in Seq(Messages)
                      /\ IsNew(conn[c]) => conn[c].writer = "none"
  /\ wire \in [Conns -> Seq(Messages)] /\ due \in [Conns -> Seq(Messages)]

\* A writer that has returned writes no more; any other finds in its queue,
\* in order, what is due, all of it unless the hub has cut it off.
Flow ==
  \A c \in Conns :
    /\ Prefix(wire[c], due[c])
    /\ conn[c].writer # "done" => Carries(conn[c].send, wire[c], due[c], c \in closed)

FlowInv == Source /\ Shape /\ Flow

LEMMA MessageTypes == NoEvent \in Messages /\ Message \in Messages /\ ~Critical(Message)
BY DEF NoEvent, Message, Messages, Critical

\* Of a connection, a step leaves its queue alone and starts no writer again.
Untouched(c) ==
  /\ DOMAIN conn'[c] = Fields
  /\ conn'[c].send = conn[c].send
  /\ conn'[c].writer # "done" => conn[c].writer # "done"
  /\ IsNew(conn'[c]) => IsNew(conn[c]) /\ conn'[c].writer = conn[c].writer

\* The steps that touch no queue, as far as Shape and Flow go.
LEMMA UntouchedFlow ==
  ASSUME Shape, Flow, DOMAIN conn' = Conns, \A c \in Conns : Untouched(c),
         UNCHANGED <<wire, due, closed>>
  PROVE  Shape' /\ Flow'
<1>1. Shape'
  BY DEF Shape, Untouched
<1>2. Flow'
  BY DEF Flow, Untouched
<1> QED
  BY <1>1, <1>2

LEMMA SameConn ==
  ASSUME Shape, UNCHANGED conn
  PROVE  DOMAIN conn' = Conns /\ \A c \in Conns : Untouched(c)
BY DEF Shape, Untouched

LEMMA InitFlow == Init => FlowInv
<1> SUFFICES ASSUME Init  PROVE FlowInv
  OBVIOUS
<1>1. /\ published = 0 /\ broadcastQ = <<>> /\ event = NoEvent
      /\ wire = [c \in Conns |-> <<>>] /\ due = [c \in Conns |-> <<>>]
      /\ conn = [c \in Conns |->
           [handler |-> <<"new">>, writer |-> "none", send |-> <<>>, wsOpen |-> TRUE,
            endWritePump |-> FALSE, token |-> FALSE, held |-> TRUE, fresh |-> FALSE]]
      /\ closed = {}
  BY DEF Init, Index!Init
<1>2. Source
  BY <1>1, MessageTypes DEF Source
<1>3. \A c \in Conns : /\ DOMAIN conn[c] = Fields /\ conn[c].send = <<>>
                         /\ wire[c] = <<>> /\ due[c] = <<>>
  BY <1>1 DEF Fields
<1>4. \A c \in Conns : conn[c].writer = "none"
  BY <1>1
<1>5. Shape
  <2>1. DOMAIN conn = Conns
    BY <1>1
  <2>2. <<>> \in Seq(Messages)
    OBVIOUS
  <2>3. wire \in [Conns -> Seq(Messages)] /\ due \in [Conns -> Seq(Messages)]
    BY <1>1, <2>2
  <2> QED
    BY <1>3, <1>4, <2>1, <2>2, <2>3 DEF Shape
<1>6. Carries(<<>>, <<>>, <<>>, FALSE)
  <2>1. Places([k \in 0..0 |-> 0], <<>>, <<>>, <<>>, FALSE)
    BY DEF Places
  <2> QED BY <2>1 DEF Carries
<1>7. Prefix(<<>>, <<>>)
  BY DEF Prefix
<1>8. Flow
  <2> SUFFICES ASSUME NEW c \in Conns
               PROVE  Prefix(wire[c], due[c]) /\ Carries(conn[c].send, wire[c], due[c], c \in closed)
    BY DEF Flow
  <2>1. (c \in closed) = FALSE
    BY <1>1
  <2> QED
    BY <1>3, <1>6, <1>7, <2>1
<1> QED
  BY <1>2, <1>5, <1>8 DEF FlowInv

----------------------------------------------------------------------------
(* The handler of a connection.                                            *)

LEMMA GotoUntouched ==
  ASSUME Shape, NEW c \in Conns, NEW step, Goto(c, step), step[1] # "new"
  PROVE  DOMAIN conn' = Conns /\ \A d \in Conns : Untouched(d)
BY DEF Shape, Untouched, Goto, Fields, IsNew

\* One connection gets another record with the queue it has.
LEMMA RecordUntouched ==
  ASSUME Shape, NEW c \in Conns, NEW rec, DOMAIN rec = Fields, rec.send = conn[c].send,
         rec.writer # "done" => conn[c].writer # "done",
         IsNew(rec) => IsNew(conn[c]) /\ rec.writer = conn[c].writer,
         conn' = [conn EXCEPT ![c] = rec]
  PROVE  DOMAIN conn' = Conns /\ \A d \in Conns : Untouched(d)
BY DEF Shape, Untouched

\* HubRegister has returned: a pump starts, or the challenge is answered.
LEMMA RegisteredRecord ==
  ASSUME NEW r, DOMAIN r = Fields
  PROVE  /\ DOMAIN Registered(r) = Fields /\ Registered(r).send = r.send
         /\ Registered(r).writer # "done" => r.writer # "done"
         /\ Registered(r).fresh = r.fresh /\ Registered(r).held = r.held
         /\ Registered(r).handler[1] \in {"read", "send"}
BY DEF Registered, Fields

LEMMA RejectedRecord ==
  ASSUME NEW r, DOMAIN r = Fields, NEW what
  PROVE  /\ DOMAIN Rejected(r, what) = Fields /\ Rejected(r, what).send = r.send
         /\ Rejected(r, what).writer # "done" => r.writer # "done"
         /\ Rejected(r, what).fresh = r.fresh /\ Rejected(r, what).held = r.held
         /\ Rejected(r, what).handler[1] \in {"read", "send"}
BY RegisteredRecord DEF Rejected, Fields

LEMMA AfterRevokeRecord ==
  ASSUME Shape, NEW c \in Conns
  PROVE  /\ DOMAIN AfterRevoke(c) = Fields /\ AfterRevoke(c).send = conn[c].send
         /\ AfterRevoke(c).writer # "done" => conn[c].writer # "done"
         /\ AfterRevoke(c).fresh = conn[c].fresh /\ AfterRevoke(c).held = conn[c].held
         /\ AfterRevoke(c).handler[1] \in {"read", "send", "untoken"}
BY DEF AfterRevoke, Shape, Fields

\* A write of IsAuthenticated changes one of the three fields it is about.
LEMMA WrittenRecord ==
  ASSUME NEW r, DOMAIN r = Fields, NEW step \in SessionSteps
  PROVE  /\ DOMAIN Written(r, step) = Fields /\ Written(r, step).send = r.send
         /\ Written(r, step).writer = r.writer /\ Written(r, step).handler = r.handler
         /\ Written(r, step).fresh => r.fresh \/ step = "expire"
BY DEF Written, Fields, SessionSteps

\* The reader goes on with the next write, or with the answer.
LEMMA StoredRecord ==
  ASSUME NEW r, DOMAIN r = Fields, NEW to
  PROVE  LET n == [r EXCEPT !.handler = to]
         IN  /\ DOMAIN n = Fields /\ n.send = r.send /\ n.writer = r.writer /\ n.fresh = r.fresh
             /\ n.held = r.held /\ n.handler = to
BY DEF Fields

\* What SetSession makes of a record.
LEMMA SetSessionRecord ==
  ASSUME Shape, NEW c \in Conns, SetSession(c)
  PROVE  \E rec : /\ conn' = [conn EXCEPT ![c] = rec]
                  /\ DOMAIN rec = Fields /\ rec.send = conn[c].send
                  /\ rec.writer # "done" => conn[c].writer # "done"
                  /\ rec.fresh => conn[c].fresh \/ At(c, "expire")
                  /\ rec.fresh = Written(conn[c], Handler(c)[1]).fresh
                  /\ rec.held = Written(conn[c], Handler(c)[1]).held
                  /\ rec.handler[1] \notin {"new", "set", "revoke", "panicked", "finished"}
                  /\ rec.handler[1] = "expire" => At(c, "set")
<1> DEFINE step == Handler(c)[1]
           what == Handler(c)[2]
           r == Written(conn[c], step)
<1>1. step \in SessionSteps /\ DOMAIN conn[c] = Fields
  BY DEF SetSession, Shape
<1>2. /\ DOMAIN r = Fields /\ r.send = conn[c].send /\ r.writer = conn[c].writer
      /\ r.fresh => conn[c].fresh \/ step = "expire"
  BY <1>1, WrittenRecord
<1>3. conn' = [conn EXCEPT ![c] =
        CASE step = "expire"   -> [r EXCEPT !.handler = Authenticated(what)]
          [] step = "unexpire" -> Rejected(r, what)
          [] OTHER             -> [r EXCEPT !.handler = <<FollowedBy[step], what>>]]
  BY DEF SetSession
<1> HIDE DEF r, what
<1>4. CASE step = "expire"
  <2> DEFINE rec == [r EXCEPT !.handler = Authenticated(what)]
  <2>1. conn' = [conn EXCEPT ![c] = rec]
    BY <1>3, <1>4
  <2>2. /\ DOMAIN rec = Fields /\ rec.send = r.send /\ rec.writer = r.writer /\ rec.fresh = r.fresh
        /\ rec.held = r.held /\ rec.handler = Authenticated(what)
    BY <1>2, StoredRecord
  <2>3. Authenticated(what)[1] \in {"send", "serve"}
    BY DEF Authenticated
  <2> HIDE DEF rec
  <2> QED
    BY <1>2, <2>1, <2>2, <2>3 DEF At, r
<1>5. CASE step = "unexpire"
  <2>1. conn' = [conn EXCEPT ![c] = Rejected(r, what)]
    BY <1>3, <1>5
  <2>2. /\ DOMAIN Rejected(r, what) = Fields /\ Rejected(r, what).send = r.send
        /\ Rejected(r, what).writer # "done" => r.writer # "done"
        /\ Rejected(r, what).fresh = r.fresh /\ Rejected(r, what).held = r.held
        /\ Rejected(r, what).handler[1] \in {"read", "send"}
    BY <1>2, RejectedRecord
  <2> QED
    BY <1>2, <2>1, <2>2 DEF At, r
<1>6. CASE step \in {"set", "untoken", "unset"}
  <2> DEFINE to == <<FollowedBy[step], what>>
             rec == [r EXCEPT !.handler = to]
  <2>1. conn' = [conn EXCEPT ![c] = rec]
    BY <1>3, <1>6
  <2>2. /\ DOMAIN rec = Fields /\ rec.send = r.send /\ rec.writer = r.writer /\ rec.fresh = r.fresh
        /\ rec.held = r.held /\ rec.handler = to
    BY <1>2, StoredRecord
  <2>3. to[1] \in {"expire", "unset", "unexpire"} /\ (to[1] = "expire" => step = "set")
    BY <1>6 DEF FollowedBy
  <2> HIDE DEF rec, to
  <2> QED
    BY <1>2, <2>1, <2>2, <2>3 DEF At, r
<1> QED
  BY <1>1, <1>4, <1>5, <1>6 DEF SessionSteps

\* A step that touches no queue, publishes nothing and closes nothing.
LEMMA QuietStep ==
  ASSUME FlowInv, DOMAIN conn' = Conns, \A c \in Conns : Untouched(c),
         UNCHANGED <<published, broadcastQ, event, wire, due, closed>>
  PROVE  FlowInv'
<1>1. Shape' /\ Flow'
  BY UntouchedFlow DEF FlowInv
<1>2. Source'
  BY DEF FlowInv, Source
<1> QED
  BY <1>1, <1>2 DEF FlowInv

Quiet == UNCHANGED <<published, broadcastQ, event, wire, due, closed>>

LEMMA ConnectFlow ==
  ASSUME FlowInv, NEW c \in Conns, ConnectWithSession(c) \/ ConnectWithoutSession(c)
  PROVE  FlowInv'
<1>1. Shape /\ Quiet
  BY DEF FlowInv, Quiet, ConnectWithSession, ConnectWithoutSession, channels, hubIndex, outside,
         history, bounds, loop, FoundInCache
<1>2. CASE ConnectWithSession(c)
  <2> DEFINE rec == [conn[c] EXCEPT !.handler = <<"register">>, !.token = TRUE, !.held = TRUE,
                                      !.fresh = TRUE]
  <2>1. DOMAIN rec = Fields /\ rec.send = conn[c].send /\ rec.writer = conn[c].writer /\ ~IsNew(rec)
    BY <1>1 DEF Shape, Fields, IsNew
  <2>2. conn' = [conn EXCEPT ![c] = rec]
    BY <1>2, <1>1 DEF ConnectWithSession
  <2> HIDE DEF rec
  <2> QED
    BY <1>1, <2>1, <2>2, RecordUntouched, QuietStep DEF Quiet
<1>3. CASE ConnectWithoutSession(c)
  <2> DEFINE rec == [conn[c] EXCEPT !.handler = <<"read">>, !.writer = "auth"]
  <2>1. DOMAIN rec = Fields /\ rec.send = conn[c].send /\ ~IsNew(rec)
    BY <1>1 DEF Shape, Fields, IsNew
  <2>2. conn' = [conn EXCEPT ![c] = rec]
    BY <1>3, <1>1 DEF ConnectWithoutSession
  <2>3. conn[c].writer # "done"
    BY <1>1, <1>3 DEF ConnectWithoutSession, Shape, IsNew, At, Handler
  <2> QED
    BY <1>1, <2>1, <2>2, <2>3, RecordUntouched, QuietStep DEF Quiet
<1> QED
  BY <1>2, <1>3

\* A step of a handler that goes somewhere, or changes flags of its connection.
LEMMA GotoFlow ==
  ASSUME FlowInv, Quiet, NEW c \in Conns, NEW step, Goto(c, step), step[1] # "new"
  PROVE  FlowInv'
<1>1. DOMAIN conn' = Conns /\ \A d \in Conns : Untouched(d)
  BY GotoUntouched DEF FlowInv
<1> QED
  BY <1>1, QuietStep DEF Quiet

LEMMA RecordFlow ==
  ASSUME FlowInv, Quiet, NEW c \in Conns, NEW rec, DOMAIN rec = Fields, rec.send = conn[c].send,
         rec.writer # "done" => conn[c].writer # "done",
         IsNew(rec) => IsNew(conn[c]) /\ rec.writer = conn[c].writer,
         conn' = [conn EXCEPT ![c] = rec]
  PROVE  FlowInv'
<1>1. Shape
  BY DEF FlowInv
<1>2. DOMAIN conn' = Conns /\ \A d \in Conns : Untouched(d)
  BY <1>1, RecordUntouched
<1> QED
  BY <1>2, QuietStep DEF Quiet

LEMMA SameFlow ==
  ASSUME FlowInv, Quiet, UNCHANGED conn
  PROVE  FlowInv'
BY SameConn, QuietStep DEF FlowInv, Quiet

LEMMA CheckFlow ==
  ASSUME FlowInv, NEW c \in Conns, Check(c) \/ Get(c)
  PROVE  FlowInv'
<1> DEFINE what == Handler(c)[2]
           r == Rejected(conn[c], what)
<1>1. Quiet /\ Shape
  BY DEF Check, Get, Quiet, FlowInv, channels, hubIndex, outside, history, bounds, loop
<1>2. CASE Check(c)
  <2>1. \/ \E to : Goto(c, to) /\ to[1] # "new"
        \/ conn' = [conn EXCEPT ![c] = r]
    <3>1. Authenticated(what)[1] # "new" /\ <<"get", what>>[1] # "new"
      BY DEF Authenticated
    <3> QED
      BY <1>2, <3>1 DEF Check
  <2>2. /\ DOMAIN r = Fields /\ r.send = conn[c].send /\ (r.writer # "done" => conn[c].writer # "done")
        /\ ~IsNew(r)
    BY <1>1, RejectedRecord DEF Shape, IsNew
  <2> HIDE DEF r
  <2> QED
    BY <1>1, <2>1, <2>2, GotoFlow, RecordFlow
<1>3. CASE Get(c)
  <2>1. Goto(c, <<AfterGet(Found(c)), what>>)
    BY <1>3 DEF Get
  <2>2. <<AfterGet(Found(c)), what>>[1] # "new"
    BY DEF AfterGet
  <2> QED
    BY <1>1, <2>1, <2>2, GotoFlow
<1> QED
  BY <1>2, <1>3

\* The steps of a handler that send nothing.
LEMMA HandlerFlow ==
  ASSUME FlowInv, NEW c \in Conns,
         \/ RegisterSend(c) \/ SetSession(c) \/ RevokeStopped(c) \/ Serve(c) \/ ReadError(c)
         \/ Join(c) \/ UnregisterSend(c)
  PROVE  FlowInv'
<1>1. Shape
  BY DEF FlowInv
<1> USE DEF channels, hubIndex, outside, history, bounds, loop
<1>2. CASE RegisterSend(c)
  <2>1. Quiet /\ Goto(c, <<"check", "hello">>) /\ <<"check", "hello">>[1] # "new"
    BY <1>2 DEF RegisterSend, Quiet
  <2> QED
    BY <2>1, GotoFlow
<1>3. CASE SetSession(c)
  <2>1. Quiet
    BY <1>3 DEF SetSession, Quiet
  <2> QED
    BY <1>1, <1>3, <2>1, SetSessionRecord, RecordFlow DEF IsNew
<1>4. CASE RevokeStopped(c)
  <2>1. Quiet /\ conn' = [conn EXCEPT ![c] = AfterRevoke(c)]
    BY <1>4 DEF RevokeStopped, Quiet
  <2> QED
    BY <1>1, <2>1, AfterRevokeRecord, RecordFlow DEF IsNew
<1>5. CASE Serve(c)
  <2>1. Quiet /\ \/ Goto(c, <<"publish">>) \/ Goto(c, <<"send", "reply">>) \/ Goto(c, <<"revoke", "reply">>)
    BY <1>5 DEF Serve, Quiet
  <2>2. <<"publish">>[1] # "new" /\ <<"send", "reply">>[1] # "new" /\ <<"revoke", "reply">>[1] # "new"
    OBVIOUS
  <2> QED
    BY <2>1, <2>2, GotoFlow
<1>6. CASE ReadError(c)
  <2> DEFINE rec == [conn[c] EXCEPT !.handler = <<"join">>, !.endWritePump = TRUE]
  <2>1. conn' = [conn EXCEPT ![c] = rec] /\ Quiet
    BY <1>1, <1>6 DEF ReadError, Quiet
  <2>2. DOMAIN rec = Fields /\ rec.send = conn[c].send /\ rec.writer = conn[c].writer /\ ~IsNew(rec)
    BY <1>1 DEF Shape, Fields, IsNew
  <2> HIDE DEF rec
  <2> QED
    BY <2>1, <2>2, RecordFlow
<1>7. CASE Join(c)
  <2>1. Quiet /\ Goto(c, <<"unregister">>) /\ <<"unregister">>[1] # "new"
    BY <1>7 DEF Join, Quiet
  <2> QED
    BY <2>1, GotoFlow
<1>8. CASE UnregisterSend(c)
  <2>1. Quiet /\ Goto(c, <<"finished">>) /\ <<"finished">>[1] # "new"
    BY <1>8 DEF UnregisterSend, Quiet
  <2> QED
    BY <2>1, GotoFlow
<1> QED
  BY <1>2, <1>3, <1>4, <1>5, <1>6, <1>7, <1>8

LEMMA ReadRequestFlow ==
  ASSUME FlowInv, NEW c \in Conns, ReadRequest(c)
  PROVE  FlowInv'
<1> DEFINE registering == [conn[c] EXCEPT !.token = TRUE, !.held = TRUE, !.handler = <<"register">>]
           ended == [conn[c] EXCEPT !.wsOpen = FALSE]
<1>1. Shape /\ Quiet
  BY DEF FlowInv, ReadRequest, Quiet, channels, hubIndex, history, loop
<1>2. \/ UNCHANGED conn
      \/ conn' = [conn EXCEPT ![c] = registering]
      \/ conn' = [conn EXCEPT ![c] = ended]
      \/ Goto(c, <<"revoke", "close">>)
      \/ \E what \in Requests : Goto(c, <<"check", what>>)
  <2>1. CASE Challenge(c)
    BY <2>1, <1>1 DEF Challenge, Shape
  <2>2. CASE \E what \in Requests \ {"challenge"} : Goto(c, <<"check", what>>)
    BY <2>2
  <2> QED
    BY <2>1, <2>2 DEF ReadRequest
<1>3. /\ DOMAIN registering = Fields /\ registering.send = conn[c].send
      /\ registering.writer = conn[c].writer /\ ~IsNew(registering)
  BY <1>1 DEF Shape, Fields, IsNew
<1>4. /\ DOMAIN ended = Fields /\ ended.send = conn[c].send
      /\ ended.writer = conn[c].writer /\ (IsNew(ended) => IsNew(conn[c]))
  BY <1>1 DEF Shape, Fields, IsNew
<1>5. <<"revoke", "close">>[1] # "new" /\ \A what : <<"check", what>>[1] # "new"
  OBVIOUS
<1> HIDE DEF registering, ended
<1>6. CASE UNCHANGED conn
  BY <1>1, <1>6, SameFlow
<1>7. CASE conn' = [conn EXCEPT ![c] = registering]
  BY <1>1, <1>3, <1>7, RecordFlow
<1>8. CASE conn' = [conn EXCEPT ![c] = ended]
  BY <1>1, <1>4, <1>8, RecordFlow
<1>9. CASE Goto(c, <<"revoke", "close">>) \/ \E what \in Requests : Goto(c, <<"check", what>>)
  BY <1>1, <1>5, <1>9, GotoFlow
<1> QED
  BY <1>2, <1>6, <1>7, <1>8, <1>9

\* What is published has the form of a message.
LEMMA BroadcastSource ==
  ASSUME Source, NEW critical \in BOOLEAN, NEW audience \in Users \cup {"all"},
         Broadcast(critical, audience), UNCHANGED event
  PROVE  Source'
<1> DEFINE e == [id |-> published + 1, critical |-> critical, audience |-> audience]
<1>1. e \in Messages /\ published + 1 \in Nat
  BY DEF Source, Messages
<1>2. CASE broadcastQ' = Append(broadcastQ, e) /\ published' = published + 1
  BY <1>1, <1>2 DEF Source
<1>3. CASE UNCHANGED <<broadcastQ, published>>
  BY <1>3 DEF Source
<1> QED
  BY <1>2, <1>3 DEF Broadcast

LEMMA PublishFlow ==
  ASSUME FlowInv,
         \/ \E c \in Conns : PublishTyping(c)
         \/ \E audience \in Audiences : Publish(audience)
  PROVE  FlowInv'
<1> USE DEF channels, hubIndex, outside, history, bounds, loop
<1>1. CASE \E c \in Conns : PublishTyping(c)
  <2> PICK c \in Conns : PublishTyping(c)
    BY <1>1
  <2>1. /\ Broadcast(FALSE, "all") /\ Goto(c, <<"send", "reply">>)
        /\ UNCHANGED <<event, wire, due, closed>>
    BY DEF PublishTyping
  <2>2. Source'
    BY <2>1, BroadcastSource DEF FlowInv
  <2>3. <<"send", "reply">>[1] # "new"
    OBVIOUS
  <2>4. DOMAIN conn' = Conns /\ \A d \in Conns : Untouched(d)
    BY <2>1, <2>3, GotoUntouched DEF FlowInv
  <2> QED
    BY <2>1, <2>2, <2>4, UntouchedFlow DEF FlowInv
<1>2. CASE \E audience \in Audiences : Publish(audience)
  <2> PICK audience \in Audiences : Publish(audience)
    BY <1>2
  <2>1. /\ Broadcast(TRUE, audience) /\ UNCHANGED <<event, wire, due, closed, conn>>
    BY DEF Publish
  <2>2. Source'
    BY <2>1, BroadcastSource, CapacityAssumption DEF FlowInv
  <2>3. DOMAIN conn' = Conns /\ \A d \in Conns : Untouched(d)
    BY <2>1, SameConn DEF FlowInv
  <2> QED
    BY <2>1, <2>2, <2>3, UntouchedFlow DEF FlowInv
<1> QED
  BY <1>1, <1>2

\* A hello or a reply takes a place in the queue, and owes nothing.
LEMMA SendMessageFlow ==
  ASSUME FlowInv, NEW c \in Conns, SendMessage(c)
  PROVE  FlowInv'
<1>1. Shape /\ Flow /\ Quiet
  BY DEF FlowInv, SendMessage, Quiet, channels, hubIndex, outside, history, bounds, loop
<1>2. CASE c \in closed
  <2> DEFINE rec == [conn[c] EXCEPT !.handler = <<"panicked">>, !.wsOpen = @ /\ conn[c].writer = "none"]
  <2>1. conn' = [conn EXCEPT ![c] = rec]
    BY <1>1, <1>2 DEF SendMessage
  <2>2. DOMAIN rec = Fields /\ rec.send = conn[c].send /\ rec.writer = conn[c].writer /\ ~IsNew(rec)
    BY <1>1 DEF Shape, Fields, IsNew
  <2> HIDE DEF rec
  <2> QED
    BY <1>1, <2>1, <2>2, RecordFlow
<1>3. CASE c \notin closed
  <2> DEFINE on == IF Handler(c)[2] = "hello" THEN Registered(conn[c])
                   ELSE [conn[c] EXCEPT !.handler = <<"read">>]
             rec == [on EXCEPT !.send = Append(@, Message)]
  <2>1. conn' = [conn EXCEPT ![c] = rec]
    BY <1>3 DEF SendMessage
  <2>2. /\ DOMAIN on = Fields /\ on.send = conn[c].send
        /\ (on.writer # "done" => conn[c].writer # "done") /\ ~IsNew(on)
    BY <1>1, RegisteredRecord DEF Shape, Fields, IsNew
  <2> HIDE DEF on
  <2>3. /\ DOMAIN rec = Fields /\ rec.send = Append(conn[c].send, Message)
        /\ (rec.writer # "done" => conn[c].writer # "done") /\ ~IsNew(rec)
    BY <2>2 DEF Fields, IsNew
  <2> HIDE DEF rec
  <2>4. DOMAIN conn' = Conns /\ conn'[c] = rec /\ \A d \in Conns \ {c} : conn'[d] = conn[d]
    BY <1>1, <2>1 DEF Shape
  <2>5. Append(conn[c].send, Message) \in Seq(Messages)
    BY <1>1, MessageTypes DEF Shape
  <2>6. Shape'
    BY <1>1, <2>3, <2>4, <2>5 DEF Shape, Quiet
  <2>7. Flow'
    <3> SUFFICES ASSUME NEW d \in Conns
                 PROVE  /\ Prefix(wire[d], due[d])
                        /\ conn'[d].writer # "done" => Carries(conn'[d].send, wire[d], due[d], d \in closed)
      BY <1>1 DEF Flow, Quiet
    <3>1. CASE d # c
      BY <1>1, <2>4, <3>1 DEF Flow
    <3>2. CASE d = c
      <4>1. Prefix(wire[c], due[c]) /\ conn[c].send \in Seq(Messages)
        BY <1>1 DEF Flow, Shape
      <4>2. ASSUME rec.writer # "done"
            PROVE  Carries(rec.send, wire[c], due[c], c \in closed)
        <5>1. Carries(conn[c].send, wire[c], due[c], c \in closed)
          BY <1>1, <2>3, <4>2 DEF Flow
        <5>2. (c \in closed) = FALSE
          BY <1>3
        <5>3. Carries(Append(conn[c].send, Message), wire[c], due[c], FALSE)
          BY <4>1, <5>1, <5>2, PutOther, MessageTypes
        <5> QED
          BY <2>3, <5>2, <5>3
      <4> QED
        BY <2>4, <3>2, <4>1, <4>2
    <3> QED
      BY <3>1, <3>2
  <2>8. Source'
    BY <1>1 DEF FlowInv, Source, Quiet
  <2> QED
    BY <2>6, <2>7, <2>8 DEF FlowInv
<1> QED
  BY <1>2, <1>3

----------------------------------------------------------------------------
(* The writer of a connection.                                             *)

\* A step that changes one connection, what was written to it and what it is
\* owed, and leaves the others alone.
LEMMA OneFlow ==
  ASSUME FlowInv, Source', NEW c \in Conns, NEW rec,
         DOMAIN rec = Fields, rec.send \in Seq(Messages), IsNew(rec) => rec.writer = "none",
         conn' = [conn EXCEPT ![c] = rec],
         wire' \in [Conns -> Seq(Messages)], due' \in [Conns -> Seq(Messages)],
         \A d \in Conns \ {c} : wire'[d] = wire[d] /\ due'[d] = due[d] /\ (d \in closed' <=> d \in closed),
         Prefix(wire'[c], due'[c]),
         rec.writer # "done" => Carries(rec.send, wire'[c], due'[c], c \in closed')
  PROVE  FlowInv'
<1>1. Shape /\ Flow
  BY DEF FlowInv
<1>2. DOMAIN conn' = Conns /\ conn'[c] = rec /\ \A d \in Conns \ {c} : conn'[d] = conn[d]
  BY <1>1 DEF Shape
<1>3. Shape'
  BY <1>1, <1>2 DEF Shape
<1>4. Flow'
  <2> SUFFICES ASSUME NEW d \in Conns
               PROVE  /\ Prefix(wire'[d], due'[d])
                      /\ conn'[d].writer # "done" =>
                           Carries(conn'[d].send, wire'[d], due'[d], d \in closed')
    BY DEF Flow
  <2>1. CASE d = c
    BY <1>2, <2>1
  <2>2. CASE d # c
    <3>1. /\ conn'[d] = conn[d] /\ wire'[d] = wire[d] /\ due'[d] = due[d]
          /\ (d \in closed') = (d \in closed)
      BY <1>2, <2>2
    <3>2. /\ Prefix(wire[d], due[d])
          /\ conn[d].writer # "done" => Carries(conn[d].send, wire[d], due[d], d \in closed)
      BY <1>1 DEF Flow
    <3> QED
      BY <3>1, <3>2
  <2> QED
    BY <2>1, <2>2
<1> QED
  BY <1>3, <1>4 DEF FlowInv

\* What the writer takes it writes, unless it need not arrive or the writer
\* returns with it.
LEMMA WriterReceiveFlow ==
  ASSUME FlowInv, NEW c \in Conns, WriterReceive(c)
  PROVE  FlowInv'
<1> DEFINE send == conn[c].send
           msg == Head(send)
           rest == [conn[c] EXCEPT !.send = Tail(@)]
           gone == [conn[c] EXCEPT !.send = Tail(@), !.writer = "done"]
<1>1. /\ Shape /\ Flow /\ Source' /\ UNCHANGED <<due, closed>>
  BY DEF FlowInv, Source, WriterReceive, channels, hubIndex, outside, bounds, loop
<1>2. /\ conn[c].writer \in {"auth", "run"} /\ send # <<>> /\ send \in Seq(Messages)
      /\ wire \in [Conns -> Seq(Messages)] /\ due \in [Conns -> Seq(Messages)]
  BY <1>1 DEF WriterReceive, Writing, Shape
<1>3. Prefix(wire[c], due[c]) /\ Carries(send, wire[c], due[c], c \in closed)
  BY <1>1, <1>2 DEF Flow
<1>4. Tail(send) \in Seq(Messages) /\ msg \in Messages
  BY <1>2
<1> DEFINE cut == c \in closed
<1>5. cut \in BOOLEAN /\ Carries(send, wire[c], due[c], cut)
  BY <1>3
<1> HIDE DEF cut
<1>6. /\ DOMAIN rest = Fields /\ rest.send = Tail(send) /\ rest.writer = conn[c].writer
      /\ (IsNew(rest) => IsNew(conn[c]))
      /\ DOMAIN gone = Fields /\ gone.send = Tail(send) /\ gone.writer = "done"
      /\ (IsNew(gone) => IsNew(conn[c]))
  BY <1>1 DEF Shape, Fields, IsNew
<1>7. ~IsNew(conn[c])
  BY <1>1, <1>2 DEF Shape
<1> HIDE DEF rest, gone
<1>8. CASE /\ conn' = [conn EXCEPT ![c] = rest] /\ UNCHANGED wire
           /\ Skip(c) \/ ~Critical(msg)
  <2>1. ~Critical(msg)
    BY <1>8 DEF Skip, Critical
  <2>2. Carries(Tail(send), wire[c], due[c], cut)
    BY <1>2, <1>5, <2>1, TakeOther
  <2> QED
    BY <1>1, <1>2, <1>3, <1>4, <1>6, <1>7, <1>8, <2>2, OneFlow DEF cut
<1>9. CASE /\ conn' = [conn EXCEPT ![c] = rest] /\ Critical(msg)
           /\ wire' = [wire EXCEPT ![c] = Append(@, msg)]
  <2>1. Append(wire[c], msg) \in Seq(Messages)
    BY <1>2, <1>4
  <2>2. /\ wire' \in [Conns -> Seq(Messages)] /\ wire'[c] = Append(wire[c], msg)
        /\ \A d \in Conns \ {c} : wire'[d] = wire[d]
    BY <1>2, <1>9, <2>1
  <2>3. /\ Carries(Tail(send), Append(wire[c], msg), due[c], cut)
        /\ Prefix(Append(wire[c], msg), due[c])
    <3>1. wire[c] \in Seq(Messages) /\ due[c] \in Seq(Messages)
      BY <1>2
    <3> QED
      BY <1>2, <1>3, <1>5, <1>9, <3>1, TakeCritical
  <2> QED
    BY <1>1, <1>2, <1>4, <1>6, <1>7, <1>9, <2>2, <2>3, OneFlow DEF cut
<1>10. CASE conn' = [conn EXCEPT ![c] = gone] /\ UNCHANGED wire
  BY <1>1, <1>2, <1>3, <1>4, <1>6, <1>7, <1>10, OneFlow
<1> QED
  <2>1. \/ conn' = [conn EXCEPT ![c] = rest] /\ wire' = IF Skip(c) \/ ~Critical(msg) THEN wire
                                                    ELSE [wire EXCEPT ![c] = Append(@, msg)]
        \/ conn' = [conn EXCEPT ![c] = gone] /\ UNCHANGED wire
    BY <1>1 DEF WriterReceive, rest, gone, Shape
  <2> QED
    BY <1>8, <1>9, <1>10, <2>1

LEMMA WriterFlow ==
  ASSUME FlowInv, NEW c \in Conns, WriterReturn(c) \/ AuthTickerStop(c)
  PROVE  FlowInv'
<1> DEFINE gone == [conn[c] EXCEPT !.writer = "done", !.wsOpen = FALSE]
           run == [conn[c] EXCEPT !.writer = "run"]
<1>1. Shape /\ Quiet
  BY DEF FlowInv, WriterReturn, AuthTickerStop, Quiet, channels, hubIndex, outside, history, bounds, loop
<1>2. conn[c].writer \in {"auth", "run"}
  BY DEF WriterReturn, AuthTickerStop, Writing
<1>3. ~IsNew(conn[c])
  BY <1>1, <1>2 DEF Shape
<1>4. /\ DOMAIN gone = Fields /\ gone.send = conn[c].send /\ gone.writer = "done" /\ ~IsNew(gone)
      /\ DOMAIN run = Fields /\ run.send = conn[c].send /\ ~IsNew(run)
  BY <1>1, <1>3 DEF Shape, Fields, IsNew
<1>5. conn' = [conn EXCEPT ![c] = gone] \/ conn' = [conn EXCEPT ![c] = run]
  BY <1>1 DEF WriterReturn, WriterEnd, AuthTickerStop, Shape
<1> HIDE DEF gone, run
<1> QED
  BY <1>1, <1>2, <1>4, <1>5, RecordFlow

----------------------------------------------------------------------------
(* Clients, and goroutines that use the hub.                               *)

LEMMA OutsideFlow ==
  ASSUME FlowInv,
         \/ \E c \in Conns : ClientClose(c) \/ BecomeIdle(c) \/ Login(c) \/ Refill(c) \/ Evict(c)
         \/ \E u \in Users, revoked \in Revocations : ClearSessionCache(u, revoked)
         \/ \E u \in Users : InvalidateStopped(u)
         \/ Stop
  PROVE  FlowInv'
<1>1. Shape
  BY DEF FlowInv
<1> USE DEF channels, hubIndex, outside, history, bounds, loop
<1>2. CASE \E c \in Conns : ClientClose(c)
  <2> PICK c \in Conns : ClientClose(c)
    BY <1>2
  <2> DEFINE ended == [conn[c] EXCEPT !.wsOpen = FALSE]
  <2>1. conn' = [conn EXCEPT ![c] = ended] /\ Quiet
    BY <1>1 DEF ClientClose, Quiet
  <2>2. /\ DOMAIN ended = Fields /\ ended.send = conn[c].send
        /\ ended.writer = conn[c].writer /\ (IsNew(ended) => IsNew(conn[c]))
    BY <1>1 DEF Shape, Fields, IsNew
  <2> HIDE DEF ended
  <2> QED
    BY <2>1, <2>2, RecordFlow
<1>3. CASE \E c \in Conns : BecomeIdle(c) \/ Login(c) \/ Refill(c) \/ Evict(c)
  <2>1. Quiet /\ UNCHANGED conn
    BY <1>3 DEF BecomeIdle, Login, Refill, Evict, Quiet
  <2> QED
    BY <2>1, SameFlow
<1>4. CASE \/ \E u \in Users, revoked \in Revocations : ClearSessionCache(u, revoked)
           \/ \E u \in Users : InvalidateStopped(u)
           \/ Stop
  <2>1. Quiet /\ UNCHANGED conn
    BY <1>4 DEF ClearSessionCache, InvalidateStopped, Stop, Quiet
  <2> QED
    BY <2>1, SameFlow
<1> QED
  BY <1>2, <1>3, <1>4

----------------------------------------------------------------------------
(* The hub.                                                                *)

\* A step that touches no queue of a connection and closes none, and keeps
\* the form of the events.
LEMMA SourceStep ==
  ASSUME FlowInv, Source', DOMAIN conn' = Conns, \A c \in Conns : Untouched(c),
         UNCHANGED <<wire, due, closed>>
  PROVE  FlowInv'
BY UntouchedFlow DEF FlowInv

\* The cases of the hub that leave the connections alone.
LEMMA HubQuietFlow ==
  ASSUME FlowInv,
         \/ HubRegister \/ HubStop \/ HubCheck \/ HubGet \/ HubPumpFinished \/ HubStopped
  PROVE  FlowInv'
<1> USE DEF channels, closing, hubIndex, outside, history, bounds, loop
<1>1. CASE HubRegister
  BY <1>1, SameFlow DEF HubRegister, Quiet
<1>2. CASE HubStop
  BY <1>2, SameFlow DEF HubStop, Quiet
<1>3. CASE HubCheck \/ HubGet
  BY <1>3, SameFlow DEF HubCheck, HubGet, Quiet
<1>4. CASE HubPumpFinished
  BY <1>4, SameFlow DEF HubPumpFinished, Quiet
<1>5. CASE HubStopped
  BY <1>5, SameFlow DEF HubStopped, Quiet
<1> QED
  BY <1>1, <1>2, <1>3, <1>4, <1>5

\* Those that take an event, end its broadcast, or publish one of their own.
LEMMA HubEventFlow ==
  ASSUME FlowInv,
         \/ HubUnregister \/ HubBroadcast \/ HubLoopEnd \/ HubNilSession \/ HubOmit
         \/ \E u \in Users : HubOffline(u)
  PROVE  FlowInv'
<1>1. Source /\ Shape
  BY DEF FlowInv
<1> USE DEF channels, closing, hubIndex, outside, history, bounds, loop
<1>2. CASE HubUnregister
  <2>1. /\ UNCHANGED <<conn, published, broadcastQ, wire, due, closed>>
        /\ event' = NoEvent \/ UNCHANGED event
    BY <1>2 DEF HubUnregister, Panic
  <2>2. Source'
    BY <1>1, <2>1, MessageTypes DEF Source
  <2> QED
    BY <1>1, <2>1, <2>2, SameConn, SourceStep
<1>3. CASE HubBroadcast
  <2>1. /\ UNCHANGED <<conn, published, wire, due, closed>>
        /\ broadcastQ # <<>> /\ event' = Head(broadcastQ) /\ broadcastQ' = Tail(broadcastQ)
    BY <1>3 DEF HubBroadcast, Index!StartBroadcast
  <2>2. Source'
    BY <1>1, <2>1 DEF Source
  <2> QED
    BY <1>1, <2>1, <2>2, SameConn, SourceStep
<1>4. CASE HubLoopEnd
  <2>1. /\ UNCHANGED <<conn, published, broadcastQ, wire, due, closed>>
        /\ event' = NoEvent
    BY <1>4 DEF HubLoopEnd, Index!Finish
  <2>2. Source'
    BY <1>1, <2>1, MessageTypes DEF Source
  <2> QED
    BY <1>1, <2>1, <2>2, SameConn, SourceStep
<1>5. CASE \E u \in Users : HubOffline(u)
  <2>1. /\ UNCHANGED <<conn, published, event, wire, due, closed>>
        /\ broadcastQ' = Append(broadcastQ, NoEvent)
    BY <1>5 DEF HubOffline
  <2>2. Source'
    BY <1>1, <2>1, MessageTypes DEF Source
  <2> QED
    BY <1>1, <2>1, <2>2, SameConn, SourceStep
<1>6. CASE HubNilSession \/ HubOmit
  <2>1. /\ UNCHANGED <<conn, published, broadcastQ, wire, due, closed>>
        /\ event' = NoEvent \/ UNCHANGED event
    BY <1>6 DEF HubNilSession, HubOmit, Panic, Index!Deliver
  <2>2. Source'
    BY <1>1, <2>1, MessageTypes DEF Source
  <2> QED
    BY <1>1, <2>1, <2>2, SameConn, SourceStep
<1> QED
  BY <1>2, <1>3, <1>4, <1>5, <1>6

\* A step of the hub that gives the connection it visits another record, or none.
LEMMA VisitedFlow ==
  ASSUME FlowInv, Quiet, NEW v, NEW rec,
         v \in Conns => /\ DOMAIN rec = Fields /\ rec.send = conn[v].send
                        /\ rec.writer = conn[v].writer /\ rec.handler = conn[v].handler,
         conn' = [conn EXCEPT ![v] = rec] \/ UNCHANGED conn
  PROVE  FlowInv'
<1>1. Shape
  BY DEF FlowInv
<1>2. CASE UNCHANGED conn
  BY <1>2, SameFlow
<1>3. CASE v \in Conns /\ conn' = [conn EXCEPT ![v] = rec]
  BY <1>1, <1>3, RecordFlow DEF IsNew
<1>4. CASE v \notin Conns /\ conn' = [conn EXCEPT ![v] = rec]
  <2>1. DOMAIN conn' = Conns /\ \A d \in Conns : conn'[d] = conn[d]
    BY <1>1, <1>4 DEF Shape
  <2>2. \A d \in Conns : Untouched(d)
    BY <1>1, <2>1 DEF Shape, Untouched
  <2> QED
    BY <2>1, <2>2, QuietStep DEF Quiet
<1> QED
  BY <1>2, <1>3, <1>4

\* Those that change flags of the connection they visit.
LEMMA HubVisitFlow ==
  ASSUME FlowInv, HubSetSession \/ HubSkip \/ HubMember \/ HubClose
  PROVE  FlowInv'
<1>1. Shape
  BY DEF FlowInv
<1> USE DEF channels, closing, hubIndex, outside, history, bounds, loop
<1>2. CASE HubSetSession \/ HubSkip
  <2>1. Quiet
    BY <1>2 DEF HubSetSession, HubSkip, Index!Deliver, Quiet
  <2> DEFINE v == Visited
  <2>2. \/ UNCHANGED conn
        \/ \E step \in SessionSteps : conn' = [conn EXCEPT ![v] = Written(conn[v], step)]
    BY <1>2 DEF HubSetSession, HubSkip, HubAt, SessionSteps
  <2> HIDE DEF v
  <2>3. ASSUME NEW step \in SessionSteps, v \in Conns
        PROVE  /\ DOMAIN Written(conn[v], step) = Fields /\ Written(conn[v], step).send = conn[v].send
               /\ Written(conn[v], step).writer = conn[v].writer
               /\ Written(conn[v], step).handler = conn[v].handler
    <3>1. DOMAIN conn[v] = Fields
      BY <1>1, <2>3 DEF Shape
    <3> QED
      BY <3>1, WrittenRecord
  <2> QED
    BY <2>1, <2>2, <2>3, VisitedFlow, SameFlow
<1>5. CASE HubMember
  <2>1. Quiet
    BY <1>5 DEF HubMember, Quiet
  <2> DEFINE v == Visited
             rec == [conn[v] EXCEPT !.held = TRUE]
  <2>2. conn' = [conn EXCEPT ![v] = rec] \/ UNCHANGED conn
    BY <1>5 DEF HubMember
  <2>3. v \in Conns => /\ DOMAIN rec = Fields /\ rec.send = conn[v].send
                       /\ rec.writer = conn[v].writer /\ rec.handler = conn[v].handler
    BY <1>1 DEF Shape, Fields
  <2> HIDE DEF v, rec
  <2> QED
    BY <2>1, <2>2, <2>3, VisitedFlow
<1>3. CASE HubClose
  <2> DEFINE v == Head(toClose)
             rec == [conn[v] EXCEPT !.wsOpen = FALSE, !.endWritePump = TRUE]
  <2>1. Quiet /\ conn' = [conn EXCEPT ![v] = rec]
    BY <1>1, <1>3 DEF HubClose, Quiet, Shape
  <2>2. v \in Conns => /\ DOMAIN rec = Fields /\ rec.send = conn[v].send
                       /\ rec.writer = conn[v].writer /\ rec.handler = conn[v].handler
    BY <1>1 DEF Shape, Fields
  <2> HIDE DEF v, rec
  <2> QED
    BY <2>1, <2>2, VisitedFlow
<1> QED
  BY <1>2, <1>3, <1>5

\* The invalidation of a user clears flags, and may end the wait of a reader.
LEMMA InvalidateFlow ==
  ASSUME FlowInv, NEW u \in Users, HubInvalidateUser(u)
  PROVE  FlowInv'
<1>1. Shape /\ Quiet
  BY DEF FlowInv, HubInvalidateUser, Quiet, channels, hubIndex, bounds, loop
<1>2. ASSUME NEW cs, conn' = Forget(cs, u), NEW d \in Conns,
             DOMAIN cs[d] = Fields, cs[d].send = conn[d].send,
             cs[d].writer # "done" => conn[d].writer # "done",
             IsNew(cs[d]) => IsNew(conn[d]) /\ cs[d].writer = conn[d].writer
      PROVE  Untouched(d)
  <2>1. conn'[d] = [cs[d] EXCEPT !.held = @ /\ d \notin ForUser(u),
                                !.fresh = @ /\ d \notin ForUser(u)]
    BY <1>2 DEF Forget
  <2> DEFINE flag == cs[d].fresh /\ d \notin ForUser(u)
             there == cs[d].held /\ d \notin ForUser(u)
  <2>2. conn'[d] = [cs[d] EXCEPT !.held = there, !.fresh = flag]
    BY <2>1
  <2> HIDE DEF flag, there
  <2>3. /\ DOMAIN conn'[d] = Fields /\ conn'[d].send = cs[d].send
        /\ conn'[d].writer = cs[d].writer /\ conn'[d].handler = cs[d].handler
    BY <1>2, <2>2 DEF Fields
  <2> QED
    BY <1>2, <2>3 DEF Untouched, IsNew
<1>3. CASE conn' = Forget(conn, u)
  <2>1. DOMAIN conn' = Conns
    BY <1>3 DEF Forget
  <2>2. \A d \in Conns : Untouched(d)
    BY <1>1, <1>2, <1>3 DEF Shape
  <2> QED
    BY <1>1, <2>1, <2>2, QuietStep DEF Quiet
<1>4. ASSUME NEW c \in Conns, conn' = Forget([conn EXCEPT ![c] = AfterRevoke(c)], u)
      PROVE  FlowInv'
  <2> DEFINE cs == [conn EXCEPT ![c] = AfterRevoke(c)]
  <2>1. DOMAIN conn' = Conns
    BY <1>4 DEF Forget
  <2>2. cs[c] = AfterRevoke(c) /\ \A d \in Conns \ {c} : cs[d] = conn[d]
    BY <1>1 DEF Shape
  <2>3. conn' = Forget(cs, u)
    BY <1>4
  <2> HIDE DEF cs
  <2>4. ASSUME NEW d \in Conns  PROVE Untouched(d)
    <3>1. /\ DOMAIN cs[d] = Fields /\ cs[d].send = conn[d].send
          /\ (cs[d].writer # "done" => conn[d].writer # "done")
          /\ (IsNew(cs[d]) => IsNew(conn[d]) /\ cs[d].writer = conn[d].writer)
      BY <1>1, <2>2, AfterRevokeRecord DEF Shape, IsNew
    <3> QED
      BY <1>2, <2>3, <3>1
  <2> QED
    BY <1>1, <2>1, <2>4, QuietStep DEF Quiet
<1> QED
  BY <1>3, <1>4 DEF HubInvalidateUser

\* What the hub owes the connection it visits, once it has the event for it.
LEMMA OwedMore ==
  ASSUME FlowInv, EventDue
  PROVE  /\ due' \in [Conns -> Seq(Messages)]
         /\ \A d \in Conns : due'[d] = IF d = Visited /\ Critical(event)
                                       THEN Append(due[d], event) ELSE due[d]
<1>1. due \in [Conns -> Seq(Messages)] /\ event \in Messages
  BY DEF FlowInv, Shape, Source
<1> DEFINE v == Visited
<1>2. due' = IF Critical(event) THEN [due EXCEPT ![v] = Append(@, event)] ELSE due
  BY DEF EventDue
<1> HIDE DEF v
<1>3. \A d \in Conns : Append(due[d], event) \in Seq(Messages)
  BY <1>1
<1>4. CASE Critical(event)
  BY <1>1, <1>2, <1>3, <1>4 DEF v
<1>5. CASE ~Critical(event)
  BY <1>1, <1>2, <1>5 DEF v
<1> QED
  BY <1>4, <1>5

\* The event finds room in the queue of the connection.
LEMMA HubSendFlow ==
  ASSUME FlowInv, HubSend
  PROVE  FlowInv'
<1> DEFINE v == Visited
           rec == [conn[v] EXCEPT !.send = Append(@, event)]
<1>1. /\ Shape /\ Flow /\ Source
      /\ EventDue /\ v \notin closed
      /\ UNCHANGED <<published, broadcastQ, event, wire, closed>>
  BY DEF FlowInv, HubSend, Index!Deliver, channels, outside, bounds
<1>2. conn' = [conn EXCEPT ![v] = rec]
  BY DEF HubSend
<1>3. Source'
  BY <1>1 DEF Source
<1>4. /\ due' \in [Conns -> Seq(Messages)]
      /\ \A d \in Conns : due'[d] = IF d = v /\ Critical(event)
                                    THEN Append(due[d], event) ELSE due[d]
  BY <1>1, OwedMore
<1> HIDE DEF v
<1>5. CASE v \notin Conns
  <2>1. DOMAIN conn' = Conns /\ \A d \in Conns : conn'[d] = conn[d]
    BY <1>1, <1>2, <1>5 DEF Shape
  <2>2. UNCHANGED due
    BY <1>1, <1>4, <1>5 DEF Shape
  <2>3. \A d \in Conns : Untouched(d)
    BY <1>1, <2>1 DEF Shape, Untouched
  <2> QED
    BY <1>1, <1>3, <2>1, <2>2, <2>3, SourceStep
<1>6. CASE v \in Conns
  <2>1. /\ conn[v].send \in Seq(Messages) /\ event \in Messages
        /\ wire \in [Conns -> Seq(Messages)] /\ due[v] \in Seq(Messages)
        /\ wire[v] \in Seq(Messages) /\ Prefix(wire[v], due[v])
    BY <1>1, <1>6 DEF Shape, Source, Flow
  <2>2. Append(conn[v].send, event) \in Seq(Messages)
    BY <2>1
  <2>3. /\ DOMAIN rec = Fields /\ rec.send = Append(conn[v].send, event)
        /\ rec.writer = conn[v].writer /\ (IsNew(rec) => IsNew(conn[v]))
    BY <1>1, <1>6 DEF Shape, Fields, IsNew
  <2> HIDE DEF rec
  <2>4. IsNew(rec) => rec.writer = "none"
    BY <1>1, <1>6, <2>3 DEF Shape
  <2>5. (v \in closed) = FALSE /\ (v \in closed') = FALSE
    BY <1>1
  <2>6. Prefix(wire[v], due'[v])
    BY <1>4, <1>6, <2>1, PrefixOfMore
  <2>7. ASSUME rec.writer # "done"
        PROVE  Carries(rec.send, wire[v], due'[v], FALSE)
    <3>1. Carries(conn[v].send, wire[v], due[v], FALSE)
      BY <1>1, <1>6, <2>3, <2>5, <2>7 DEF Flow
    <3>2. CASE Critical(event)
      <4>1. Carries(Append(conn[v].send, event), wire[v], Append(due[v], event), FALSE)
        BY <2>1, <3>1, <3>2, PutCritical
      <4> QED
        BY <1>4, <1>6, <2>3, <3>2, <4>1
    <3>3. CASE ~Critical(event)
      <4>1. Carries(Append(conn[v].send, event), wire[v], due[v], FALSE)
        BY <2>1, <3>1, <3>3, PutOther
      <4> QED
        BY <1>4, <1>6, <2>3, <3>3, <4>1
    <3> QED
      BY <3>2, <3>3
  <2>8. wire' \in [Conns -> Seq(Messages)] /\ wire'[v] = wire[v]
    BY <1>1, <2>1
  <2>9. \A d \in Conns \ {v} : wire'[d] = wire[d] /\ due'[d] = due[d] /\ (d \in closed' <=> d \in closed)
    BY <1>1, <1>4
  <2> QED
    BY <1>2, <1>3, <1>4, <1>6, <2>2, <2>3, <2>4, <2>5, <2>6, <2>7, <2>8, <2>9, OneFlow
<1> QED
  BY <1>5, <1>6

\* A step that closes channels, and owes no more than an event to each
\* connection it closes: what is queued stays the beginning of what is owed.
LEMMA CloseFlow ==
  ASSUME FlowInv, Source', DOMAIN conn' = Conns, \A c \in Conns : Untouched(c), UNCHANGED wire,
         NEW msg \in Messages, due' \in [Conns -> Seq(Messages)], closed \subseteq closed',
         \A c \in Conns : \/ due'[c] = due[c]
                          \/ due'[c] = Append(due[c], msg) /\ c \in closed'
  PROVE  FlowInv'
<1>1. Shape /\ Flow
  BY DEF FlowInv
<1>2. Shape'
  BY <1>1 DEF Shape, Untouched
<1>3. ASSUME NEW c \in Conns
      PROVE  /\ Prefix(wire[c], due'[c])
             /\ conn'[c].writer # "done" => Carries(conn'[c].send, wire[c], due'[c], c \in closed')
  <2> DEFINE send == conn[c].send
             cut == c \in closed
             more == c \in closed'
  <2>1. /\ send \in Seq(Messages) /\ wire[c] \in Seq(Messages) /\ due[c] \in Seq(Messages)
        /\ Prefix(wire[c], due[c]) /\ conn'[c].send = send
        /\ cut \in BOOLEAN /\ more \in BOOLEAN /\ (cut => more)
        /\ (due'[c] = due[c] \/ (due'[c] = Append(due[c], msg) /\ more))
    BY <1>1 DEF Shape, Flow, Untouched
  <2>2. conn'[c].writer # "done" => Carries(send, wire[c], due[c], cut)
    BY <1>1 DEF Flow, Untouched
  <2> HIDE DEF send, cut
  <2>3. conn'[c].writer # "done" => Carries(send, wire[c], due'[c], more)
    <3> HIDE DEF more
    <3>1. CASE more
      <4>1. more = TRUE
        BY <2>1, <3>1
      <4> QED
        BY <2>1, <2>2, <4>1, CutOff
    <3>2. CASE ~more
      <4>1. cut = more /\ due'[c] = due[c]
        BY <2>1, <3>2
      <4> QED
        BY <2>2, <4>1
    <3> QED
      BY <3>1, <3>2
  <2>4. Prefix(wire[c], due'[c])
    BY <2>1, PrefixOfMore
  <2> QED
    BY <2>1, <2>3, <2>4
<1>4. Flow'
  BY <1>3 DEF Flow
<1> QED
  BY <1>2, <1>4 DEF FlowInv

\* The queue of the connection is full, or its channel is closed already.
LEMMA HubCloseFlow ==
  ASSUME FlowInv, HubDrop \/ HubPanic
  PROVE  FlowInv'
<1>1. Shape /\ Source
  BY DEF FlowInv
<1>2. UNCHANGED conn
  BY DEF HubDrop, HubPanic
<1>3. /\ UNCHANGED <<published, broadcastQ, wire>>
      /\ event' = event \/ event' = NoEvent
  BY DEF HubDrop, HubPanic, Panic, channels, outside, bounds
<1>4. Source' /\ event \in Messages
  BY <1>1, <1>3, MessageTypes DEF Source
<1>5. /\ due' \in [Conns -> Seq(Messages)] /\ closed \subseteq closed'
      /\ \A c \in Conns : \/ due'[c] = due[c]
                          \/ due'[c] = Append(due[c], event) /\ c \in closed'
  <2>1. CASE HubDrop
    <3>1. EventDue /\ closed' = closed \cup {Visited}
      BY <2>1 DEF HubDrop, Index!Drop, Visited
    <3> QED
      BY <3>1, OwedMore
  <2>2. CASE HubPanic
    BY <1>1, <2>2 DEF HubPanic, Panic, Shape
  <2> QED
    BY <2>1, <2>2
<1>6. DOMAIN conn' = Conns /\ \A d \in Conns : Untouched(d)
  BY <1>1, <1>2, SameConn
<1>7. UNCHANGED wire
  BY <1>3
<1> QED
  BY <1>4, <1>5, <1>6, <1>7, CloseFlow

----------------------------------------------------------------------------
(* The theorems.                                                           *)

LEMMA HubFlow ==
  ASSUME FlowInv, HubStep
  PROVE  FlowInv'
<1>1. CASE HubRegister \/ HubStop \/ HubCheck \/ HubGet \/ HubPumpFinished \/ HubStopped
  BY <1>1, HubQuietFlow
<1>2. CASE \/ HubUnregister \/ HubBroadcast \/ HubLoopEnd \/ HubNilSession \/ HubOmit
           \/ \E u \in Users : HubOffline(u)
  BY <1>2, HubEventFlow
<1>3. CASE \E u \in Users : HubInvalidateUser(u)
  BY <1>3, InvalidateFlow
<1>4. CASE HubSetSession \/ HubSkip \/ HubMember \/ HubClose
  BY <1>4, HubVisitFlow
<1>5. CASE HubSend
  BY <1>5, HubSendFlow
<1>6. CASE HubDrop \/ HubPanic
  BY <1>6, HubCloseFlow
<1> QED
  BY <1>1, <1>2, <1>3, <1>4, <1>5, <1>6 DEF HubStep

LEMMA NextFlow ==
  ASSUME FlowInv, [Next]_vars
  PROVE  FlowInv'
<1>1. CASE HubStep
  BY <1>1, HubFlow
<1>2. CASE \E c \in Conns : HandlerStep(c)
  BY <1>2, HandlerFlow, CheckFlow, SendMessageFlow, PublishFlow DEF HandlerStep
<1>3. CASE \E c \in Conns : WriterStep(c)
  BY <1>3, WriterReceiveFlow, WriterFlow DEF WriterStep
<1>4. CASE \E u \in Users : InvalidateStopped(u)
  BY <1>4, OutsideFlow
<1>5. CASE Environment
  BY <1>5, OutsideFlow, ConnectFlow, ReadRequestFlow, PublishFlow DEF Environment
<1>6. CASE UNCHANGED vars
  <2>1. Quiet /\ UNCHANGED conn
    BY <1>6 DEF vars, channels, hubIndex, loop, outside, history, bounds, Quiet
  <2> QED
    BY <2>1, SameFlow
<1> QED
  BY <1>1, <1>2, <1>3, <1>4, <1>5, <1>6 DEF Next

\* In every state, what a connection's writer has written, followed by what its
\* queue holds, is the beginning of what the hub had for it, and all of it
\* unless the hub has closed its channel or its writer has returned.
THEOREM FlowInvariant == Spec => []FlowInv
<1>1. FlowInv /\ [Next]_vars => FlowInv'
  BY NextFlow
<1> QED
  BY InitFlow, <1>1, PTL DEF Spec

\* For any number of connections and events and queues of any length, the
\* critical events a client receives are the first of those the hub had for its
\* connection, in order, none missing and none twice.
THEOREM NoSilentGap == Spec => []NoGap
<1>1. FlowInv => NoGap
  <2> SUFFICES ASSUME FlowInv, NEW c \in Conns
               PROVE  IsPrefix(wire[c], due[c])
    BY DEF NoGap
  <2>1. wire[c] \in Seq(Messages) /\ due[c] \in Seq(Messages) /\ Prefix(wire[c], due[c])
    BY DEF FlowInv, Shape, Flow
  <2> QED
    BY <2>1, PrefixIsPrefix
<1> QED
  BY <1>1, FlowInvariant, PTL

(***************************************************************************)
(* Sessions: the hub queues no event for a connection whose session is gone.*)
(***************************************************************************)
\* The hub will queue nothing any more.
Halted == hub \in {"invalidating", "stopped"}

\* Why a connection may count as authenticated although its session is gone.
Pending(c) ==
  \/ UserOf[c] \in invalidating
  \/ \E d \in Conns : UserOf[d] = UserOf[c] /\ At(d, "revoke")
  \/ c \in missed

\* The hub visits the connection and has found its session, or trusts it.
HubTrusts(c) ==
  /\ hub \in {"set", "expire", "decide", "member"}
  /\ next <= Len(candidates) /\ candidates[next] = c

\* The connection counts as authenticated, or is about to.
Trusted(c) == conn[c].fresh \/ Storing(c) \/ HubTrusts(c)

SessionInv ==
  /\ DOMAIN session = Conns
  /\ \A c \in Conns : session[c] = "gone" /\ Trusted(c) => Pending(c) \/ Halted

\* What the theorem says of a step.
QueuedWell ==
  \A c \in Conns : Queued(c) /\ session[c] = "gone" => Pending(c)

----------------------------------------------------------------------------
(* The argument for a step.                                                *)

\* Nothing that excuses a connection is taken away, except by its own reader.
Lasting == /\ Halted => hub' = hub
           /\ invalidating \subseteq invalidating' /\ missed \subseteq missed'

\* A session is removed by a goroutine that then waits in InvalidateUser.
Removed(c) ==
  session'[c] = "gone" =>
    session[c] = "gone" \/ UserOf[c] \in invalidating' \/ At(c, "revoke")' \/ Halted'

\* A connection is trusted with a session that was found, in the store or, as
\* is recorded, in the cache.
TrustedWell(c) ==
  Trusted(c)' => Trusted(c) \/ session[c] # "gone" \/ c \in missed'

\* An event is queued by the hub for a connection that it trusts.
QueuedByHub(c) == Queued(c) => Trusted(c) /\ ~Halted

LEMMA SessionStep ==
  ASSUME SessionInv, Lasting, DOMAIN session' = Conns,
         \A c \in Conns : At(c, "revoke") => At(c, "revoke")' \/ Stopped,
         \A c \in Conns : Removed(c) /\ TrustedWell(c) /\ QueuedByHub(c)
  PROVE  SessionInv' /\ QueuedWell
<1>1. ASSUME NEW c \in Conns, Pending(c) \/ Halted
      PROVE  Pending(c)' \/ Halted'
  <2>1. Stopped => Halted'
    BY DEF Lasting, Halted, Stopped
  <2> QED
    BY <1>1, <2>1 DEF Lasting, Halted, Pending
<1>2. ASSUME NEW c \in Conns, session'[c] = "gone", Trusted(c)'
      PROVE  Pending(c)' \/ Halted'
  <2>1. CASE session[c] # "gone"
    BY <1>2, <2>1 DEF Removed, Pending
  <2>2. CASE session[c] = "gone" /\ Trusted(c)
    BY <1>1, <2>2 DEF SessionInv
  <2>3. CASE c \in missed'
    BY <2>3 DEF Pending
  <2> QED
    BY <1>2, <2>1, <2>2, <2>3 DEF TrustedWell
<1>3. QueuedWell
  BY DEF QueuedWell, QueuedByHub, SessionInv
<1> QED
  BY <1>2, <1>3 DEF SessionInv

\* What a goroutine may make of the record of its connection.
Modest(c, rec) ==
  /\ rec.fresh => conn[c].fresh \/ Storing(c) \/ session[c] # "gone" \/ c \in missed'
  /\ rec.handler[1] \in {"set", "expire"} => Storing(c) \/ session[c] # "gone" \/ c \in missed'
  /\ At(c, "revoke") => rec.handler[1] = "revoke" \/ Stopped
  /\ Len(rec.send) <= Len(conn[c].send) \/ LastOf(rec.send) = Message

\* A step of the reader or the writer of a connection, or of its client.
LEMMA RecordStep ==
  ASSUME Shape, SessionInv, Lasting, UNCHANGED <<hub, candidates, next>>,
         NEW c \in Conns, NEW rec, Modest(c, rec),
         conn' = [conn EXCEPT ![c] = rec],
         \/ UNCHANGED session
         \/ rec.handler[1] = "revoke" /\ session' = [session EXCEPT ![c] = "gone"]
  PROVE  SessionInv' /\ QueuedWell
<1>1. /\ \A d \in Conns \ {c} : conn'[d] = conn[d] /\ session'[d] = session[d]
      /\ conn'[c] = rec /\ (session'[c] = session[c] \/ rec.handler[1] = "revoke")
      /\ DOMAIN session' = Conns
  BY DEF Shape, SessionInv
<1>2. \A d \in Conns : At(d, "revoke") => At(d, "revoke")' \/ Stopped
  BY <1>1 DEF Modest, At, Handler
<1>3. \A d \in Conns : HubTrusts(d)' <=> HubTrusts(d)
  BY DEF HubTrusts
<1>4. ASSUME NEW d \in Conns  PROVE Removed(d) /\ TrustedWell(d) /\ QueuedByHub(d)
  <2>1. CASE d # c
    BY <1>1, <1>3, <2>1 DEF Removed, TrustedWell, QueuedByHub, Queued, Shape, Trusted, Storing, At,
       Handler
  <2>2. CASE d = c
    <3>1. Removed(c)
      BY <1>1 DEF Removed, At, Handler
    <3>2. TrustedWell(c)
      BY <1>1, <1>3 DEF TrustedWell, Trusted, Modest, Storing, At, Handler
    <3>3. QueuedByHub(c)
      BY <1>1 DEF QueuedByHub, Queued, Modest, Shape
    <3> QED
      BY <2>2, <3>1, <3>2, <3>3
  <2> QED
    BY <2>1, <2>2
<1> QED
  BY <1>1, <1>2, <1>4, SessionStep

\* A step that changes no record.
LEMMA SameRecords ==
  ASSUME Shape, SessionInv, Lasting, \A c \in Conns : conn'[c] = conn[c], UNCHANGED session,
         \A c \in Conns : HubTrusts(c)' => Trusted(c) \/ session[c] # "gone" \/ c \in missed'
  PROVE  SessionInv' /\ QueuedWell
<1>1. \A c \in Conns : At(c, "revoke") => At(c, "revoke")' \/ Stopped
  BY DEF At, Handler
<1>2. \A c \in Conns : Removed(c) /\ TrustedWell(c) /\ QueuedByHub(c)
  BY DEF Removed, TrustedWell, QueuedByHub, Queued, Shape, Trusted, Storing, At, Handler
<1> QED
  BY <1>1, <1>2, SessionStep DEF SessionInv

\* A step of a goroutine that changes only where it is.
LEMMA GotoStep ==
  ASSUME Shape, SessionInv, Lasting, UNCHANGED <<hub, candidates, next>>,
         NEW c \in Conns, NEW step, Goto(c, step),
         step[1] \in {"set", "expire"} => session[c] # "gone" \/ c \in missed',
         ~At(c, "revoke"),
         \/ UNCHANGED session
         \/ step[1] = "revoke" /\ session' = [session EXCEPT ![c] = "gone"]
  PROVE  SessionInv' /\ QueuedWell
<1> DEFINE rec == [conn[c] EXCEPT !.handler = step]
<1>1. conn' = [conn EXCEPT ![c] = rec]
  BY DEF Goto, Shape
<1>2. rec.handler = step /\ rec.fresh = conn[c].fresh /\ rec.send = conn[c].send
  BY DEF Shape, Fields
<1>3. Len(rec.send) <= Len(conn[c].send)
  BY <1>2 DEF Shape
<1> HIDE DEF rec
<1>4. Modest(c, rec)
  BY <1>2, <1>3 DEF Modest
<1> QED
  BY <1>1, <1>2, <1>4, RecordStep

\* A record that keeps the queue and is not more authenticated.
LEMMA ModestRecord ==
  ASSUME Shape, NEW c \in Conns, NEW rec, rec.send = conn[c].send,
         rec.fresh => conn[c].fresh \/ Storing(c) \/ session[c] # "gone" \/ c \in missed',
         rec.handler[1] \in {"set", "expire"} => Storing(c),
         ~At(c, "revoke") \/ rec.handler[1] = "revoke" \/ Stopped
  PROVE  Modest(c, rec)
<1>1. Len(rec.send) <= Len(conn[c].send)
  BY DEF Shape
<1> QED
  BY <1>1 DEF Modest

----------------------------------------------------------------------------
(* The handler and the writer of a connection.                             *)

LEMMA LastAppended ==
  ASSUME NEW S, NEW s \in Seq(S), NEW e
  PROVE  LastOf(Append(s, e)) = e
BY DEF LastOf

\* GetSession finds a session in the store, or in the cache; it revokes an
\* idle one.
LEMMA GetSessionFacts ==
  ASSUME NEW c, GetSession(c)
  PROVE  /\ Found(c) = "idle" => /\ session' = [session EXCEPT ![c] = "gone"]
                                /\ session[c] = "idle"
         /\ Found(c) # "idle" => UNCHANGED session
         /\ Found(c) = "valid" => session[c] = "valid" \/ c \in lingering
BY DEF GetSession, Found, sessions

LEMMA HandlerSession ==
  ASSUME Shape, SessionInv, NEW c \in Conns, HandlerStep(c)
  PROVE  SessionInv' /\ QueuedWell
<1> USE DEF channels, closing, hubIndex, outside, history, bounds, sessions, loop
<1>1. Lasting /\ UNCHANGED <<hub, candidates, next>>
  BY DEF HandlerStep, RegisterSend, Check, Get, FoundInCache, SetSession, RevokeStopped,
         SendMessage, Serve, PublishTyping, ReadError, Join, UnregisterSend, Lasting
<1>2. CASE RegisterSend(c) \/ Join(c) \/ UnregisterSend(c) \/ PublishTyping(c)
  <2>1. /\ \E to \in {<<"check", "hello">>, <<"unregister">>, <<"finished">>, <<"send", "reply">>} :
               Goto(c, to)
        /\ ~At(c, "revoke") /\ UNCHANGED session
    BY <1>2 DEF RegisterSend, Join, UnregisterSend, PublishTyping, At
  <2> QED
    BY <1>1, <2>1, GotoStep
<1>3. CASE Serve(c)
  <2>1. /\ \/ \E to \in {<<"publish">>, <<"send", "reply">>} : Goto(c, to) /\ UNCHANGED session
           \/ Goto(c, <<"revoke", "reply">>) /\ (UNCHANGED session \/ session' = [session EXCEPT ![c] = "gone"])
        /\ ~At(c, "revoke")
    BY <1>3 DEF Serve, At, GetSession
  <2> QED
    BY <1>1, <2>1, GotoStep
<1>4. CASE Check(c)
  <2> DEFINE what == Handler(c)[2]
             r == Rejected(conn[c], what)
  <2>1. /\ \/ Goto(c, Authenticated(what))
           \/ Goto(c, <<"get", what>>)
           \/ conn' = [conn EXCEPT ![c] = r]
        /\ UNCHANGED session /\ ~At(c, "revoke")
    BY <1>4 DEF Check, At
  <2>2. Authenticated(what)[1] \notin {"set", "expire"}
    BY DEF Authenticated
  <2>3. Modest(c, r)
    <3>1. r.send = conn[c].send /\ r.fresh = conn[c].fresh /\ r.handler[1] \in {"read", "send"}
      BY RejectedRecord DEF Shape
    <3> HIDE DEF r
    <3> QED
      BY <2>1, <3>1, ModestRecord
  <2> HIDE DEF r
  <2> QED
    BY <1>1, <2>1, <2>2, <2>3, GotoStep, RecordStep
<1>9. CASE Get(c)
  <2> DEFINE to == <<AfterGet(Found(c)), Handler(c)[2]>>
  <2>1. /\ GetSession(c) /\ FoundInCache(c) /\ Goto(c, to) /\ ~At(c, "revoke")
    BY <1>9 DEF Get, At
  <2>2. to[1] \in {"set", "expire"} => session[c] # "gone" \/ c \in missed'
    BY <2>1, GetSessionFacts DEF AfterGet, FoundInCache
  <2>3. \/ UNCHANGED session
        \/ to[1] = "revoke" /\ session' = [session EXCEPT ![c] = "gone"]
    BY <2>1, GetSessionFacts DEF AfterGet
  <2> HIDE DEF to
  <2> QED
    BY <1>1, <2>1, <2>2, <2>3, GotoStep
<1>5. CASE SetSession(c)
  <2>1. PICK rec : /\ conn' = [conn EXCEPT ![c] = rec]
                   /\ DOMAIN rec = Fields /\ rec.send = conn[c].send
                   /\ rec.fresh => conn[c].fresh \/ At(c, "expire")
                   /\ rec.handler[1] \notin {"set", "revoke"}
                   /\ rec.handler[1] = "expire" => At(c, "set")
    BY <1>5, SetSessionRecord
  <2>2. ~At(c, "revoke") /\ UNCHANGED session
    BY <1>5 DEF SetSession, At, SessionSteps
  <2>3. Modest(c, rec)
    BY <2>1, <2>2, ModestRecord DEF Storing
  <2> QED
    BY <1>1, <2>1, <2>2, <2>3, RecordStep
<1>6. CASE RevokeStopped(c)
  <2>1. Modest(c, AfterRevoke(c))
    BY <1>6, AfterRevokeRecord, ModestRecord DEF RevokeStopped
  <2> QED
    BY <1>1, <1>6, <2>1, RecordStep DEF RevokeStopped
<1>7. CASE ReadError(c)
  <2> DEFINE rec == [conn[c] EXCEPT !.handler = <<"join">>, !.endWritePump = TRUE]
  <2>1. conn' = [conn EXCEPT ![c] = rec] /\ ~At(c, "revoke") /\ UNCHANGED session
    BY <1>7 DEF ReadError, Shape, At
  <2>2. rec.send = conn[c].send /\ rec.fresh = conn[c].fresh /\ rec.handler[1] = "join"
    BY DEF Shape, Fields
  <2> HIDE DEF rec
  <2>3. Modest(c, rec)
    BY <2>1, <2>2, ModestRecord
  <2> QED
    BY <1>1, <2>1, <2>3, RecordStep
<1>8. CASE SendMessage(c)
  <2>1. ~At(c, "revoke") /\ UNCHANGED session
    BY <1>8 DEF SendMessage, At
  <2>2. CASE c \in closed
    <3> DEFINE rec == [conn[c] EXCEPT !.handler = <<"panicked">>,
                                      !.wsOpen = @ /\ conn[c].writer = "none"]
    <3>1. conn' = [conn EXCEPT ![c] = rec]
      BY <1>8, <2>2 DEF SendMessage, Shape
    <3>2. rec.send = conn[c].send /\ rec.fresh = conn[c].fresh /\ rec.handler[1] = "panicked"
      BY DEF Shape, Fields
    <3> HIDE DEF rec
    <3>3. Modest(c, rec)
      BY <2>1, <3>2, ModestRecord
    <3> QED
      BY <1>1, <2>1, <3>1, <3>3, RecordStep
  <2>3. CASE c \notin closed
    <3> DEFINE on == IF Handler(c)[2] = "hello" THEN Registered(conn[c])
                     ELSE [conn[c] EXCEPT !.handler = <<"read">>]
               rec == [on EXCEPT !.send = Append(@, Message)]
    <3>1. conn' = [conn EXCEPT ![c] = rec]
      BY <1>8, <2>3 DEF SendMessage
    <3>2. /\ DOMAIN on = Fields /\ on.send = conn[c].send /\ on.fresh = conn[c].fresh
          /\ on.handler[1] \in {"read", "send"}
      BY RegisteredRecord DEF Shape, Fields
    <3> HIDE DEF on
    <3>3. /\ rec.send = Append(conn[c].send, Message)
          /\ rec.fresh = conn[c].fresh /\ rec.handler[1] \in {"read", "send"}
      BY <3>2 DEF Fields
    <3>4. LastOf(rec.send) = Message
      BY <3>3, LastAppended DEF Shape
    <3> HIDE DEF rec
    <3>5. Modest(c, rec)
      BY <2>1, <3>3, <3>4 DEF Modest
    <3> QED
      BY <1>1, <2>1, <3>1, <3>5, RecordStep
  <2> QED
    BY <2>2, <2>3
<1> QED
  BY <1>2, <1>3, <1>4, <1>5, <1>6, <1>7, <1>8, <1>9 DEF HandlerStep

LEMMA WriterSession ==
  ASSUME Shape, SessionInv, NEW c \in Conns, WriterStep(c)
  PROVE  SessionInv' /\ QueuedWell
<1> USE DEF channels, closing, hubIndex, outside, history, bounds, sessions, loop
<1>1. Lasting /\ UNCHANGED <<session, hub, candidates, next>>
  BY DEF WriterStep, WriterReceive, WriterReturn, AuthTickerStop, Lasting
<1> DEFINE tail == [conn[c] EXCEPT !.send = Tail(@)]
           gone == [conn[c] EXCEPT !.send = Tail(@), !.writer = "done"]
           done == [conn[c] EXCEPT !.writer = "done", !.wsOpen = FALSE]
           run  == [conn[c] EXCEPT !.writer = "run"]
<1>2. \/ /\ conn[c].send # <<>>
         /\ conn' = [conn EXCEPT ![c] = tail] \/ conn' = [conn EXCEPT ![c] = gone]
      \/ conn' = [conn EXCEPT ![c] = done]
      \/ conn' = [conn EXCEPT ![c] = run]
  <2>1. CASE WriterReceive(c)
    <3>1. conn' = [conn EXCEPT ![c] = tail] \/ conn' = [conn EXCEPT ![c] = gone]
      BY <2>1 DEF WriterReceive, Shape
    <3> HIDE DEF tail, gone
    <3> QED
      BY <2>1, <3>1 DEF WriterReceive
  <2>2. CASE WriterReturn(c)
    BY <2>2 DEF WriterReturn, WriterEnd, Shape
  <2>3. CASE AuthTickerStop(c)
    BY <2>3 DEF AuthTickerStop, Shape
  <2> QED
    BY <2>1, <2>2, <2>3 DEF WriterStep
<1>3. /\ \A rec \in {tail, gone, done, run} :
           rec.fresh = conn[c].fresh /\ rec.handler = conn[c].handler
      /\ tail.send = Tail(conn[c].send) /\ gone.send = Tail(conn[c].send)
      /\ done.send = conn[c].send /\ run.send = conn[c].send
  BY DEF Shape, Fields
<1>4. /\ conn[c].send # <<>> => Len(Tail(conn[c].send)) <= Len(conn[c].send)
      /\ Len(conn[c].send) <= Len(conn[c].send)
  BY DEF Shape
<1> HIDE DEF tail, gone, done, run
<1>5. PICK rec \in {tail, gone, done, run} :
              conn' = [conn EXCEPT ![c] = rec] /\ Len(rec.send) <= Len(conn[c].send)
  BY <1>2, <1>3, <1>4
<1>6. Modest(c, rec)
  BY <1>3, <1>5 DEF Modest, Storing, At, Handler
<1> QED
  BY <1>1, <1>5, <1>6, RecordStep

----------------------------------------------------------------------------
(* The environment.                                                        *)

LEMMA ConnectSession ==
  ASSUME Shape, SessionInv, NEW c \in Conns,
         ConnectWithSession(c) \/ ConnectWithoutSession(c) \/ ClientClose(c)
  PROVE  SessionInv' /\ QueuedWell
<1> USE DEF channels, closing, hubIndex, outside, history, bounds, sessions, loop
<1> DEFINE with == [conn[c] EXCEPT !.handler = <<"register">>, !.token = TRUE, !.held = TRUE,
                                      !.fresh = TRUE]
           without == [conn[c] EXCEPT !.handler = <<"read">>, !.writer = "auth"]
           ended == [conn[c] EXCEPT !.wsOpen = FALSE]
<1>1. /\ \/ /\ conn' = [conn EXCEPT ![c] = with] /\ At(c, "new")
            /\ session[c] # "gone" \/ c \in missed'
         \/ conn' = [conn EXCEPT ![c] = without] /\ At(c, "new")
         \/ conn' = [conn EXCEPT ![c] = ended]
      /\ Lasting /\ UNCHANGED <<session, hub, candidates, next>>
  BY DEF ConnectWithSession, ConnectWithoutSession, ClientClose, Shape, Lasting, FoundInCache, Found
<1>2. /\ \A rec \in {with, without, ended} : rec.send = conn[c].send
      /\ with.handler = <<"register">> /\ without.handler = <<"read">>
      /\ without.fresh = conn[c].fresh /\ ended.fresh = conn[c].fresh
      /\ ended.handler = conn[c].handler
  BY DEF Shape, Fields
<1> HIDE DEF with, without, ended
<1>3. CASE conn' = [conn EXCEPT ![c] = with] /\ (session[c] # "gone" \/ c \in missed') /\ At(c, "new")
  <2>1. Modest(c, with)
    BY <1>2, <1>3, ModestRecord DEF At
  <2> QED
    BY <1>1, <1>3, <2>1, RecordStep
<1>4. CASE conn' = [conn EXCEPT ![c] = without] /\ At(c, "new")
  <2>1. Modest(c, without)
    BY <1>2, <1>4, ModestRecord DEF At
  <2> QED
    BY <1>1, <1>4, <2>1, RecordStep
<1>5. CASE conn' = [conn EXCEPT ![c] = ended]
  <2>1. Modest(c, ended)
    BY <1>2, <1>5, ModestRecord DEF At, Handler, Storing
  <2> QED
    BY <1>1, <1>5, <2>1, RecordStep
<1> QED
  BY <1>1, <1>3, <1>4, <1>5

LEMMA RequestSession ==
  ASSUME Shape, SessionInv, NEW c \in Conns, ReadRequest(c)
  PROVE  SessionInv' /\ QueuedWell
<1> USE DEF channels, closing, hubIndex, outside, history, bounds, sessions, loop
<1> DEFINE registering == [conn[c] EXCEPT !.token = TRUE, !.held = TRUE, !.handler = <<"register">>]
           ended == [conn[c] EXCEPT !.wsOpen = FALSE]
<1>1. /\ ~At(c, "revoke") /\ Lasting /\ UNCHANGED <<hub, candidates, next>>
      /\ Challenge(c) \/ (UNCHANGED session /\ \E what \in Requests : Goto(c, <<"check", what>>))
  BY DEF ReadRequest, Lasting, At
<1>2. \/ /\ UNCHANGED session
         /\ \/ UNCHANGED conn
            \/ conn' = [conn EXCEPT ![c] = registering]
            \/ conn' = [conn EXCEPT ![c] = ended]
            \/ \E what \in Requests : Goto(c, <<"check", what>>)
      \/ /\ Goto(c, <<"revoke", "close">>)
         /\ UNCHANGED session \/ session' = [session EXCEPT ![c] = "gone"]
  <2>1. CASE Challenge(c)
    BY <2>1 DEF Challenge, Shape, GetSession
  <2> QED
    BY <1>1, <2>1
<1>3. /\ \A rec \in {registering, ended} : rec.send = conn[c].send /\ rec.fresh = conn[c].fresh
      /\ registering.handler = <<"register">> /\ ended.handler = conn[c].handler
  BY DEF Shape, Fields
<1> HIDE DEF registering, ended
<1>4. ASSUME NEW rec \in {registering, ended}, conn' = [conn EXCEPT ![c] = rec], UNCHANGED session
      PROVE  SessionInv' /\ QueuedWell
  <2>1. Modest(c, rec)
    BY <1>1, <1>3, <1>4, ModestRecord DEF At, Handler, Storing
  <2> QED
    BY <1>1, <1>4, <2>1, RecordStep
<1>5. CASE UNCHANGED <<conn, session>>
  BY <1>1, <1>5, SameRecords DEF HubTrusts, Trusted
<1>6. CASE \/ UNCHANGED session /\ \E what \in Requests : Goto(c, <<"check", what>>)
           \/ /\ Goto(c, <<"revoke", "close">>)
              /\ UNCHANGED session \/ session' = [session EXCEPT ![c] = "gone"]
  <2>1. <<"revoke", "close">>[1] = "revoke" /\ \A what : <<"check", what>>[1] = "check"
    OBVIOUS
  <2> QED
    BY <1>1, <1>6, <2>1, GotoStep
<1> QED
  BY <1>2, <1>4, <1>5, <1>6

LEMMA EnvironmentSession ==
  ASSUME Shape, SessionInv, Environment
  PROVE  SessionInv' /\ QueuedWell
<1> USE DEF channels, closing, hubIndex, outside, history, bounds, sessions, loop
<1>1. CASE \/ \E audience \in Audiences : Publish(audience)
           \/ \E c \in Conns : Refill(c) \/ Evict(c)
           \/ Stop
  <2>1. Lasting /\ UNCHANGED <<conn, session, hub, candidates, next>>
    BY <1>1 DEF Publish, Refill, Evict, Stop, Lasting
  <2> QED
    BY <2>1, SameRecords DEF HubTrusts, Trusted
<1>2. CASE \/ \E c \in Conns : BecomeIdle(c) \/ Login(c)
           \/ \E u \in Users, revoked \in Revocations : ClearSessionCache(u, revoked)
  <2>1. /\ UNCHANGED <<hub, conn, missed, candidates, next>> /\ invalidating \subseteq invalidating'
        /\ DOMAIN session' = Conns
        /\ \A c \in Conns : session'[c] = "gone" => \/ session[c] = "gone"
                                                  \/ UserOf[c] \in invalidating'
    <3>1. ASSUME NEW c \in Conns, BecomeIdle(c) \/ Login(c)
          PROVE  /\ UNCHANGED <<hub, conn, missed, candidates, next, invalidating>>
                 /\ \E to \in {"idle", "valid"} : session' = [session EXCEPT ![c] = to]
      BY <3>1 DEF BecomeIdle, Login
    <3>2. ASSUME NEW u, NEW revoked, ClearSessionCache(u, revoked)
          PROVE  /\ UNCHANGED <<hub, conn, missed, candidates, next>>
                 /\ invalidating' = invalidating \cup {u}
                 /\ session' = [c \in Conns |-> IF c \in revoked THEN "gone" ELSE session[c]]
                 /\ \A c \in revoked : UserOf[c] = u
      BY <3>2 DEF ClearSessionCache
    <3> QED
      BY <1>2, <3>1, <3>2 DEF SessionInv
  <2>2. Lasting /\ \A c \in Conns : At(c, "revoke") => At(c, "revoke")' \/ Stopped
    BY <2>1 DEF Lasting, At, Handler
  <2>3. \A c \in Conns : Removed(c) /\ TrustedWell(c) /\ QueuedByHub(c)
    BY <2>1 DEF Removed, TrustedWell, Trusted, HubTrusts, Storing, At, Handler, QueuedByHub, Queued,
                Shape
  <2> QED
    BY <2>1, <2>2, <2>3, SessionStep
<1> QED
  BY <1>1, <1>2, ConnectSession, RequestSession DEF Environment

----------------------------------------------------------------------------
(* The hub.                                                                *)

\* What InvalidateCache leaves of the records.
LEMMA ForgetRecords ==
  ASSUME NEW cs, NEW u, conn' = Forget(cs, u), NEW c \in Conns, DOMAIN cs[c] = Fields
  PROVE  /\ conn'[c].send = cs[c].send /\ conn'[c].handler = cs[c].handler
         /\ conn'[c].fresh => cs[c].fresh /\ c \notin ForUser(u)
<1>1. conn'[c] = [cs[c] EXCEPT !.held = @ /\ c \notin ForUser(u), !.fresh = @ /\ c \notin ForUser(u)]
  BY DEF Forget
<1> DEFINE flag == cs[c].fresh /\ c \notin ForUser(u)
           there == cs[c].held /\ c \notin ForUser(u)
<1>2. conn'[c] = [cs[c] EXCEPT !.held = there, !.fresh = flag]
  BY <1>1
<1> HIDE DEF flag, there
<1>3. /\ conn'[c].send = cs[c].send /\ conn'[c].handler = cs[c].handler
      /\ conn'[c].fresh = flag
  BY <1>2 DEF Fields
<1> QED
  BY <1>3 DEF flag

\* InvalidateCache of a connection that the hub holds takes its session away;
\* one that it does not hold, or whose reader is about to store what it has
\* found, is passed by.
LEMMA InvalidateSession ==
  ASSUME Shape, SessionInv, NEW u \in Users, HubInvalidateUser(u)
  PROVE  SessionInv' /\ QueuedWell
<1> USE DEF channels, closing, hubIndex, outside, history, bounds, sessions, loop
<1> DEFINE Before(cs) ==
             /\ conn' = Forget(cs, u)
             /\ \A c \in Conns : /\ DOMAIN cs[c] = Fields /\ cs[c].send = conn[c].send
                                 /\ cs[c].fresh => conn[c].fresh
                                 /\ cs[c].handler[1] \in {"set", "expire"} => cs[c] = conn[c]
                                 /\ UserOf[c] # u => cs[c] = conn[c]
<1>1. \E cs : Before(cs)
  <2>1. CASE conn' = Forget(conn, u)
    BY <2>1 DEF Shape
  <2>2. ASSUME NEW c \in Conns, UserOf[c] = u, conn' = Forget([conn EXCEPT ![c] = AfterRevoke(c)], u)
        PROVE  \E cs : Before(cs)
    <3> DEFINE cs == [conn EXCEPT ![c] = AfterRevoke(c)]
    <3>1. \A d \in Conns : /\ DOMAIN cs[d] = Fields /\ cs[d].send = conn[d].send
                           /\ cs[d].fresh => conn[d].fresh
                           /\ cs[d].handler[1] \in {"set", "expire"} => cs[d] = conn[d]
                           /\ UserOf[d] # u => cs[d] = conn[d]
      BY <2>2, AfterRevokeRecord DEF Shape
    <3> HIDE DEF cs
    <3>2. conn' = Forget(cs, u)
      BY <2>2 DEF cs
    <3> QED
      BY <3>1, <3>2
  <2> QED
    BY <2>1, <2>2 DEF HubInvalidateUser
<1>2. PICK cs : Before(cs)
  BY <1>1
<1>3. ASSUME NEW c \in Conns
      PROVE  /\ conn'[c].send = conn[c].send
             /\ conn'[c].fresh => conn[c].fresh /\ c \notin ForUser(u)
             /\ Storing(c)' => Storing(c)
             /\ UserOf[c] # u => conn'[c].handler = conn[c].handler
  BY <1>2, ForgetRecords DEF At, Handler, Storing
<1>4. /\ invalidating \ {u} \subseteq invalidating' /\ UNCHANGED <<hub, session, candidates, next>>
      /\ hub = "select"
      /\ missed' = (missed \ ConnsOf(u)) \cup PassedBy(u)
  BY DEF HubInvalidateUser
<1>5. ASSUME NEW c \in Conns, session'[c] = "gone", Trusted(c)'
      PROVE  Pending(c)'
  <2>1. /\ session[c] = "gone" /\ ~HubTrusts(c)'
        /\ Storing(c) \/ (conn[c].fresh /\ c \notin ForUser(u))
    BY <1>3, <1>4, <1>5 DEF Trusted, HubTrusts
  <2>2. CASE UserOf[c] = u
    BY <1>4, <2>1, <2>2 DEF Pending, PassedBy, ConnsOf
  <2>3. CASE UserOf[c] # u
    <3>1. Pending(c)
      BY <1>4, <2>1 DEF SessionInv, Halted, Trusted
    <3>2. \A d \in Conns : UserOf[d] = UserOf[c] /\ At(d, "revoke") => At(d, "revoke")'
      BY <1>3, <2>3 DEF At, Handler
    <3> QED
      BY <1>4, <2>3, <3>1, <3>2 DEF Pending, ConnsOf
  <2> QED
    BY <2>2, <2>3
<1>6. QueuedWell
  BY <1>3 DEF QueuedWell, Queued, Shape
<1> QED
  BY <1>4, <1>5, <1>6 DEF SessionInv

\* A step of the hub in its loop, or at the connections it closes.
LEMMA VisitStep ==
  ASSUME Shape, SessionInv, Lasting, UNCHANGED session, NEW v, NEW rec,
         conn' = [conn EXCEPT ![v] = rec] \/ UNCHANGED conn,
         v \in Conns =>
           /\ rec.handler = conn[v].handler
           /\ rec.fresh => Trusted(v) \/ session[v] # "gone" \/ v \in missed'
           /\ Len(rec.send) <= Len(conn[v].send) \/ (Trusted(v) /\ ~Halted),
         \A c \in Conns : HubTrusts(c)' => Trusted(c) \/ session[c] # "gone" \/ c \in missed'
  PROVE  SessionInv' /\ QueuedWell
<1>1. CASE UNCHANGED conn \/ v \notin Conns
  <2>1. \A c \in Conns : conn'[c] = conn[c]
    BY <1>1 DEF Shape
  <2> QED
    BY <2>1, SameRecords
<1>2. CASE v \in Conns /\ conn' = [conn EXCEPT ![v] = rec]
  <2>1. conn'[v] = rec /\ \A c \in Conns \ {v} : conn'[c] = conn[c]
    BY <1>2 DEF Shape
  <2>2. \A c \in Conns : conn'[c].handler = conn[c].handler
    BY <1>2, <2>1
  <2>3. \A c \in Conns : At(c, "revoke") => At(c, "revoke")' \/ Stopped
    BY <2>2 DEF At, Handler
  <2>4. ASSUME NEW c \in Conns  PROVE Removed(c) /\ TrustedWell(c) /\ QueuedByHub(c)
    <3>1. Removed(c)
      BY DEF Removed
    <3>2. TrustedWell(c)
      <4>1. Storing(c)' <=> Storing(c)
        BY <2>2 DEF Storing, At, Handler
      <4>2. conn'[c].fresh => Trusted(c) \/ session[c] # "gone" \/ c \in missed'
        BY <1>2, <2>1 DEF Trusted
      <4> QED
        BY <4>1, <4>2 DEF TrustedWell, Trusted
    <3>3. QueuedByHub(c)
      BY <1>2, <2>1 DEF QueuedByHub, Queued, Shape
    <3> QED
      BY <3>1, <3>2, <3>3
  <2> QED
    BY <2>3, <2>4, SessionStep DEF SessionInv
<1> QED
  BY <1>1, <1>2

\* A connection that the hub decides for is trusted.
LEMMA DecidedTrusted ==
  ASSUME ShouldSend, Visited \in Conns
  PROVE  Trusted(Visited) /\ ~Halted
BY DEF ShouldSend, IsAuthenticated, HubAt, Visited, Trusted, HubTrusts, Halted

LEMMA VisitSession ==
  ASSUME Shape, SessionInv,
         HubSetSession \/ HubSkip \/ HubOmit \/ HubSend \/ HubDrop \/ HubPanic \/ HubNilSession \/ HubClose
  PROVE  SessionInv' /\ QueuedWell
<1> USE DEF channels, closing, hubIndex, outside, history, bounds, sessions, loop
<1>1. Lasting /\ UNCHANGED session
  BY DEF HubSetSession, HubSkip, HubOmit, HubSend, HubDrop, HubPanic, HubNilSession, HubClose, Panic,
         Lasting, Halted, HubAt, ShouldSend, IsAuthenticated, SessionSteps
<1>2. CASE HubSetSession
  <2> DEFINE v == Visited
             rec == Written(conn[v], hub)
  <2>1. /\ conn' = [conn EXCEPT ![v] = rec] /\ hub \in SessionSteps /\ HubAt(hub)
        /\ hub' = (IF hub = "expire" THEN "decide" ELSE FollowedBy[hub])
        /\ UNCHANGED <<candidates, next>>
        /\ hub # "unexpire"
    BY <1>2 DEF HubSetSession, HubAt
  <2>2. v \in Conns => /\ rec.handler = conn[v].handler /\ rec.send = conn[v].send
                       /\ rec.fresh => conn[v].fresh \/ hub = "expire"
    BY <2>1, WrittenRecord DEF Shape
  <2>3. v \in Conns => Len(rec.send) <= Len(conn[v].send)
    BY <2>2 DEF Shape
  <2> HIDE DEF rec
  <2>4. v \in Conns /\ hub \in {"set", "expire"} => Trusted(v)
    BY <2>1 DEF HubAt, Visited, Trusted, HubTrusts
  <2>5. hub' \in {"set", "expire", "decide", "member"} => hub \in {"set", "expire"}
    BY <2>1 DEF FollowedBy, SessionSteps
  <2>6. \A c \in Conns : HubTrusts(c)' => c = v
    BY <2>1 DEF HubTrusts, Visited
  <2>7. \A c \in Conns : HubTrusts(c)' => Trusted(c)
    BY <2>4, <2>5, <2>6 DEF HubTrusts
  <2>8. v \in Conns => /\ rec.handler = conn[v].handler
                       /\ rec.fresh => Trusted(v)
                       /\ Len(rec.send) <= Len(conn[v].send)
    BY <2>2, <2>3, <2>4 DEF Trusted
  <2> HIDE DEF v
  <2> QED
    BY <1>1, <2>1, <2>7, <2>8, VisitStep
<1>3. CASE HubSkip
  <2> DEFINE v == Visited
             rec == Written(conn[v], "unexpire")
  <2>1. /\ conn' = [conn EXCEPT ![v] = rec] \/ UNCHANGED conn
        /\ hub' = "loop"
    BY <1>3 DEF HubSkip
  <2>2. v \in Conns => /\ rec.handler = conn[v].handler /\ rec.send = conn[v].send
                       /\ rec.fresh => conn[v].fresh
    BY WrittenRecord DEF Shape, SessionSteps
  <2>3. v \in Conns => /\ rec.handler = conn[v].handler
                       /\ rec.fresh => Trusted(v)
                       /\ Len(rec.send) <= Len(conn[v].send)
    BY <2>2 DEF Shape, Trusted
  <2> HIDE DEF v, rec
  <2>4. \A c \in Conns : ~HubTrusts(c)'
    BY <2>1 DEF HubTrusts
  <2> QED
    BY <1>1, <2>1, <2>3, <2>4, VisitStep
<1>4. CASE HubOmit \/ HubDrop \/ HubPanic \/ HubNilSession
  <2>1. UNCHANGED conn /\ hub' \in {"loop", "select"}
    BY <1>4 DEF HubOmit, HubDrop, HubPanic, HubNilSession, Panic
  <2>2. \A c \in Conns : ~HubTrusts(c)'
    BY <2>1 DEF HubTrusts
  <2> QED
    BY <1>1, <2>1, <2>2, SameRecords
<1>5. CASE HubSend
  <2> DEFINE v == Visited
             rec == [conn[v] EXCEPT !.send = Append(@, event)]
  <2>1. conn' = [conn EXCEPT ![v] = rec] /\ hub' = "loop" /\ ShouldSend
    BY <1>5 DEF HubSend
  <2>2. v \in Conns => rec.handler = conn[v].handler /\ rec.fresh = conn[v].fresh
    BY DEF Shape, Fields
  <2>3. v \in Conns => Trusted(v) /\ ~Halted
    BY <2>1, DecidedTrusted
  <2> HIDE DEF v, rec
  <2>4. \A c \in Conns : ~HubTrusts(c)'
    BY <2>1 DEF HubTrusts
  <2> QED
    BY <1>1, <2>1, <2>2, <2>3, <2>4, VisitStep
<1>6. CASE HubClose
  <2> DEFINE v == Head(toClose)
             rec == [conn[v] EXCEPT !.wsOpen = FALSE, !.endWritePump = TRUE]
  <2>1. conn' = [conn EXCEPT ![v] = rec] /\ hub' = "waiting"
    BY <1>6 DEF HubClose, Shape
  <2>2. v \in Conns => rec.handler = conn[v].handler /\ rec.fresh = conn[v].fresh /\ rec.send = conn[v].send
    BY DEF Shape, Fields
  <2>3. v \in Conns => /\ rec.handler = conn[v].handler
                       /\ rec.fresh => Trusted(v)
                       /\ Len(rec.send) <= Len(conn[v].send)
    BY <2>2 DEF Shape, Trusted
  <2> HIDE DEF v, rec
  <2>4. \A c \in Conns : ~HubTrusts(c)'
    BY <2>1 DEF HubTrusts
  <2> QED
    BY <1>1, <2>1, <2>3, <2>4, VisitStep
<1> QED
  BY <1>2, <1>3, <1>4, <1>5, <1>6

\* The hub looks a session up, in IsAuthenticated or in IsMemberOfTeam.
LEMMA LookupSession ==
  ASSUME Shape, SessionInv, HubGet \/ HubMember
  PROVE  SessionInv' /\ QueuedWell
<1> USE DEF channels, closing, hubIndex, outside, history, bounds, sessions, loop
<1> DEFINE v == Visited
           rec == [conn[v] EXCEPT !.held = TRUE]
<1>1. /\ GetSession(v) /\ FoundInCache(v) /\ ~Halted
      /\ UNCHANGED <<candidates, next, invalidating>>
      /\ conn' = [conn EXCEPT ![v] = rec] \/ UNCHANGED conn
      /\ Found(v) = "idle" => hub' = "invalidating"
      /\ hub' \in {"set", "expire", "decide", "member"} => Found(v) = "valid"
  BY DEF HubGet, HubMember, HubAt, IsAuthenticated, Halted, AfterGet
<1>2. v \in Conns => rec.handler = conn[v].handler /\ rec.fresh = conn[v].fresh /\ rec.send = conn[v].send
  BY DEF Shape, Fields
<1>3. v \in Conns => Len(rec.send) <= Len(conn[v].send)
  BY <1>2 DEF Shape
<1>4. \A c \in Conns : HubTrusts(c)' => c = v /\ Found(v) = "valid"
  BY <1>1 DEF HubTrusts, Visited
<1> HIDE DEF v, rec
<1>5. CASE Found(v) = "idle"
  <2>1. Halted' /\ DOMAIN session' = Conns
    BY <1>1, <1>5, GetSessionFacts DEF Halted, SessionInv
  <2>2. ASSUME NEW c \in Conns PROVE Len(conn'[c].send) <= Len(conn[c].send)
    <3>1. Len(conn[c].send) <= Len(conn[c].send)
      BY DEF Shape
    <3>2. CASE UNCHANGED conn
      BY <3>1, <3>2
    <3>3. CASE conn' = [conn EXCEPT ![v] = rec] /\ c = v
      BY <3>3, <1>3 DEF Shape
    <3>4. CASE conn' = [conn EXCEPT ![v] = rec] /\ c # v
      BY <3>1, <3>4 DEF Shape
    <3> QED
      BY <1>1, <3>2, <3>3, <3>4
  <2>3. QueuedWell
    BY <2>2 DEF QueuedWell, Queued, Shape
  <2> QED
    BY <2>1, <2>3 DEF SessionInv
<1>6. CASE Found(v) # "idle"
  <2>1. UNCHANGED session /\ Lasting
    BY <1>1, <1>6, GetSessionFacts DEF Lasting, FoundInCache
  <2>2. \A c \in Conns : HubTrusts(c)' => session[c] # "gone" \/ c \in missed'
    BY <1>1, <1>4, GetSessionFacts DEF FoundInCache
  <2>3. v \in Conns => /\ rec.handler = conn[v].handler
                       /\ rec.fresh => Trusted(v)
                       /\ Len(rec.send) <= Len(conn[v].send)
    BY <1>2, <1>3 DEF Trusted
  <2> QED
    BY <1>1, <2>1, <2>2, <2>3, VisitStep
<1> QED
  BY <1>5, <1>6

LEMMA HubSession ==
  ASSUME Shape, SessionInv, HubStep
  PROVE  SessionInv' /\ QueuedWell
<1> USE DEF channels, closing, hubIndex, outside, history, bounds, sessions, loop
<1>1. CASE \/ HubRegister \/ HubUnregister \/ HubBroadcast \/ HubStop \/ HubLoopEnd \/ HubCheck
           \/ HubPumpFinished \/ HubStopped \/ \E u \in Users : HubOffline(u)
  <2>1. Lasting /\ UNCHANGED <<conn, session>>
    BY <1>1 DEF HubRegister, HubUnregister, HubBroadcast, HubStop, HubLoopEnd, HubPumpFinished,
                HubCheck, HubAt, HubStopped, HubOffline, Panic, Lasting, Halted
  <2>2. hub' \notin {"set", "expire", "decide", "member"}
    BY <1>1 DEF HubRegister, HubUnregister, HubBroadcast, HubStop, HubLoopEnd, HubPumpFinished,
                HubCheck, HubStopped, HubOffline, Panic
  <2>3. \A c \in Conns : ~HubTrusts(c)'
    BY <2>2 DEF HubTrusts
  <2> QED
    BY <2>1, <2>3, SameRecords
<1>2. CASE \E u \in Users : HubInvalidateUser(u)
  BY <1>2, InvalidateSession
<1>3. CASE \/ HubSetSession \/ HubSkip \/ HubOmit \/ HubSend \/ HubDrop \/ HubPanic \/ HubNilSession
           \/ HubClose
  BY <1>3, VisitSession
<1>4. CASE HubGet \/ HubMember
  BY <1>4, LookupSession
<1> QED
  BY <1>1, <1>2, <1>3, <1>4 DEF HubStep

----------------------------------------------------------------------------
(* The theorems.                                                           *)

LEMMA NextSession ==
  ASSUME FlowInv, SessionInv, [Next]_vars
  PROVE  SessionInv' /\ QueuedWell
<1>1. Shape
  BY DEF FlowInv
<1>2. CASE UNCHANGED vars
  BY <1>1, <1>2, SameRecords DEF vars, Lasting, outside, sessions, history, hubIndex, loop, HubTrusts,
     Trusted
<1>3. ASSUME NEW u \in Users, InvalidateStopped(u)
      PROVE  SessionInv' /\ QueuedWell
  <2>1. Halted' /\ UNCHANGED <<conn, session>>
    BY <1>3 DEF InvalidateStopped, Halted, Stopped, sessions
  <2>2. QueuedWell
    BY <1>1, <2>1 DEF QueuedWell, Queued, Shape
  <2> QED
    BY <2>1, <2>2 DEF SessionInv
<1> QED
  BY <1>1, <1>2, <1>3, HubSession, HandlerSession, WriterSession, EnvironmentSession DEF Next

\* A connection counts as authenticated with a session that is gone, or is about
\* to, only while the invalidation is on its way, or if the last one passed it by
\* or the session was found in the cache.
THEOREM SessionInvariant == Spec => []SessionInv
<1>1. Init => SessionInv
  BY DEF Init, SessionInv, Trusted, Storing, HubTrusts, At, Handler
<1>2. FlowInv /\ SessionInv /\ [Next]_vars => SessionInv'
  BY NextSession
<1> QED
  BY <1>1, <1>2, FlowInvariant, PTL DEF Spec

\* Once the hub has handled the invalidation of a session that is gone, it
\* queues no event for the connection, unless the connection was authenticated
\* but not in the index then, its reader was storing the session it had found,
\* or the session was found in the cache afterwards.
THEOREM GoneSessionsGetNothing == Spec => EventNeedsSessionUnlessMissed
<1> DEFINE Step == \A c \in Conns :
                     Queued(c) /\ session[c] = "gone" =>
                       \/ UserOf[c] \in invalidating
                       \/ \E d \in Conns : UserOf[d] = UserOf[c] /\ At(d, "revoke")
                       \/ c \in missed
<1>1. FlowInv /\ SessionInv /\ [Next]_vars => [Step]_vars
  BY NextSession DEF QueuedWell, Pending
<1> QED
  BY <1>1, FlowInvariant, SessionInvariant, PTL DEF Spec, EventNeedsSessionUnlessMissed
=============================================================================

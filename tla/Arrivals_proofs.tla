--------------------------- MODULE Arrivals_proofs ---------------------------
(***************************************************************************)
(* Proofs about what arrives from the server late and out of order, in the *)
(* three parts of the page of MCArrivals.                                  *)
(*                                                                         *)
(* Posts: the webapp ends up with the posts that the server has, and       *)
(* counts them, in whatever order bursts, threads, edits and deletions     *)
(* end, but for the named exceptions: for any number of posts, edits and   *)
(* failures, and any limits of a burst and of its queue. What is under way *)
(* is never newer than the server, and a live post is in the store as the  *)
(* server has it or not at all (Current), so it does not matter what comes *)
(* first. A post that is not in the store has an event under way or was    *)
(* given up (Accounted), and one that was deleted has nothing under way    *)
(* that could bring it back (Buried).                                      *)
(*                                                                         *)
(* Plugins: the page ends up with the plugins that the server has enabled, *)
(* each loaded once, for any number of plugins, versions, lists, events    *)
(* and lost sockets. The last event of a plugin on the socket says what    *)
(* the server has (LastEventHolds), and a plugin without one has a list to *)
(* come, or one that says the same, or follows already (FollowsOrWill);    *)
(* of a plugin with a manifest there is one script or bundle (RunsOnce).   *)
(*                                                                         *)
(* Suggestions: the list ends up as that of the word before the caret, for *)
(* any stores, keys and requests. The provider of the text has its query   *)
(* once the pause is over (LatestIsCurrent), and what it has not seen      *)
(* answered is under way (UsersAwaited, ChannelsAwaited), so the list is   *)
(* right or will be replaced (FitsOrWill). A completion keeps the text,    *)
(* because the terms of a list begin like the word it was asked for, and   *)
(* that word is the end of the text (WordsInv): this is about sequences,   *)
(* and the overlap of a term and the text is found with the least element  *)
(* that a set of numbers has.                                              *)
(***************************************************************************)
EXTENDS PostEvents, WebPlugins, Autocomplete, SequenceTheorems, WellFoundedInduction, TLAPS

----------------------------------------------------------------------------
(* Posts: the invariant.                                                   *)

Events == [post : Posts, edits : Nat]
Copies == [state : {"absent", "live", "deleted"}, edits : Nat]
Waits  == [event : Events, thread : (SUBSET Events) \cup {NoThread}]

PostTypes ==
  /\ server \in [Posts -> Copies] /\ kept \in [Posts -> Copies]
  /\ debounce \in [timeout : BOOLEAN, count : Nat, queue : Seq(Events)]
  /\ threads \subseteq Waits

\* The events under way, and those among them that announce a new post.
UnderWay == ToSet(debounce.queue) \cup UNION {{w.event} \cup w.thread : w \in threads}
Announced == {e.post : e \in ToSet(debounce.queue)} \cup {w.event.post : w \in threads}

\* Nothing under way is newer than the server, nor of a post it does not know.
NotNewer ==
  \A e \in UnderWay : e.post \in Posts =>
     server[e.post].state # "absent" /\ e.edits <= server[e.post].edits

\* A live post is in a store as the server has it, or not at all.
CurrentIn(posts) ==
  \A p \in Posts :
     /\ server[p].state = "live" =>
          posts[p] = server[p] \/ (posts[p].state = "absent" /\ server[p].edits = 0)
     /\ server[p].state = "absent" => posts[p].state = "absent" /\ server[p].edits = 0

Current == CurrentIn(kept)

\* A live post that is not in the store is to come, or will not.
Accounted ==
  \A p \in Posts : server[p].state = "live" /\ kept[p].state = "absent"
                     => p \in older \cup given \cup Announced

\* Nothing brings a deleted post back.
Buried ==
  \A p \in Posts : server[p].state = "deleted" /\ p \notin overtaken
                     => kept[p].state # "live" /\ p \notin Coming

\* Every post the server has made is counted, or it is known why not.
Counted ==
  \A p \in Posts : server[p].state # "absent" => p \in counted \cup Announced \cup inBlock \cup given

PostInv == PostTypes /\ NotNewer /\ Current /\ Accounted /\ Buried /\ Counted

----------------------------------------------------------------------------
(* Posts: the reducer.                                                     *)

LEMMA ReceivedOne ==
  ASSUME NEW posts \in [Posts -> Copies], NEW e \in Events
  PROVE  /\ Received(posts, e) \in [Posts -> Copies]
         /\ \A q \in Posts : q # e.post => Received(posts, e)[q] = posts[q]
         /\ Received(posts, e)[e.post].state # "absent"
         /\ \/ /\ posts[e.post].state # "absent" /\ posts[e.post].edits >= e.edits
               /\ Received(posts, e)[e.post] = posts[e.post]
            \/ /\ ~(posts[e.post].state # "absent" /\ posts[e.post].edits >= e.edits)
               /\ Received(posts, e)[e.post] = [state |-> "live", edits |-> e.edits]
<1>1. e.post \in Posts /\ e.edits \in Nat
  BY DEF Events
<1>2. CASE posts[e.post].state # "absent" /\ posts[e.post].edits >= e.edits
  BY <1>1, <1>2 DEF Received
<1>3. CASE ~(posts[e.post].state # "absent" /\ posts[e.post].edits >= e.edits)
  <2>1. Received(posts, e) = [posts EXCEPT ![e.post] = [state |-> "live", edits |-> e.edits]]
    BY <1>3 DEF Received
  <2>2. [state |-> "live", edits |-> e.edits] \in Copies
    BY <1>1 DEF Copies
  <2> QED
    BY <1>1, <1>3, <2>1, <2>2
<1> QED
  BY <1>2, <1>3

\* Each post is as it was, or as one of its events has it.
LEMMA ReceivedEach ==
  ASSUME NEW posts \in [Posts -> Copies], NEW news \in SUBSET Events
  PROVE  /\ ReceivedAll(posts, news) \in [Posts -> Copies]
         /\ \A q \in Posts :
              \/ /\ \A e \in news : e.post # q
                 /\ ReceivedAll(posts, news)[q] = posts[q]
              \/ \E e \in news : e.post = q /\ ReceivedAll(posts, news)[q] = Received(posts, e)[q]
<1>1. ASSUME NEW q \in Posts
      PROVE  /\ ReceivedAll(posts, news)[q] \in Copies
             /\ \/ /\ \A e \in news : e.post # q
                   /\ ReceivedAll(posts, news)[q] = posts[q]
                \/ \E e \in news : e.post = q /\ ReceivedAll(posts, news)[q] = Received(posts, e)[q]
  <2> DEFINE of == {e \in news : e.post = q}
  <2>1. CASE of = {}
    BY <2>1 DEF ReceivedAll
  <2>2. CASE of # {}
    <3>1. (CHOOSE e \in of : TRUE) \in of
      BY <2>2
    <3>2. ReceivedAll(posts, news)[q] = Received(posts, CHOOSE e \in of : TRUE)[q]
      BY <2>2 DEF ReceivedAll
    <3> HIDE DEF of
    <3>3. PICK e \in of : ReceivedAll(posts, news)[q] = Received(posts, e)[q]
      BY <3>1, <3>2
    <3>4. e \in news /\ e.post = q
      BY DEF of
    <3>5. e \in Events /\ Received(posts, e) \in [Posts -> Copies]
      BY <3>4, ReceivedOne
    <3>6. Received(posts, e)[q] \in Copies
      BY <3>5
    <3> QED
      BY <3>3, <3>4, <3>6
  <2> QED
    BY <2>1, <2>2
<1>2. ReceivedAll(posts, news) = [q \in Posts |-> ReceivedAll(posts, news)[q]]
  BY DEF ReceivedAll
<1> QED
  BY <1>1, <1>2

LEMMA MarkedEach ==
  ASSUME NEW posts \in [Posts -> Copies], NEW p \in Posts
  PROVE  /\ MarkedDeleted(posts, p) \in [Posts -> Copies]
         /\ MarkedDeleted(posts, p)[p].state # "live"
         /\ posts[p].state = "absent" => MarkedDeleted(posts, p) = posts
         /\ \A q \in Posts :
              /\ posts[q].state # "live" => MarkedDeleted(posts, p)[q].state # "live"
              /\ posts[q].state = "absent" => MarkedDeleted(posts, p)[q].state = "absent"
              /\ q # p /\ RootOf[q] # p => MarkedDeleted(posts, p)[q] = posts[q]
              /\ q # p /\ RootOf[q] = p /\ posts[p].state # "absent"
                   => MarkedDeleted(posts, p)[q].state = "absent"
<1>1. CASE posts[p].state = "absent"
  BY <1>1 DEF MarkedDeleted
<1>2. CASE posts[p].state # "absent"
  <2>1. MarkedDeleted(posts, p)
          = [q \in Posts |-> IF q = p THEN [posts[p] EXCEPT !.state = "deleted"]
                             ELSE IF RootOf[q] = p THEN Absent ELSE posts[q]]
    BY <1>2 DEF MarkedDeleted
  <2>2. Absent \in Copies /\ [posts[p] EXCEPT !.state = "deleted"] \in Copies
        /\ [posts[p] EXCEPT !.state = "deleted"].state = "deleted" /\ Absent.state = "absent"
    BY DEF Absent, Copies
  <2> QED
    BY <1>2, <2>1, <2>2
<1> QED
  BY <1>1, <1>2


\* An event that is not newer than the server keeps a store current.
LEMMA ReceivedIsCurrent ==
  ASSUME PostTypes, NEW posts \in [Posts -> Copies], CurrentIn(posts), NEW e \in Events,
         server[e.post].state # "absent", e.edits <= server[e.post].edits
  PROVE  CurrentIn(Received(posts, e))
<1> DEFINE p == e.post
           new == Received(posts, e)
<1>1. /\ p \in Posts /\ e.edits \in Nat /\ server[p] \in Copies /\ posts[p] \in Copies
  BY DEF Events, PostTypes
<1>2. /\ \A q \in Posts : q # p => new[q] = posts[q]
      /\ \/ new[p] = posts[p] /\ posts[p].state # "absent"
         \/ /\ ~(posts[p].state # "absent" /\ posts[p].edits >= e.edits)
            /\ new[p] = [state |-> "live", edits |-> e.edits]
  BY ReceivedOne
<1> HIDE DEF new
<1>3. ASSUME server[p].state = "live"
      PROVE  new[p] = server[p]
  <2>1. server[p] = [state |-> "live", edits |-> server[p].edits] /\ server[p].edits \in Nat
    BY <1>1, <1>3 DEF Copies
  <2>2. posts[p] = server[p] \/ (posts[p].state = "absent" /\ server[p].edits = 0)
    BY <1>1, <1>3 DEF CurrentIn
  <2>3. CASE posts[p] = server[p]
    BY <1>1, <1>2, <1>3, <2>1, <2>3
  <2>4. CASE posts[p].state = "absent" /\ server[p].edits = 0
    <3>1. e.edits = 0
      BY <1>1, <2>4
    <3> QED
      BY <1>2, <2>1, <2>4, <3>1
  <2> QED
    BY <2>2, <2>3, <2>4
<1>4. \A q \in Posts :
        /\ server[q].state = "live" => new[q] = server[q] \/ (new[q].state = "absent" /\ server[q].edits = 0)
        /\ server[q].state = "absent" => new[q].state = "absent" /\ server[q].edits = 0
  BY <1>1, <1>2, <1>3 DEF CurrentIn
<1> QED
  BY <1>4 DEF CurrentIn, new

\* Neither do several.
LEMMA AllAreCurrent ==
  ASSUME PostTypes, NEW posts \in [Posts -> Copies], CurrentIn(posts), NEW news \in SUBSET Events,
         \A e \in news : server[e.post].state # "absent" /\ e.edits <= server[e.post].edits
  PROVE  /\ CurrentIn(ReceivedAll(posts, news))
         /\ \A q \in Posts :
              \/ /\ \A e \in news : e.post # q
                 /\ ReceivedAll(posts, news)[q] = posts[q]
              \/ /\ \E e \in news : e.post = q
                 /\ ReceivedAll(posts, news)[q].state # "absent"
<1> DEFINE new == ReceivedAll(posts, news)
<1>1. ASSUME NEW q \in Posts, NEW e \in news, e.post = q, new[q] = Received(posts, e)[q]
      PROVE  /\ new[q].state # "absent"
             /\ server[q].state = "live" =>
                  new[q] = server[q] \/ (new[q].state = "absent" /\ server[q].edits = 0)
             /\ server[q].state # "absent"
  <2>1. CurrentIn(Received(posts, e)) /\ server[q].state # "absent"
    BY <1>1, ReceivedIsCurrent
  <2>2. Received(posts, e)[q].state # "absent"
    BY <1>1, ReceivedOne
  <2> HIDE DEF new
  <2> QED
    BY <1>1, <2>1, <2>2 DEF CurrentIn
<1>2. \A q \in Posts : \/ (\A e \in news : e.post # q) /\ new[q] = posts[q]
                       \/ \E e \in news : e.post = q /\ new[q] = Received(posts, e)[q]
  BY ReceivedEach
<1> HIDE DEF new
<1>3. CurrentIn(new)
  BY <1>1, <1>2 DEF CurrentIn
<1>4. \A q \in Posts :
        \/ (\A e \in news : e.post # q) /\ new[q] = posts[q]
        \/ (\E e \in news : e.post = q) /\ new[q].state # "absent"
  BY <1>1, <1>2
<1> QED
  BY <1>3, <1>4 DEF new

----------------------------------------------------------------------------
(* Posts: what is under way.                                               *)

LEMMA UnderWayTypes ==
  ASSUME PostTypes
  PROVE  /\ \A e \in UnderWay : e.post \in Posts => e \in Events
         /\ ToSet(debounce.queue) \subseteq Events \cap UnderWay
         /\ \A w \in threads : w.event \in Events \cap UnderWay /\ w.thread \subseteq UnderWay
         /\ \A w \in threads : w.thread # NoThread => w.thread \subseteq Events
         /\ Coming = {e.post : e \in UnderWay}
         /\ Announced \subseteq Coming \cap Posts
<1>1. debounce.queue \in Seq(Events)
  BY DEF PostTypes
<1>2. ToSet(debounce.queue) \subseteq Events
  BY <1>1 DEF ToSet
<1>3. ASSUME NEW w \in threads
      PROVE  w.event \in Events /\ (w.thread # NoThread => w.thread \subseteq Events)
  BY DEF PostTypes, Waits
<1>4. \A e \in NoThread : e.post \notin Posts
  BY PostAssumption DEF NoThread
<1>5. \A e \in UnderWay : e.post \in Posts => e \in Events
  BY <1>2, <1>3, <1>4 DEF UnderWay
<1>6. Coming = {e.post : e \in UnderWay}
  BY DEF Coming, UnderWay
<1>7. \A e \in Events : e.post \in Posts
  BY DEF Events
<1>8. /\ ToSet(debounce.queue) \subseteq UnderWay
      /\ \A w \in threads : w.event \in UnderWay /\ w.thread \subseteq UnderWay
  BY DEF UnderWay
<1>9. Announced \subseteq Coming \cap Posts
  BY <1>2, <1>3, <1>6, <1>7, <1>8 DEF Announced
<1> QED
  BY <1>2, <1>3, <1>5, <1>6, <1>8, <1>9

\* What is under way is posts the server knows.
LEMMA ComingIsKnown ==
  ASSUME PostTypes, NotNewer
  PROVE  \A p \in Posts : p \in Coming => server[p].state # "absent"
BY UnderWayTypes DEF NotNewer

\* The queue with an event more.
LEMMA QueueGrows ==
  ASSUME PostTypes, NEW e \in Events
  PROVE  Append(debounce.queue, e) \in Seq(Events)
         /\ ToSet(Append(debounce.queue, e)) = ToSet(debounce.queue) \cup {e}
<1>1. debounce.queue \in Seq(Events)
  BY DEF PostTypes
<1> QED
  BY <1>1 DEF ToSet

LEMMA EmptyQueue == <<>> \in Seq(Events) /\ ToSet(<<>>) = {}
BY DEF ToSet


----------------------------------------------------------------------------
(* Posts: the actions.                                                     *)

\* What may leave and come on its way when the server and the history of
\* deletions stay: a store with what was under way.
LEMMA StoreSteps ==
  ASSUME PostInv, UNCHANGED <<server, older, overtaken>>, PostTypes', NotNewer', CurrentIn(kept'),
         given \subseteq given', Coming' \subseteq Coming,
         \A p \in Posts : p \in Announced => p \in Announced' \cup given' \/ kept'[p].state # "absent",
         \A p \in Posts : kept'[p] = kept[p] \/ (p \in Coming /\ kept'[p].state # "absent"),
         Counted'
  PROVE  PostInv'
<1>1. Current'
  BY DEF Current, CurrentIn
<1>2. Accounted'
  BY DEF PostInv, Accounted
<1>3. Buried'
  BY DEF PostInv, Buried
<1> QED
  BY <1>1, <1>2, <1>3 DEF PostInv

\* The state of p changes from absent to live.
LEMMA PostedServer ==
  ASSUME PostInv, NEW p \in Posts, Posted(p)
  PROVE  /\ server[p].state = "absent" /\ server[p].edits = 0
         /\ kept[p].state = "absent" /\ p \notin Coming
         /\ server' \in [Posts -> Copies] /\ server'[p] = [state |-> "live", edits |-> 0]
         /\ \A q \in Posts : q # p => server'[q] = server[q]
<1>1. server[p].state = "absent" /\ server' = [server EXCEPT ![p].state = "live"]
  BY DEF Posted
<1>2. server \in [Posts -> Copies] /\ server[p] \in Copies
  BY DEF PostInv, PostTypes
<1>3. server[p].edits = 0 /\ kept[p].state = "absent" /\ p \notin Coming
  BY <1>1, ComingIsKnown DEF PostInv, Current, CurrentIn
<1>4. server' = [server EXCEPT ![p] = [state |-> "live", edits |-> 0]]
  <2>1. [server[p] EXCEPT !.state = "live"] = [state |-> "live", edits |-> 0]
    BY <1>2, <1>3 DEF Copies
  <2> QED
    BY <1>1, <2>1
<1>5. [state |-> "live", edits |-> 0] \in Copies
  BY DEF Copies
<1> QED
  BY <1>1, <1>2, <1>3, <1>4, <1>5

LEMMA PostedInv ==
  ASSUME PostInv, NEW p \in Posts, Posted(p)
  PROVE  PostInv'
<1> DEFINE event == [post |-> p, edits |-> 0]
           queue == Append(debounce.queue, event)
<1>1. event \in Events /\ event.post = p /\ event.edits = 0
  BY DEF Events
<1> HIDE DEF event
<1>2. PostTypes /\ NotNewer
  BY DEF PostInv
<1>3. queue \in Seq(Events) /\ ToSet(queue) = ToSet(debounce.queue) \cup {event}
  BY <1>1, <1>2, QueueGrows
<1> HIDE DEF queue
<1>4. /\ server[p].state = "absent" /\ server[p].edits = 0
      /\ kept[p].state = "absent" /\ p \notin Coming
      /\ server' \in [Posts -> Copies] /\ server'[p] = [state |-> "live", edits |-> 0]
      /\ \A q \in Posts : q # p => server'[q] = server[q]
  BY PostedServer
<1>5. debounce = [timeout |-> debounce.timeout, count |-> debounce.count, queue |-> debounce.queue]
      /\ debounce.timeout \in BOOLEAN /\ debounce.count \in Nat
  BY <1>2 DEF PostTypes
<1>6. UNCHANGED <<older, overtaken, inBlock>>
  BY DEF Posted
\* The three ways of the event: the store, a thread, the queue.
<1>7. /\ debounce'.queue = debounce.queue
         /\ \/ /\ kept' = Received(kept, event) /\ counted' = counted \cup {p} /\ UNCHANGED threads
            \/ /\ UNCHANGED <<kept, counted>>
               /\ threads' = threads \cup {[event |-> event, thread |-> NoThread]}
         /\ debounce' \in [timeout : BOOLEAN, count : Nat, queue : Seq(Events)] /\ UNCHANGED given
      \/ /\ UNCHANGED <<kept, counted, threads>>
         /\ debounce' \in [timeout : BOOLEAN, count : Nat, queue : Seq(Events)]
         /\ \/ debounce'.queue = queue /\ UNCHANGED given
            \/ debounce'.queue = <<>> /\ given' = given \cup {e.post : e \in ToSet(queue)}
  <2>1. CASE debounce.timeout /\ debounce.count > Burst
    <3>1. CASE Len(queue) > QueueLimit
      <4>1. debounce' = [debounce EXCEPT !.queue = <<>>]
            /\ given' = given \cup {e.post : e \in ToSet(queue)} /\ UNCHANGED <<kept, counted, threads>>
        BY <2>1, <3>1 DEF Posted, queue, event
      <4>2. debounce' = [timeout |-> debounce.timeout, count |-> debounce.count, queue |-> <<>>]
        BY <1>5, <4>1
      <4> QED
        BY <1>5, <4>1, <4>2, EmptyQueue
    <3>2. CASE ~(Len(queue) > QueueLimit)
      <4>1. debounce' = [debounce EXCEPT !.queue = queue]
            /\ UNCHANGED <<kept, counted, threads, given>>
        BY <2>1, <3>2 DEF Posted, queue, event
      <4>2. debounce' = [timeout |-> debounce.timeout, count |-> debounce.count, queue |-> queue]
        BY <1>5, <4>1
      <4> QED
        BY <1>3, <1>5, <4>1, <4>2
    <3> QED
      BY <3>1, <3>2
  <2>2. CASE ~(debounce.timeout /\ debounce.count > Burst)
    <3>1. debounce' = [debounce EXCEPT !.timeout = TRUE, !.count = @ + 1]
          /\ NewPost(event) /\ UNCHANGED given
      BY <2>2 DEF Posted, queue, event
    <3>2. debounce' = [timeout |-> TRUE, count |-> debounce.count + 1, queue |-> debounce.queue]
      BY <1>5, <3>1
    <3>3. debounce.count + 1 \in Nat /\ debounce.queue \in Seq(Events)
      BY <1>2, <1>5 DEF PostTypes
    <3>4. debounce' \in [timeout : BOOLEAN, count : Nat, queue : Seq(Events)]
          /\ debounce'.queue = debounce.queue
      BY <3>2, <3>3
    <3>5. \/ /\ kept' = Received(kept, event) /\ counted' = counted \cup {p} /\ UNCHANGED threads
          \/ /\ UNCHANGED <<kept, counted>>
             /\ threads' = threads \cup {[event |-> event, thread |-> NoThread]}
      BY <1>1, <3>1 DEF NewPost
    <3> QED
      BY <3>1, <3>4, <3>5
  <2> QED
    BY <2>1, <2>2
<1>8. /\ UnderWay' \subseteq UnderWay \cup {event} \cup NoThread
      /\ Announced \subseteq Announced' \cup given'
      /\ p \in Announced' \cup given' \/ (kept' = Received(kept, event) /\ p \in counted')
  <2> DEFINE wait == [event |-> event, thread |-> NoThread]
  <2>0. wait.event = event /\ wait.thread = NoThread
    OBVIOUS
  <2> HIDE DEF wait
  <2>1. CASE debounce'.queue = debounce.queue /\ UNCHANGED threads
             /\ kept' = Received(kept, event) /\ counted' = counted \cup {p}
    <3>1. UnderWay' = UnderWay /\ Announced' = Announced
      BY <2>1 DEF UnderWay, Announced
    <3> QED
      BY <2>1, <3>1
  <2>2. CASE debounce'.queue = debounce.queue /\ threads' = threads \cup {wait}
    <3>1. UnderWay' \subseteq UnderWay \cup {event} \cup NoThread
      BY <2>0, <2>2 DEF UnderWay
    <3>2. p \in Announced' /\ Announced \subseteq Announced'
      BY <1>1, <2>0, <2>2 DEF Announced
    <3> QED
      BY <3>1, <3>2
  <2>3. CASE debounce'.queue = queue /\ UNCHANGED <<threads, given>>
    <3>1. ToSet(debounce'.queue) = ToSet(debounce.queue) \cup {event}
      BY <1>3, <2>3
    <3>2. UnderWay' \subseteq UnderWay \cup {event} \cup NoThread
      BY <2>3, <3>1 DEF UnderWay
    <3>3. p \in Announced' /\ Announced \subseteq Announced'
      BY <1>1, <2>3, <3>1 DEF Announced
    <3> QED
      BY <3>2, <3>3
  <2>4. CASE debounce'.queue = <<>> /\ UNCHANGED threads
             /\ given' = given \cup {e.post : e \in ToSet(queue)}
    <3>1. ToSet(debounce'.queue) = {}
      BY <2>4, EmptyQueue
    <3>2. UnderWay' \subseteq UnderWay
      BY <2>4, <3>1 DEF UnderWay
    <3>3. p \in given' /\ Announced \subseteq Announced' \cup given'
      BY <1>1, <1>3, <2>4, <3>1 DEF Announced
    <3> QED
      BY <3>2, <3>3
  <2> QED
    BY <1>7, <2>1, <2>2, <2>3, <2>4 DEF wait
<1>9. kept' \in [Posts -> Copies] /\ kept'[p].state \in {"absent", "live"}
      /\ (\A q \in Posts : q # p => kept'[q] = kept[q])
      /\ (kept' = Received(kept, event) => kept'[p] = [state |-> "live", edits |-> 0])
      /\ (kept' # Received(kept, event) => kept'[p].state = "absent")
  <2>1. kept \in [Posts -> Copies]
    BY <1>2 DEF PostTypes
  <2>2. CASE kept' = Received(kept, event)
    BY <1>1, <1>4, <2>1, <2>2, ReceivedOne
  <2>3. CASE kept' = kept
    BY <1>4, <2>1, <2>3, <2>2
  <2> QED
    BY <1>7, <2>2, <2>3
<1>10. PostTypes'
  <2>1. [event |-> event, thread |-> NoThread] \in Waits
    BY <1>1 DEF Waits
  <2>2. threads' \subseteq Waits
    BY <1>2, <1>7, <2>1 DEF PostTypes
  <2> QED
    BY <1>4, <1>7, <1>9, <2>2 DEF PostTypes
<1>11. "none" \notin Posts /\ \A e \in NoThread : e.post \notin Posts
  BY PostAssumption DEF NoThread
<1>12. NotNewer'
  <2> SUFFICES ASSUME NEW e \in UnderWay', e.post \in Posts
               PROVE  server'[e.post].state # "absent" /\ e.edits <= server'[e.post].edits
    BY DEF NotNewer
  <2>1. CASE e = event
    BY <1>1, <1>4, <2>1
  <2>2. CASE e \in UnderWay
    <3>1. e.post # p
      BY <1>2, <1>4, <2>2, UnderWayTypes
    <3> QED
      BY <1>2, <1>4, <2>2, <3>1 DEF NotNewer
  <2> QED
    BY <1>8, <1>11, <2>1, <2>2
<1>13. Current'
  BY <1>4, <1>9 DEF PostInv, Current, CurrentIn
<1>14. Accounted'
  <2> SUFFICES ASSUME NEW q \in Posts, server'[q].state = "live", kept'[q].state = "absent"
               PROVE  q \in older' \cup given' \cup Announced'
    BY DEF Accounted
  <2>1. CASE q = p
    BY <1>8, <1>9, <2>1
  <2>2. CASE q # p
    <3>1. q \in older \cup given \cup Announced
      BY <1>4, <1>9, <2>2 DEF PostInv, Accounted
    <3>2. given \subseteq given'
      BY <1>7
    <3> QED
      BY <1>6, <1>8, <3>1, <3>2
  <2> QED
    BY <2>1, <2>2
<1>15. Buried'
  <2> SUFFICES ASSUME NEW q \in Posts, server'[q].state = "deleted", q \notin overtaken
               PROVE  kept'[q].state # "live" /\ q \notin Coming'
    BY <1>6 DEF Buried
  <2>1. q # p /\ server[q].state = "deleted" /\ kept'[q] = kept[q]
    BY <1>4, <1>9
  <2>2. q \notin Coming /\ kept[q].state # "live"
    BY <2>1 DEF PostInv, Buried
  <2>3. Coming' = {e.post : e \in UnderWay'} /\ Coming = {e.post : e \in UnderWay}
    BY DEF Coming, UnderWay
  <2> QED
    BY <1>1, <1>8, <1>11, <2>1, <2>2, <2>3
<1>16. Counted'
  <2> SUFFICES ASSUME NEW q \in Posts, server'[q].state # "absent"
               PROVE  q \in counted' \cup Announced' \cup inBlock' \cup given'
    BY DEF Counted
  <2>1. CASE q = p
    BY <1>8, <2>1
  <2>2. CASE q # p
    <3>1. q \in counted \cup Announced \cup inBlock \cup given
      BY <1>4, <2>2 DEF PostInv, Counted
    <3>2. given \subseteq given' /\ counted \subseteq counted'
      BY <1>7
    <3> QED
      BY <1>6, <1>8, <3>1, <3>2
  <2> QED
    BY <2>1, <2>2
<1> QED
  BY <1>10, <1>12, <1>13, <1>14, <1>15, <1>16 DEF PostInv


LEMMA TriggeredInv ==
  ASSUME PostInv, Triggered
  PROVE  PostInv'
<1> DEFINE news == ToSet(debounce.queue)
<1>1. /\ kept' = ReceivedAll(kept, news) /\ inBlock' = inBlock \cup {e.post : e \in news}
      /\ debounce' = [timeout |-> FALSE, count |-> 0, queue |-> <<>>]
      /\ UNCHANGED <<older, server, threads, counted, overtaken, given>>
  BY DEF Triggered
<1>2. PostTypes /\ NotNewer /\ CurrentIn(kept) /\ kept \in [Posts -> Copies]
  BY DEF PostInv, PostTypes, Current
<1>3. news \subseteq Events /\ news \subseteq UnderWay
  BY <1>2, UnderWayTypes
<1>4. \A e \in news : e.post \in Posts /\ server[e.post].state # "absent" /\ e.edits <= server[e.post].edits
  BY <1>2, <1>3 DEF NotNewer, Events
<1> HIDE DEF news
<1>5. /\ CurrentIn(kept') /\ kept' \in [Posts -> Copies]
      /\ \A q \in Posts : \/ (\A e \in news : e.post # q) /\ kept'[q] = kept[q]
                          \/ (\E e \in news : e.post = q) /\ kept'[q].state # "absent"
  BY <1>1, <1>2, <1>3, <1>4, AllAreCurrent, ReceivedEach
<1>6. ToSet(debounce'.queue) = {} /\ debounce' \in [timeout : BOOLEAN, count : Nat, queue : Seq(Events)]
  BY <1>1, EmptyQueue
<1>7. PostTypes'
  BY <1>1, <1>2, <1>5, <1>6 DEF PostTypes
<1>8. UnderWay' \subseteq UnderWay
  BY <1>1, <1>6 DEF UnderWay
<1>9. Coming' \subseteq Coming
  BY <1>1, <1>6 DEF Coming
<1>10. Announced \subseteq Announced' \cup {e.post : e \in news}
  BY <1>1 DEF Announced, news
<1>11. NotNewer'
  BY <1>1, <1>2, <1>8 DEF NotNewer
<1>12. Counted'
  <2>1. Announced \subseteq Announced' \cup inBlock'
    BY <1>1, <1>10
  <2> QED
    BY <1>1, <2>1 DEF PostInv, Counted
<1>13. \A q \in Posts : (\E e \in news : e.post = q) => q \in Coming
  BY <1>3 DEF Coming, UnderWay
<1> QED
  BY <1>1, <1>5, <1>7, <1>9, <1>10, <1>11, <1>12, <1>13, StoreSteps

LEMMA ThreadAnsweredInv ==
  ASSUME PostInv, NEW wait \in threads, ThreadAnswered(wait)
  PROVE  PostInv'
<1>1. UNCHANGED <<server, kept, debounce, counted, older, overtaken, inBlock>>
  BY DEF ThreadAnswered
<1>2. PostTypes /\ NotNewer /\ wait \in Waits
  BY DEF PostInv, PostTypes
<1> DEFINE root == RootOf[wait.event.post]
           live == {q \in Posts : RootOf[q] = root /\ server[q].state = "live"}
           thread == {Event(q) : q \in live}
           answered == [wait EXCEPT !.thread = thread]
<1>3. \A q \in live : /\ Event(q) \in Events /\ Event(q).post = q /\ q \in Posts
                      /\ Event(q).edits = server[q].edits /\ server[q].state = "live"
                      /\ server[q].edits <= server[q].edits
  BY <1>2 DEF Event, Events, PostTypes, Copies
<1>4. answered \in Waits /\ answered.event = wait.event /\ answered.thread = thread
  BY <1>2, <1>3 DEF Waits
<1>5. \/ threads' = (threads \ {wait}) \cup {answered} /\ UNCHANGED given
      \/ threads' = threads \ {wait} /\ given' = given \cup {wait.event.post}
  BY DEF ThreadAnswered
<1>6. /\ \A e \in thread : /\ e \in Events /\ e.post \in Posts /\ server[e.post].state = "live"
                           /\ e.edits <= server[e.post].edits
  BY <1>3
<1> HIDE DEF answered, thread, live
<1>7. PostTypes'
  BY <1>1, <1>2, <1>4, <1>5 DEF PostTypes
<1>8. UnderWay' \subseteq UnderWay \cup thread
  BY <1>1, <1>4, <1>5 DEF UnderWay
<1>9. Announced \subseteq Announced' \cup given' /\ given \subseteq given'
  BY <1>1, <1>4, <1>5 DEF Announced
<1>10. NotNewer'
  BY <1>1, <1>2, <1>6, <1>8 DEF NotNewer
<1>11. Current'
  BY <1>1 DEF PostInv, Current, CurrentIn
<1>12. Accounted'
  BY <1>1, <1>9 DEF PostInv, Accounted
<1>13. Buried'
  <2> SUFFICES ASSUME NEW q \in Posts, server[q].state = "deleted", q \notin overtaken
               PROVE  kept[q].state # "live" /\ q \notin Coming'
    BY <1>1 DEF Buried
  <2>1. kept[q].state # "live" /\ q \notin Coming
    BY DEF PostInv, Buried
  <2>2. Coming' = {e.post : e \in UnderWay'} /\ Coming = {e.post : e \in UnderWay}
    BY DEF Coming, UnderWay
  <2> QED
    BY <1>6, <1>8, <2>1, <2>2
<1>14. Counted'
  BY <1>1, <1>9 DEF PostInv, Counted
<1> QED
  BY <1>7, <1>10, <1>11, <1>12, <1>13, <1>14 DEF PostInv

LEMMA ThreadReceivedInv ==
  ASSUME PostInv, NEW wait \in threads, ThreadReceived(wait)
  PROVE  PostInv'
<1> DEFINE news == wait.thread
           stored == ReceivedAll(kept, news)
           event == wait.event
<1>1. /\ wait.thread # NoThread /\ threads' = threads \ {wait} /\ kept' = Received(stored, event)
      /\ counted' = counted \cup {event.post}
      /\ UNCHANGED <<server, debounce, older, overtaken, given, inBlock>>
  BY DEF ThreadReceived
<1>2. PostTypes /\ NotNewer /\ CurrentIn(kept) /\ kept \in [Posts -> Copies]
  BY DEF PostInv, PostTypes, Current
<1>3. news \subseteq Events /\ news \subseteq UnderWay /\ event \in Events /\ event \in UnderWay
      /\ event.post \in Posts
  BY <1>1, <1>2, UnderWayTypes DEF Events
<1>4. \A e \in news \cup {event} :
        e.post \in Posts /\ server[e.post].state # "absent" /\ e.edits <= server[e.post].edits
  BY <1>2, <1>3 DEF NotNewer, Events
<1> HIDE DEF news, event, stored
<1>5. /\ CurrentIn(stored) /\ stored \in [Posts -> Copies]
      /\ \A q \in Posts : \/ (\A e \in news : e.post # q) /\ stored[q] = kept[q]
                          \/ (\E e \in news : e.post = q) /\ stored[q].state # "absent"
  BY <1>2, <1>3, <1>4, AllAreCurrent, ReceivedEach DEF stored
<1>6. /\ CurrentIn(kept') /\ kept' \in [Posts -> Copies] /\ kept'[event.post].state # "absent"
      /\ \A q \in Posts : q # event.post => kept'[q] = stored[q]
  <2>1. server[event.post].state # "absent" /\ event.edits <= server[event.post].edits
    BY <1>4
  <2>2. CurrentIn(Received(stored, event))
    BY <1>2, <1>3, <1>5, <2>1, ReceivedIsCurrent
  <2>3. /\ Received(stored, event) \in [Posts -> Copies] /\ Received(stored, event)[event.post].state # "absent"
        /\ \A q \in Posts : q # event.post => Received(stored, event)[q] = stored[q]
    BY <1>3, <1>5, ReceivedOne
  <2> QED
    BY <1>1, <2>2, <2>3
<1>7. \A q \in Posts : \/ kept'[q] = kept[q]
                       \/ (\E e \in news \cup {event} : e.post = q) /\ kept'[q].state # "absent"
  BY <1>5, <1>6
<1>8. PostTypes'
  BY <1>1, <1>2, <1>6 DEF PostTypes
<1>9. UnderWay' \subseteq UnderWay
  BY <1>1 DEF UnderWay
<1>10. Coming' \subseteq Coming
  BY <1>1 DEF Coming
<1>11. Announced \subseteq Announced' \cup {event.post}
  BY <1>1 DEF Announced, event
<1>12. NotNewer'
  BY <1>1, <1>2, <1>9 DEF NotNewer
<1>13. CurrentIn(kept')
  BY <1>6
<1>14. Counted'
  BY <1>1, <1>11 DEF PostInv, Counted
<1>15. \A q \in Posts : (\E e \in news \cup {event} : e.post = q) => q \in Coming
  BY <1>3 DEF Coming, UnderWay
<1> QED
  BY <1>1, <1>6, <1>7, <1>8, <1>10, <1>11, <1>12, <1>14, <1>15, StoreSteps

LEMMA ThreadFailedInv ==
  ASSUME PostInv, NEW wait \in threads, ThreadFailed(wait)
  PROVE  PostInv'
<1>1. /\ threads' = threads \ {wait} /\ given' = given \cup {wait.event.post}
      /\ UNCHANGED <<server, kept, debounce, counted, older, overtaken, inBlock>>
  BY DEF ThreadFailed
<1>2. PostTypes /\ NotNewer /\ CurrentIn(kept)
  BY DEF PostInv, Current
<1>3. PostTypes' /\ CurrentIn(kept')
  BY <1>1, <1>2 DEF PostTypes
<1>4. UnderWay' \subseteq UnderWay /\ Coming' \subseteq Coming
  BY <1>1 DEF UnderWay, Coming
<1>5. Announced \subseteq Announced' \cup given' /\ given \subseteq given'
  BY <1>1 DEF Announced
<1>6. NotNewer'
  BY <1>1, <1>2, <1>4 DEF NotNewer
<1>7. Counted'
  BY <1>1, <1>5 DEF PostInv, Counted
<1> QED
  BY <1>1, <1>3, <1>4, <1>5, <1>6, <1>7, StoreSteps


LEMMA PostEditedInv ==
  ASSUME PostInv, NEW p \in Posts, PostEdited(p)
  PROVE  PostInv'
<1> DEFINE e == [post |-> p, edits |-> server[p].edits + 1]
<1>1. /\ server[p].state = "live" /\ server' = [server EXCEPT ![p].edits = @ + 1]
      /\ kept' = Received(kept, e)
      /\ UNCHANGED <<older, debounce, threads, counted, overtaken, given, inBlock>>
  BY DEF PostEdited
<1>2. PostTypes /\ NotNewer /\ server[p] \in Copies /\ kept \in [Posts -> Copies]
      /\ server \in [Posts -> Copies]
  BY DEF PostInv, PostTypes
<1>3. server[p] = [state |-> "live", edits |-> server[p].edits] /\ server[p].edits \in Nat
  BY <1>1, <1>2 DEF Copies
<1>4. /\ server' \in [Posts -> Copies] /\ server'[p] = [state |-> "live", edits |-> e.edits]
      /\ \A q \in Posts : q # p => server'[q] = server[q]
  <2>1. [server[p] EXCEPT !.edits = @ + 1] = [state |-> "live", edits |-> e.edits]
    BY <1>3
  <2>2. server' = [server EXCEPT ![p] = [state |-> "live", edits |-> e.edits]]
    BY <1>1, <2>1
  <2>3. [state |-> "live", edits |-> e.edits] \in Copies
    BY <1>3 DEF Copies
  <2> QED
    BY <1>2, <2>2, <2>3
<1>5. e \in Events /\ e.post = p /\ e.edits = server[p].edits + 1
  BY <1>3 DEF Events
<1> HIDE DEF e
<1>6. /\ kept' \in [Posts -> Copies] /\ kept'[p] = server'[p]
      /\ \A q \in Posts : q # p => kept'[q] = kept[q]
  <2>1. kept[p] = server[p] \/ kept[p].state = "absent"
    BY <1>1 DEF PostInv, Current, CurrentIn
  <2>2. ~(kept[p].state # "absent" /\ kept[p].edits >= e.edits)
    BY <1>3, <1>5, <2>1
  <2> QED
    BY <1>1, <1>2, <1>4, <1>5, <2>2, ReceivedOne
<1>7. PostTypes'
  BY <1>1, <1>2, <1>4, <1>6 DEF PostTypes
<1>8. UnderWay' = UnderWay /\ Coming' = Coming /\ Announced' = Announced
  BY <1>1 DEF UnderWay, Coming, Announced
<1>9. NotNewer'
  <2> SUFFICES ASSUME NEW f \in UnderWay, f.post \in Posts
               PROVE  server'[f.post].state # "absent" /\ f.edits <= server'[f.post].edits
    BY <1>8 DEF NotNewer
  <2>1. f.edits \in Nat /\ server[f.post].state # "absent" /\ f.edits <= server[f.post].edits
    BY <1>2, UnderWayTypes DEF NotNewer, Events
  <2> QED
    BY <1>3, <1>4, <1>5, <2>1
<1>10. Current'
  BY <1>4, <1>6 DEF PostInv, Current, CurrentIn
<1>11. Accounted'
  BY <1>1, <1>4, <1>6, <1>8 DEF PostInv, Accounted
<1>12. Buried'
  BY <1>1, <1>4, <1>6, <1>8 DEF PostInv, Buried
<1>13. Counted'
  BY <1>1, <1>4, <1>8 DEF PostInv, Counted
<1> QED
  BY <1>7, <1>9, <1>10, <1>11, <1>12, <1>13 DEF PostInv

LEMMA PostDeletedInv ==
  ASSUME PostInv, NEW p \in Posts, PostDeleted(p)
  PROVE  PostInv'
<1> DEFINE gone == {q \in Posts : RootOf[q] = p \/ q = p}
<1>1. /\ server[p].state = "live" /\ kept' = MarkedDeleted(kept, p)
      /\ server' = [q \in Posts |-> IF q \in gone /\ server[q].state = "live"
                                    THEN [server[q] EXCEPT !.state = "deleted"] ELSE server[q]]
      /\ overtaken' = overtaken \cup (gone \cap (Coming \cup Orphans))
      /\ UNCHANGED <<older, debounce, threads, counted, given, inBlock>>
  BY DEF PostDeleted
<1>2. PostTypes /\ NotNewer /\ kept \in [Posts -> Copies] /\ server \in [Posts -> Copies]
  BY DEF PostInv, PostTypes
<1>3. ASSUME NEW q \in Posts
      PROVE  /\ server'[q] \in Copies /\ server'[q].edits = server[q].edits
             /\ q \in gone /\ server[q].state = "live" => server'[q].state = "deleted"
             /\ ~(q \in gone /\ server[q].state = "live") => server'[q] = server[q]
  <2>1. server[q] \in Copies
    BY <1>2
  <2>2. CASE q \in gone /\ server[q].state = "live"
    <3>1. server'[q] = [server[q] EXCEPT !.state = "deleted"]
      BY <1>1, <2>2
    <3>2. [server[q] EXCEPT !.state = "deleted"] = [state |-> "deleted", edits |-> server[q].edits]
          /\ server[q].edits \in Nat
      BY <2>1 DEF Copies
    <3> QED
      BY <2>2, <3>1, <3>2 DEF Copies
  <2>3. CASE ~(q \in gone /\ server[q].state = "live")
    BY <1>1, <2>1, <2>3
  <2> QED
    BY <2>2, <2>3
<1>4. server' \in [Posts -> Copies]
  BY <1>1, <1>3
<1>5. /\ kept' \in [Posts -> Copies] /\ kept'[p].state # "live"
      /\ kept[p].state = "absent" => kept' = kept
      /\ \A q \in Posts :
              /\ kept[q].state # "live" => kept'[q].state # "live"
              /\ kept[q].state = "absent" => kept'[q].state = "absent"
              /\ q \notin gone => kept'[q] = kept[q]
              /\ q # p /\ q \in gone /\ kept[p].state # "absent" => kept'[q].state = "absent"
  BY <1>1, <1>2, MarkedEach
<1>6. gone \subseteq Posts /\ p \in gone /\ \A q \in gone : q = p \/ RootOf[q] = p
  OBVIOUS
<1> HIDE DEF gone
<1>7. PostTypes'
  BY <1>1, <1>2, <1>4, <1>5 DEF PostTypes
<1>8. UnderWay' = UnderWay /\ Coming' = Coming /\ Announced' = Announced
  BY <1>1 DEF UnderWay, Coming, Announced
<1>9. \A q \in Posts : /\ server'[q].state = "live" => q \notin gone /\ server'[q] = server[q]
                       /\ server'[q].state = "absent" <=> server[q].state = "absent"
  BY <1>3
<1>10. NotNewer'
  BY <1>2, <1>3, <1>8, <1>9 DEF NotNewer
<1>11. Current'
  BY <1>3, <1>5, <1>9 DEF PostInv, Current, CurrentIn
<1>12. Accounted'
  BY <1>1, <1>5, <1>8, <1>9 DEF PostInv, Accounted
<1>13. Buried'
  <2> SUFFICES ASSUME NEW q \in Posts, server'[q].state = "deleted", q \notin overtaken'
               PROVE  kept'[q].state # "live" /\ q \notin Coming
    BY <1>8 DEF Buried
  <2>1. q \notin overtaken /\ (q \in gone => q \notin Coming /\ q \notin Orphans)
    BY <1>1
  <2>2. CASE server[q].state = "deleted"
    BY <1>5, <2>1, <2>2 DEF PostInv, Buried
  <2>3. CASE server[q].state # "deleted"
    <3>1. q \in gone
      BY <1>3, <2>3
    <3>2. CASE q = p
      BY <1>5, <2>1, <3>1, <3>2
    <3>3. CASE q # p /\ kept[p].state # "absent"
      BY <1>5, <2>1, <3>1, <3>3
    <3>4. CASE q # p /\ kept[p].state = "absent"
      <4>1. RootOf[q] = p
        BY <1>6, <3>1, <3>4
      <4>2. q \in Orphans
        BY <3>4, <4>1 DEF Orphans, IsComment
      <4> QED
        BY <2>1, <3>1, <4>2
    <3> QED
      BY <3>2, <3>3, <3>4
  <2> QED
    BY <2>2, <2>3
<1>14. Counted'
  BY <1>1, <1>8, <1>9 DEF PostInv, Counted
<1> QED
  BY <1>7, <1>10, <1>11, <1>12, <1>13, <1>14 DEF PostInv

----------------------------------------------------------------------------
(* Posts: the theorems.                                                    *)

LEMMA PostInitInv ==
  ASSUME PostInit
  PROVE  PostInv
<1>1. PICK before \in SUBSET Posts, loaded \in SUBSET Posts :
         /\ loaded \subseteq before
         /\ server = [p \in Posts |-> IF p \in before THEN [Absent EXCEPT !.state = "live"] ELSE Absent]
         /\ kept = [p \in Posts |-> IF p \in loaded THEN server[p] ELSE Absent]
         /\ older = before \ loaded
         /\ counted = before
  BY DEF PostInit
<1>2. /\ debounce = [timeout |-> FALSE, count |-> 0, queue |-> <<>>] /\ threads = {}
  BY DEF PostInit
<1>3. /\ Absent = [state |-> "absent", edits |-> 0] /\ Absent \in Copies
      /\ [Absent EXCEPT !.state = "live"] = [state |-> "live", edits |-> 0]
      /\ [state |-> "live", edits |-> 0] \in Copies
  BY DEF Absent, Copies
<1>4. \A p \in Posts : /\ p \in before => server[p] = [state |-> "live", edits |-> 0]
                       /\ p \notin before => server[p] = Absent
                       /\ p \in loaded => kept[p] = server[p]
                       /\ p \notin loaded => kept[p] = Absent
  BY <1>1, <1>3
<1>5. server \in [Posts -> Copies] /\ kept \in [Posts -> Copies]
  BY <1>1, <1>3
<1>6. ToSet(debounce.queue) = {} /\ debounce \in [timeout : BOOLEAN, count : Nat, queue : Seq(Events)]
  BY <1>2, EmptyQueue
<1>7. PostTypes
  BY <1>2, <1>5, <1>6 DEF PostTypes
<1>8. UnderWay = {} /\ Coming = {} /\ Announced = {}
  BY <1>2, <1>6 DEF UnderWay, Coming, Announced
<1>9. NotNewer
  BY <1>8 DEF NotNewer
<1>10. Current
  BY <1>1, <1>3, <1>4 DEF Current, CurrentIn
<1>11. Accounted /\ Buried /\ Counted
  BY <1>1, <1>3, <1>4, <1>8 DEF Accounted, Buried, Counted
<1> QED
  BY <1>7, <1>9, <1>10, <1>11 DEF PostInv

LEMMA PostNextInv ==
  ASSUME PostInv, [PostNext]_postVars
  PROVE  PostInv'
<1>1. CASE PostNext
  BY <1>1, PostedInv, PostEditedInv, PostDeletedInv, TriggeredInv, ThreadAnsweredInv,
     ThreadReceivedInv, ThreadFailedInv DEF PostNext
<1>2. CASE UNCHANGED postVars
  BY <1>2 DEF postVars, PostInv, PostTypes, NotNewer, Current, CurrentIn, Accounted, Buried,
              Counted, UnderWay, Announced, Coming
<1> QED
  BY <1>1, <1>2

\* The invariant that both properties rest on: what is under way is not newer
\* than the server, and what is in the store is as the server has it, to come,
\* given up, or deleted.
THEOREM PostInvariant == PostSpec => []PostInv
BY PostInitInv, PostNextInv, PTL DEF PostSpec

\* Whatever the order of bursts, threads, edits and deletions, the store has
\* each post as the server has it, but for the named exceptions: for any number
\* of posts and edits (debouncePostEvent and the handlers of post events of
\* websocket_actions.jsx, completePostReceive of post_utils.js).
THEOREM PostsAgree == PostSpec => []StoreAgrees
<1>1. ASSUME PostInv
      PROVE  StoreAgrees
  <2> SUFFICES ASSUME NEW p \in Posts, p \notin Coming \cup given \cup overtaken
               PROVE  /\ server[p].state = "live" => \/ kept[p] = server[p]
                                                     \/ p \in older /\ kept[p].state = "absent"
                      /\ server[p].state # "live" => kept[p].state # "live"
    BY DEF StoreAgrees
  <2>1. PostTypes
    BY <1>1 DEF PostInv
  <2>2. p \notin Announced
    BY <2>1, UnderWayTypes
  <2>3. server[p].state \in {"absent", "live", "deleted"}
    BY <2>1 DEF PostTypes, Copies
  <2>4. CASE server[p].state = "live"
    BY <1>1, <2>2, <2>4 DEF PostInv, Current, CurrentIn, Accounted
  <2>5. CASE server[p].state = "deleted"
    BY <1>1, <2>5 DEF PostInv, Buried
  <2>6. CASE server[p].state = "absent"
    BY <1>1, <2>6 DEF PostInv, Current, CurrentIn
  <2> QED
    BY <2>3, <2>4, <2>5, <2>6
<1> QED
  BY <1>1, PostInvariant, PTL

\* A post that is shown and did not come in the block of a burst is counted
\* as read or unread, with or without its thread (completePostReceive).
THEOREM PostsAreCounted == PostSpec => []CountedUnlessInBlock
<1>1. ASSUME PostInv
      PROVE  CountedUnlessInBlock
  <2>1. Announced \subseteq Coming
    BY <1>1, UnderWayTypes DEF PostInv
  <2> QED
    BY <1>1, <2>1 DEF PostInv, Current, CurrentIn, Counted, CountedUnlessInBlock
<1> QED
  BY <1>1, PostInvariant, PTL

----------------------------------------------------------------------------
(* Plugins: the invariant.                                                 *)

Enabled == Versions \cup {0}

PageRecord == [manifest : Enabled, loaded : BOOLEAN, loading : Seq(Versions),
               components : Seq(Versions), handler : Enabled]

ListRecord == [id : Nat, old : [Plugins -> Enabled], answered : BOOLEAN, new : [Plugins -> Enabled]]

PluginTypes ==
  /\ enabled \in [Plugins -> Enabled]
  /\ events \in Seq([plugin : Plugins, version : Enabled])
  /\ page \in [Plugins -> PageRecord]
  /\ syncs \subseteq ListRecord
  /\ online \in BOOLEAN
  /\ uses \in [changes : Nat, syncs : Nat, drops : Nat, broken : Nat]

\* The last event of a plugin on the socket says what the server has.
LastEventHolds ==
  \A i \in DOMAIN events :
     \/ \E j \in DOMAIN events : j > i /\ events[j].plugin = events[i].plugin
     \/ events[i].version = enabled[events[i].plugin]

NoneOffline == ~online => events = <<>>

Blank(at) == ~at.loaded /\ at.loading = <<>> /\ at.components = <<>> /\ at.handler = 0
Running(at, w) == at.loaded /\ \/ at.loading = <<w>> /\ at.components = <<>> /\ at.handler = 0
                               \/ at.loading = <<>> /\ at.components = <<w>> /\ at.handler = w

\* There is nothing of a plugin without a manifest; of another one there is
\* one script or bundle, of its manifest unless its version has changed.
Right(at, p, changed) ==
  \/ at.manifest = 0 /\ Blank(at)
  \/ /\ at.manifest # 0
     /\ \E w \in Versions : Running(at, w) /\ (p \in changed \/ w = at.manifest)

RunsOnce == \A p \in Plugins \ raced : Right(page[p], p, upgraded)

ChangesSeen ==
  \A s \in syncs : s.answered =>
    \A p \in Plugins \ upgraded : s.new[p] = 0 \/ s.old[p] \in {0, s.new[p]}

FollowsOrWill ==
  \A p \in Plugins \ (missed \cup raced) :
     \/ \E i \in DOMAIN events : events[i].plugin = p
     \/ \E s \in syncs : ~s.answered
     \/ \E s \in syncs : s.answered /\ s.new[p] = enabled[p]
     \/ syncs = {} /\ page[p].manifest = enabled[p]

PluginInv == PluginTypes /\ LastEventHolds /\ NoneOffline /\ RunsOnce /\ ChangesSeen /\ FollowsOrWill
----------------------------------------------------------------------------
(* Plugins: what the page does with a plugin.                              *)

LEMMA WithoutTheOnly ==
  ASSUME NEW w
  PROVE  RemoveAt(<<w>>, 1) = <<>>
<1>1. RemoveAt(<<w>>, 1) = SubSeq(<<w>>, 1, 0) \o SubSeq(<<w>>, 2, 1)
  BY DEF RemoveAt
<1>2. SubSeq(<<w>>, 1, 0) = <<>> /\ SubSeq(<<w>>, 2, 1) = <<>>
  OBVIOUS
<1> QED
  BY <1>1, <1>2

LEMMA WithoutOne ==
  ASSUME NEW S, NEW q \in Seq(S), NEW i \in DOMAIN q
  PROVE  RemoveAt(q, i) \in Seq(S)
<1>1. i \in 1..Len(q)
  OBVIOUS
<1>2. SubSeq(q, 1, i - 1) \in Seq(S) /\ SubSeq(q, i + 1, Len(q)) \in Seq(S)
  BY <1>1
<1> QED
  BY <1>2 DEF RemoveAt

\* What there is of a plugin.
LEMMA FieldsOfPlugin ==
  ASSUME NEW at \in PageRecord
  PROVE  /\ at.manifest \in Enabled /\ at.loaded \in BOOLEAN /\ at.loading \in Seq(Versions)
         /\ at.components \in Seq(Versions) /\ at.handler \in Enabled
         /\ at = [manifest |-> at.manifest, loaded |-> at.loaded, loading |-> at.loading,
                  components |-> at.components, handler |-> at.handler]
         /\ <<>> \in Seq(Versions) /\ 0 \in Enabled
BY DEF PageRecord, Enabled

\* loadPlugin adds a script of a plugin that is not loaded.
LEMMA LoadEffect ==
  ASSUME NEW at \in PageRecord, NEW v \in Versions
  PROVE  /\ LoadPlugin(v, at) \in PageRecord
         /\ LoadPlugin(v, at).manifest = at.manifest
         /\ at.loaded => LoadPlugin(v, at) = at
         /\ ~at.loaded => /\ LoadPlugin(v, at).loaded /\ LoadPlugin(v, at).loading = Append(at.loading, v)
                          /\ LoadPlugin(v, at).components = at.components
                          /\ LoadPlugin(v, at).handler = at.handler
<1>1. /\ at.manifest \in Enabled /\ at.loading \in Seq(Versions)
      /\ at.components \in Seq(Versions) /\ at.handler \in Enabled
      /\ at = [manifest |-> at.manifest, loaded |-> at.loaded, loading |-> at.loading,
               components |-> at.components, handler |-> at.handler]
  BY FieldsOfPlugin
<1>2. Append(at.loading, v) \in Seq(Versions)
  BY <1>1
<1>3. ~at.loaded => LoadPlugin(v, at) = [manifest |-> at.manifest, loaded |-> TRUE,
                                         loading |-> Append(at.loading, v),
                                         components |-> at.components, handler |-> at.handler]
  BY <1>1 DEF LoadPlugin
<1>4. at.loaded => LoadPlugin(v, at) = at
  BY DEF LoadPlugin
<1>5. LoadPlugin(v, at) \in PageRecord
  <2>1. CASE at.loaded
    BY <1>4, <2>1
  <2>2. CASE ~at.loaded
    <3> DEFINE loading == Append(at.loading, v)
    <3>1. /\ at.manifest \in Enabled /\ loading \in Seq(Versions)
          /\ at.components \in Seq(Versions) /\ at.handler \in Enabled
      BY <1>1, <1>2
    <3>2. LoadPlugin(v, at) = [manifest |-> at.manifest, loaded |-> TRUE, loading |-> loading,
                               components |-> at.components, handler |-> at.handler]
      BY <1>3, <2>2
    <3> HIDE DEF loading
    <3> QED
      BY <3>1, <3>2 DEF PageRecord
  <2> QED
    BY <2>1, <2>2
<1> QED
  BY <1>3, <1>4, <1>5

\* removePlugin leaves a script that is loading, and nothing else.
LEMMA RemoveEffect ==
  ASSUME NEW at \in PageRecord
  PROVE  /\ RemovePlugin(at) \in PageRecord
         /\ RemovePlugin(at).manifest = 0
         /\ at.loading = <<>> => Blank(RemovePlugin(at))
<1>1. /\ RemovePlugin(at).manifest = 0 /\ ~RemovePlugin(at).loaded
      /\ RemovePlugin(at).loading = at.loading
      /\ RemovePlugin(at).components = <<>> /\ RemovePlugin(at).handler = 0
  BY DEF RemovePlugin, PageRecord
<1>2. RemovePlugin(at) \in PageRecord
  BY FieldsOfPlugin DEF RemovePlugin, PageRecord
<1> QED
  BY <1>1, <1>2 DEF Blank

\* The manifest of a plugin is set.
LEMMA ManifestEffect ==
  ASSUME NEW at \in PageRecord, NEW v \in Enabled, NEW new, new = [at EXCEPT !.manifest = v]
  PROVE  /\ new \in PageRecord /\ new.manifest = v /\ new.loaded = at.loaded
         /\ new.loading = at.loading /\ new.components = at.components /\ new.handler = at.handler
BY FieldsOfPlugin DEF PageRecord

\* A script of a plugin of which there is nothing else.
LEMMA FreshIsRight ==
  ASSUME NEW at, NEW w \in Versions, NEW p, NEW changed, at.manifest = w, at.loaded,
         at.loading = Append(<<>>, w), at.components = <<>>, at.handler = 0
  PROVE  Right(at, p, changed)
<1>1. w # 0 /\ Append(<<>>, w) = <<w>>
  BY PluginAssumption
<1> QED
  BY <1>1 DEF Right, Running

\* An event sets the manifest, and keeps what is right unless a script of the
\* plugin is loading or the plugin is to be loaded and is loaded already.
LEMMA EventOnPage ==
  ASSUME NEW at \in PageRecord, NEW v \in Enabled, NEW p, NEW changed, NEW new,
         v = 0 => new = RemovePlugin(at), v # 0 => new = EnablePlugin(v, at)
  PROVE  /\ new \in PageRecord /\ new.manifest = v
         /\ Right(at, p, changed) /\ at.loading = <<>> /\ (v = 0 \/ ~at.loaded) => Right(new, p, changed)
<1>1. CASE v = 0
  BY <1>1, RemoveEffect DEF Right
<1>2. CASE v # 0
  <2> DEFINE received == [at EXCEPT !.manifest = v, !.components = <<>>]
  <2>1. /\ received \in PageRecord /\ received.manifest = v /\ received.loaded = at.loaded
        /\ received.loading = at.loading /\ received.components = <<>> /\ received.handler = at.handler
    BY FieldsOfPlugin DEF PageRecord
  <2>2. new = LoadPlugin(v, received)
    BY <1>2 DEF EnablePlugin
  <2> HIDE DEF received
  <2>3. v \in Versions
    BY <1>2 DEF Enabled
  <2>4. new \in PageRecord /\ new.manifest = v
    BY <2>1, <2>2, <2>3, LoadEffect
  <2>5. ASSUME Right(at, p, changed), at.loading = <<>>, ~at.loaded
        PROVE  Right(new, p, changed)
    <3>1. Blank(at)
      BY <2>5 DEF Right, Running
    <3>2. /\ new.loaded /\ new.loading = Append(<<>>, v)
          /\ new.components = <<>> /\ new.handler = 0
      BY <2>1, <2>2, <2>3, <2>5, <3>1, LoadEffect DEF Blank
    <3> QED
      BY <2>3, <2>4, <3>2, FreshIsRight
  <2> QED
    BY <1>2, <2>4, <2>5
<1> QED
  BY <1>1, <1>2

\* A list sets the manifest, and keeps what is right if it was asked for with
\* the manifest that the page has, and no script of a removed plugin is loading.
LEMMA ListOnPage ==
  ASSUME NEW at \in PageRecord, NEW old \in Enabled, NEW v \in Enabled, NEW p, NEW changed,
         NEW new, new = Synchronized(old, v, at)
  PROVE  /\ new \in PageRecord /\ new.manifest = v
         /\ /\ Right(at, p, changed) /\ old = at.manifest
            /\ old = 0 \/ v # 0 \/ at.loading = <<>>
            /\ p \in changed \/ v = 0 \/ old \in {0, v}
            => Right(new, p, changed)
<1> DEFINE received == [at EXCEPT !.manifest = v]
<1>1. /\ received \in PageRecord /\ received.manifest = v /\ received.loaded = at.loaded
      /\ received.loading = at.loading /\ received.components = at.components
      /\ received.handler = at.handler
  BY ManifestEffect
<1>2. new = CASE v # 0 /\ old # v -> LoadPlugin(v, received)
              [] v = 0 /\ old # 0 -> RemovePlugin(received)
              [] OTHER            -> received
  BY DEF Synchronized
<1> HIDE DEF received
<1>3. CASE v # 0 /\ old # v
  <2>1. new = LoadPlugin(v, received) /\ v \in Versions
    BY <1>2, <1>3 DEF Enabled
  <2>2. new \in PageRecord /\ new.manifest = v
    BY <1>1, <2>1, LoadEffect
  <2>3. ASSUME Right(at, p, changed), old = at.manifest, old = 0
        PROVE  Right(new, p, changed)
    <3>1. Blank(at)
      BY <2>3 DEF Right
    <3>2. /\ new.loaded /\ new.loading = Append(<<>>, v)
          /\ new.components = <<>> /\ new.handler = 0
      BY <1>1, <2>1, <3>1, LoadEffect DEF Blank
    <3> QED
      BY <2>1, <2>2, <3>2, FreshIsRight
  <2>4. ASSUME Right(at, p, changed), old = at.manifest, old # 0, p \in changed
        PROVE  Right(new, p, changed)
    <3>1. PICK w \in Versions : Running(at, w)
      BY <2>4 DEF Right
    <3>2. new = received
      BY <1>1, <2>1, <3>1, LoadEffect DEF Running
    <3>3. Running(new, w)
      BY <1>1, <3>1, <3>2 DEF Running
    <3> QED
      BY <1>3, <2>2, <2>4, <3>3 DEF Right
  <2> QED
    BY <1>3, <2>2, <2>3, <2>4
<1>4. CASE v = 0 /\ old # 0
  <2>1. new = RemovePlugin(received)
    BY <1>2, <1>4
  <2> QED
    BY <1>1, <1>4, <2>1, RemoveEffect DEF Right
<1>5. CASE ~(v # 0 /\ old # v) /\ ~(v = 0 /\ old # 0)
  <2>1. new = received /\ old = v
    BY <1>2, <1>5
  <2>2. \A w \in Versions : Running(at, w) => Running(new, w)
    BY <1>1, <2>1 DEF Running
  <2>3. Blank(at) => Blank(new)
    BY <1>1, <2>1 DEF Blank
  <2> QED
    BY <1>1, <2>1, <2>2, <2>3 DEF Right
<1> QED
  BY <1>3, <1>4, <1>5

\* The only script runs.
LEMMA ScriptOnPage ==
  ASSUME NEW at \in PageRecord, NEW i \in DOMAIN at.loading, NEW p, NEW changed, NEW new,
         new = InitializePlugin(i, at)
  PROVE  /\ new \in PageRecord /\ new.manifest = at.manifest
         /\ Right(at, p, changed) => Right(new, p, changed)
<1>1. at.loading[i] \in Versions /\ RemoveAt(at.loading, i) \in Seq(Versions)
      /\ Append(at.components, at.loading[i]) \in Seq(Versions)
  BY FieldsOfPlugin, WithoutOne
<1>0. at = [manifest |-> at.manifest, loaded |-> at.loaded, loading |-> at.loading,
            components |-> at.components, handler |-> at.handler]
      /\ at.manifest \in Enabled /\ at.loaded \in BOOLEAN
  BY FieldsOfPlugin
<1>2. new = [manifest |-> at.manifest, loaded |-> at.loaded, loading |-> RemoveAt(at.loading, i),
             components |-> Append(at.components, at.loading[i]), handler |-> at.loading[i]]
  BY <1>0 DEF InitializePlugin
<1>3. new \in PageRecord
  BY <1>0, <1>1, <1>2 DEF PageRecord, Enabled
<1>4. ASSUME NEW w \in Versions, Running(at, w)
      PROVE  Running(new, w)
  <2>1. at.loading = <<w>> /\ at.components = <<>>
    BY <1>4 DEF Running
  <2>2. i = 1 /\ at.loading[i] = w
    BY <2>1
  <2>3. RemoveAt(at.loading, i) = <<>> /\ Append(at.components, at.loading[i]) = <<w>>
    BY <2>1, <2>2, WithoutTheOnly
  <2> QED
    BY <1>2, <1>4, <2>2, <2>3 DEF Running
<1>5. ~Blank(at)
  BY DEF Blank
<1>6. new.manifest = at.manifest
  BY <1>2
<1> QED
  BY <1>3, <1>4, <1>5, <1>6 DEF Right

----------------------------------------------------------------------------
(* Plugins: the actions.                                                   *)

\* The server and the lists, as the actions leave them.
LEMMA PluginTypesParts ==
  ASSUME PluginTypes
  PROVE  /\ \A p \in Plugins : enabled[p] \in Enabled /\ page[p] \in PageRecord
         /\ \A s \in syncs : /\ s.id \in Nat /\ s.answered \in BOOLEAN
                             /\ s.old \in [Plugins -> Enabled] /\ s.new \in [Plugins -> Enabled]
                             /\ s = [id |-> s.id, old |-> s.old, answered |-> s.answered, new |-> s.new]
         /\ \A i \in DOMAIN events : events[i].plugin \in Plugins /\ events[i].version \in Enabled
         /\ uses = [changes |-> uses.changes, syncs |-> uses.syncs, drops |-> uses.drops,
                    broken |-> uses.broken]
         /\ uses.changes \in Nat /\ uses.syncs \in Nat /\ uses.drops \in Nat /\ uses.broken \in Nat
         /\ None \in [Plugins -> Enabled] /\ Manifests \in [Plugins -> Enabled]
<1>1. \A p \in Plugins : enabled[p] \in Enabled /\ page[p] \in PageRecord
  BY DEF PluginTypes
<1>2. \A s \in syncs : /\ s.id \in Nat /\ s.answered \in BOOLEAN
                       /\ s.old \in [Plugins -> Enabled] /\ s.new \in [Plugins -> Enabled]
                       /\ s = [id |-> s.id, old |-> s.old, answered |-> s.answered, new |-> s.new]
  <2> SUFFICES ASSUME NEW s \in syncs
               PROVE  /\ s.id \in Nat /\ s.answered \in BOOLEAN
                      /\ s.old \in [Plugins -> Enabled] /\ s.new \in [Plugins -> Enabled]
                      /\ s = [id |-> s.id, old |-> s.old, answered |-> s.answered, new |-> s.new]
    OBVIOUS
  <2>1. s \in ListRecord
    BY DEF PluginTypes
  <2> QED
    BY <2>1 DEF ListRecord
<1>3. \A i \in DOMAIN events : events[i].plugin \in Plugins /\ events[i].version \in Enabled
  <2>1. events \in Seq([plugin : Plugins, version : Enabled])
    BY DEF PluginTypes
  <2> DEFINE Notice == [plugin : Plugins, version : Enabled]
  <2>2. \A e \in Notice : e.plugin \in Plugins /\ e.version \in Enabled
    OBVIOUS
  <2>3. events \in Seq(Notice)
    BY <2>1
  <2> HIDE DEF Notice
  <2>4. \A i \in DOMAIN events : events[i] \in Notice
    BY <2>3
  <2> QED
    BY <2>2, <2>4
<1>4. /\ uses = [changes |-> uses.changes, syncs |-> uses.syncs, drops |-> uses.drops, broken |-> uses.broken]
      /\ uses.changes \in Nat /\ uses.syncs \in Nat /\ uses.drops \in Nat /\ uses.broken \in Nat
  BY DEF PluginTypes
<1>5. None \in [Plugins -> Enabled]
  BY DEF None, Enabled
<1>6. Manifests \in [Plugins -> Enabled]
  BY <1>1, FieldsOfPlugin DEF Manifests
<1> QED
  BY <1>1, <1>2, <1>3, <1>4, <1>5, <1>6

\* The types of the bounds that are used.
LEMMA UsesTypes ==
  ASSUME PluginTypes
  PROVE  /\ [uses EXCEPT !.changes = @ + 1] \in [changes : Nat, syncs : Nat, drops : Nat, broken : Nat]
         /\ [uses EXCEPT !.syncs = @ + 1] \in [changes : Nat, syncs : Nat, drops : Nat, broken : Nat]
         /\ [uses EXCEPT !.drops = @ + 1] \in [changes : Nat, syncs : Nat, drops : Nat, broken : Nat]
         /\ [uses EXCEPT !.broken = @ + 1] \in [changes : Nat, syncs : Nat, drops : Nat, broken : Nat]
BY DEF PluginTypes

LEMMA ChangeInv ==
  ASSUME PluginInv, NEW p \in Plugins, NEW v \in Enabled, Change(p, v)
  PROVE  PluginInv'
<1> DEFINE event == [plugin |-> p, version |-> v]
           added == Append(events, event)
<1>1. PluginTypes /\ events \in Seq([plugin : Plugins, version : Enabled])
  BY DEF PluginInv, PluginTypes
<1>2. /\ UNCHANGED <<online, page, syncs, upgraded, raced>>
      /\ enabled' = [enabled EXCEPT ![p] = v]
      /\ uses' = [uses EXCEPT !.changes = @ + 1]
  BY DEF Change
<1>3. event \in [plugin : Plugins, version : Enabled] /\ event.plugin = p /\ event.version = v
  OBVIOUS
<1>4. /\ online => events' = added /\ missed' = missed
      /\ ~online => events' = events /\ missed' = missed \cup {p} /\ events = <<>>
  BY DEF Change, PluginInv, NoneOffline
<1> HIDE DEF event
<1>5. /\ added \in Seq([plugin : Plugins, version : Enabled])
      /\ DOMAIN events \subseteq DOMAIN added /\ Len(events) + 1 \in DOMAIN added
      /\ \A i \in DOMAIN added : i = Len(events) + 1 \/ (i \in DOMAIN events /\ i < Len(events) + 1)
      /\ added[Len(events) + 1] = event
      /\ \A i \in DOMAIN events : added[i] = events[i]
  BY <1>1, <1>3
<1> HIDE DEF added
<1>6. enabled'[p] = v /\ \A q \in Plugins : q # p => enabled'[q] = enabled[q]
  BY <1>1, <1>2 DEF PluginTypes
<1>7. PluginTypes'
  <2>1. events' \in Seq([plugin : Plugins, version : Enabled])
    BY <1>1, <1>4, <1>5 DEF PluginTypes
  <2>2. uses' \in [changes : Nat, syncs : Nat, drops : Nat, broken : Nat]
    BY <1>1, <1>2, UsesTypes
  <2> QED
    BY <1>1, <1>2, <2>1, <2>2 DEF PluginTypes
<1>8. LastEventHolds'
  <2>1. CASE online
    <3> SUFFICES ASSUME NEW i \in DOMAIN added
                 PROVE  \/ \E j \in DOMAIN added : j > i /\ added[j].plugin = added[i].plugin
                        \/ added[i].version = enabled'[added[i].plugin]
      BY <1>4, <2>1 DEF LastEventHolds
    <3>1. CASE i = Len(events) + 1
      BY <1>3, <1>5, <1>6, <3>1
    <3>2. CASE i \in DOMAIN events /\ i < Len(events) + 1
      <4>1. CASE events[i].plugin = p
        BY <1>3, <1>5, <3>2, <4>1
      <4>2. CASE events[i].plugin # p
        <5>1. events[i].plugin \in Plugins
          BY <1>1, <3>2, PluginTypesParts
        <5>2. \/ \E j \in DOMAIN events : j > i /\ events[j].plugin = events[i].plugin
              \/ events[i].version = enabled[events[i].plugin]
          BY <3>2 DEF PluginInv, LastEventHolds
        <5> QED
          BY <1>5, <1>6, <3>2, <4>2, <5>1, <5>2
      <4> QED
        BY <4>1, <4>2
    <3> QED
      BY <1>5, <3>1, <3>2
  <2>2. CASE ~online
    BY <1>4, <2>2 DEF LastEventHolds
  <2> QED
    BY <2>1, <2>2
<1>9. NoneOffline' /\ RunsOnce' /\ ChangesSeen'
  BY <1>2, <1>4 DEF PluginInv, NoneOffline, RunsOnce, ChangesSeen
<1>10. FollowsOrWill'
  <2> SUFFICES ASSUME NEW q \in Plugins \ (missed' \cup raced)
               PROVE  \/ \E i \in DOMAIN events' : events'[i].plugin = q
                      \/ \E s \in syncs : ~s.answered
                      \/ \E s \in syncs : s.answered /\ s.new[q] = enabled'[q]
                      \/ syncs = {} /\ page[q].manifest = enabled'[q]
    BY <1>2 DEF FollowsOrWill
  <2>1. CASE q = p
    BY <1>3, <1>4, <1>5, <2>1
  <2>2. CASE q # p
    <3>1. q \notin missed
      BY <1>4
    <3>2. \/ \E i \in DOMAIN events : events[i].plugin = q
          \/ \E s \in syncs : ~s.answered
          \/ \E s \in syncs : s.answered /\ s.new[q] = enabled[q]
          \/ syncs = {} /\ page[q].manifest = enabled[q]
      BY <3>1 DEF PluginInv, FollowsOrWill
    <3>3. enabled'[q] = enabled[q]
      BY <1>6, <2>2
    <3>4. (\E i \in DOMAIN events : events[i].plugin = q) => \E i \in DOMAIN events' : events'[i].plugin = q
      BY <1>4, <1>5
    <3> QED
      BY <3>2, <3>3, <3>4
  <2> QED
    BY <2>1, <2>2
<1> QED
  BY <1>7, <1>8, <1>9, <1>10 DEF PluginInv

LEMMA SocketInv ==
  ASSUME PluginInv, Disconnect \/ FirstConnect
  PROVE  PluginInv'
<1>1. UNCHANGED <<enabled, page, syncs, upgraded, raced>>
  BY DEF Disconnect, FirstConnect
<1>2. RunsOnce' /\ ChangesSeen'
  BY <1>1 DEF PluginInv, RunsOnce, ChangesSeen
<1>3. CASE Disconnect
  <2>1. /\ online' = FALSE /\ events' = <<>> /\ uses' = [uses EXCEPT !.drops = @ + 1]
        /\ missed' = missed \cup {events[i].plugin : i \in DOMAIN events}
    BY <1>3 DEF Disconnect, ToSet
  <2>2. <<>> \in Seq([plugin : Plugins, version : Enabled]) /\ DOMAIN <<>> = {}
    OBVIOUS
  <2>3. PluginTypes'
    BY <1>1, <2>1, <2>2, UsesTypes DEF PluginInv, PluginTypes
  <2>4. LastEventHolds' /\ NoneOffline'
    BY <2>1, <2>2 DEF LastEventHolds, NoneOffline
  <2>5. FollowsOrWill'
    BY <1>1, <2>1 DEF PluginInv, FollowsOrWill
  <2> QED
    BY <1>2, <2>3, <2>4, <2>5 DEF PluginInv
<1>4. CASE FirstConnect
  <2>1. online' = TRUE /\ UNCHANGED <<events, missed, uses>>
    BY <1>4 DEF FirstConnect
  <2> QED
    BY <1>1, <1>2, <2>1 DEF PluginInv, PluginTypes, LastEventHolds, NoneOffline, FollowsOrWill
<1> QED
  BY <1>3, <1>4

\* A list is asked for, by reconnect() or by the periodic synchronization.
LEMMA AskInv ==
  ASSUME PluginInv, Reconnect \/ PeriodicList
  PROVE  PluginInv'
<1> DEFINE request == Request(uses.syncs, Manifests)
<1>1. /\ UNCHANGED <<enabled, events, page, missed, upgraded, raced>>
      /\ syncs' = syncs \cup {request} /\ uses' = [uses EXCEPT !.syncs = @ + 1]
      /\ online' = online \/ (~online /\ online' = TRUE)
  BY DEF Reconnect, PeriodicList, AskForList
<1>2. PluginTypes
  BY DEF PluginInv
<1>3. request \in ListRecord /\ request.answered = FALSE
  BY <1>2, PluginTypesParts DEF Request, ListRecord
<1> HIDE DEF request
<1>4. PluginTypes'
  BY <1>1, <1>2, <1>3, UsesTypes DEF PluginTypes
<1>5. LastEventHolds' /\ NoneOffline' /\ RunsOnce'
  BY <1>1 DEF PluginInv, LastEventHolds, NoneOffline, RunsOnce
<1>6. ChangesSeen'
  BY <1>1, <1>3 DEF PluginInv, ChangesSeen
<1>7. FollowsOrWill'
  BY <1>1, <1>3 DEF FollowsOrWill
<1> QED
  BY <1>4, <1>5, <1>6, <1>7 DEF PluginInv

LEMMA AnswerInv ==
  ASSUME PluginInv, NEW s \in syncs, AnswerPlugins(s)
  PROVE  PluginInv'
<1> DEFINE answer == [s EXCEPT !.answered = TRUE, !.new = enabled]
<1>1. PluginTypes
  BY DEF PluginInv
<1>2. /\ UNCHANGED <<enabled, events, online, page, raced, uses>>
      /\ syncs' = (syncs \ {s}) \cup {answer}
      /\ missed' = {}
      /\ upgraded' = upgraded \cup {p \in Plugins : enabled[p] # 0 /\ s.old[p] \notin {0, enabled[p]}}
  BY DEF AnswerPlugins
<1>3. /\ answer \in ListRecord /\ answer.answered /\ answer.new = enabled /\ answer.old = s.old
  <2>1. /\ s.id \in Nat /\ s.old \in [Plugins -> Enabled] /\ enabled \in [Plugins -> Enabled]
        /\ s = [id |-> s.id, old |-> s.old, answered |-> s.answered, new |-> s.new]
    BY <1>1, PluginTypesParts DEF PluginTypes
  <2>2. s \in ListRecord
    BY <1>1 DEF PluginTypes
  <2> QED
    BY <2>1, <2>2 DEF ListRecord
<1> HIDE DEF answer
<1>4. PluginTypes'
  BY <1>1, <1>2, <1>3 DEF PluginTypes
<1>5. LastEventHolds' /\ NoneOffline'
  BY <1>2 DEF PluginInv, LastEventHolds, NoneOffline
<1>6. RunsOnce'
  <2> SUFFICES ASSUME NEW p \in Plugins \ raced
               PROVE  Right(page[p], p, upgraded')
    BY <1>2 DEF RunsOnce
  <2>1. Right(page[p], p, upgraded) /\ (p \in upgraded => p \in upgraded')
    BY <1>2 DEF PluginInv, RunsOnce
  <2> QED
    BY <2>1 DEF Right
<1>7. ChangesSeen'
  BY <1>2, <1>3 DEF PluginInv, ChangesSeen
<1>8. FollowsOrWill'
  BY <1>2, <1>3 DEF FollowsOrWill
<1> QED
  BY <1>4, <1>5, <1>6, <1>7, <1>8 DEF PluginInv

LEMMA ListFailedInv ==
  ASSUME PluginInv, NEW s \in syncs, ListFailed(s)
  PROVE  PluginInv'
<1>1. /\ UNCHANGED <<enabled, events, online, page, upgraded, raced>>
      /\ syncs' = syncs \ {s} /\ missed' = Plugins /\ uses' = [uses EXCEPT !.broken = @ + 1]
  BY DEF ListFailed
<1>2. PluginTypes'
  BY <1>1, UsesTypes DEF PluginInv, PluginTypes
<1>3. LastEventHolds' /\ NoneOffline' /\ RunsOnce' /\ ChangesSeen'
  BY <1>1 DEF PluginInv, LastEventHolds, NoneOffline, RunsOnce, ChangesSeen
<1>4. FollowsOrWill'
  BY <1>1 DEF FollowsOrWill
<1> QED
  BY <1>2, <1>3, <1>4 DEF PluginInv

LEMMA PluginsReceivedInv ==
  ASSUME PluginInv, NEW s \in syncs, PluginsReceived(s)
  PROVE  PluginInv'
<1>1. PluginTypes
  BY DEF PluginInv
<1>2. /\ UNCHANGED <<enabled, events, online, missed, upgraded, uses>>
      /\ s.answered /\ syncs' = syncs \ {s}
      /\ page' = [p \in Plugins |-> Synchronized(s.old[p], s.new[p], page[p])]
      /\ raced \subseteq raced'
      /\ \A p \in Plugins \ raced' :
           /\ ~(s.old[p] # 0 /\ s.new[p] = 0 /\ page[p].loading # <<>>)
           /\ s.old[p] = page[p].manifest
           /\ \A o \in syncs : o.answered => o.new[p] = s.new[p]
  BY DEF PluginsReceived, IsLoading
<1>3. ASSUME NEW p \in Plugins
      PROVE  /\ page'[p] \in PageRecord /\ page'[p].manifest = s.new[p]
             /\ p \notin raced' => Right(page'[p], p, upgraded)
  <2>1. page[p] \in PageRecord /\ s.old[p] \in Enabled /\ s.new[p] \in Enabled
    BY <1>1, PluginTypesParts
  <2>2. page'[p] = Synchronized(s.old[p], s.new[p], page[p])
    BY <1>2
  <2>3. p \notin raced' => Right(page[p], p, upgraded)
    BY <1>2 DEF PluginInv, RunsOnce
  <2>4. p \in upgraded \/ s.new[p] = 0 \/ s.old[p] \in {0, s.new[p]}
    BY <1>2 DEF PluginInv, ChangesSeen
  <2> QED
    BY <1>2, <2>1, <2>2, <2>3, <2>4, ListOnPage
<1>4. PluginTypes'
  <2>1. page' \in [Plugins -> PageRecord]
    BY <1>2, <1>3
  <2> QED
    BY <1>1, <1>2, <2>1 DEF PluginTypes
<1>5. LastEventHolds' /\ NoneOffline'
  BY <1>2 DEF PluginInv, LastEventHolds, NoneOffline
<1>6. RunsOnce'
  BY <1>2, <1>3 DEF RunsOnce
<1>7. ChangesSeen'
  BY <1>2 DEF PluginInv, ChangesSeen
<1>8. FollowsOrWill'
  <2> SUFFICES ASSUME NEW p \in Plugins \ (missed \cup raced')
               PROVE  \/ \E i \in DOMAIN events : events[i].plugin = p
                      \/ \E o \in syncs' : ~o.answered
                      \/ \E o \in syncs' : o.answered /\ o.new[p] = enabled[p]
                      \/ syncs' = {} /\ page'[p].manifest = enabled[p]
    BY <1>2 DEF FollowsOrWill
  <2>1. \/ \E i \in DOMAIN events : events[i].plugin = p
        \/ \E o \in syncs : ~o.answered
        \/ \E o \in syncs : o.answered /\ o.new[p] = enabled[p]
    BY <1>2 DEF PluginInv, FollowsOrWill
  <2>2. CASE \E o \in syncs : ~o.answered
    BY <1>2, <2>2
  <2>3. CASE \E o \in syncs : o.answered /\ o.new[p] = enabled[p]
    <3>1. s.new[p] = enabled[p]
      BY <1>2, <2>3
    <3>2. CASE syncs' = {}
      BY <1>3, <3>1, <3>2
    <3>3. CASE syncs' # {}
      BY <1>2, <3>1, <3>3
    <3> QED
      BY <3>2, <3>3
  <2> QED
    BY <2>1, <2>2, <2>3
<1> QED
  BY <1>4, <1>5, <1>6, <1>7, <1>8 DEF PluginInv

LEMMA PluginEventInv ==
  ASSUME PluginInv, PluginEvent
  PROVE  PluginInv'
<1> DEFINE e == Head(events)
           p == e.plugin
<1>1. /\ PluginTypes /\ events \in Seq([plugin : Plugins, version : Enabled]) /\ events # <<>>
      /\ UNCHANGED <<enabled, online, syncs, missed, upgraded, uses>> /\ events' = Tail(events)
  BY DEF PluginInv, PluginTypes, PluginEvent
<1>2. /\ page' = [page EXCEPT ![p] = IF e.version = 0 THEN RemovePlugin(page[p])
                                     ELSE EnablePlugin(e.version, page[p])]
      /\ raced \subseteq raced'
      /\ p \notin raced' => syncs = {} /\ page[p].loading = <<>> /\ (e.version = 0 \/ ~page[p].loaded)
  BY DEF PluginEvent, IsLoading
<1>3. /\ 1 \in DOMAIN events /\ e = events[1] /\ Tail(events) \in Seq([plugin : Plugins, version : Enabled])
      /\ \A i \in DOMAIN Tail(events) : i \in Nat /\ i + 1 \in DOMAIN events /\ Tail(events)[i] = events[i + 1]
      /\ \A i \in DOMAIN events : i \in Nat /\ (i = 1 \/ (i > 1 /\ i - 1 \in DOMAIN Tail(events)
                                                          /\ Tail(events)[i - 1] = events[i]))
  BY <1>1
<1>4. p \in Plugins /\ e.version \in Enabled /\ page[p] \in PageRecord
  BY <1>1, <1>3, PluginTypesParts
<1>5. \A q \in Plugins : q # p => page'[q] = page[q]
  BY <1>1, <1>2 DEF PluginTypes
<1>6. /\ e.version = 0 => page'[p] = RemovePlugin(page[p])
      /\ e.version # 0 => page'[p] = EnablePlugin(e.version, page[p])
  BY <1>1, <1>2, <1>4 DEF PluginTypes
<1>7. /\ page'[p] \in PageRecord /\ page'[p].manifest = e.version
      /\ p \notin raced' => Right(page'[p], p, upgraded)
  <2>1. p \notin raced' => Right(page[p], p, upgraded)
    BY <1>2, <1>4 DEF PluginInv, RunsOnce
  <2> DEFINE v == e.version
             at == page[p]
             new == page'[p]
  <2>2. /\ at \in PageRecord /\ v \in Enabled
        /\ v = 0 => new = RemovePlugin(at)
        /\ v # 0 => new = EnablePlugin(v, at)
    BY <1>4, <1>6
  <2>3. p \notin raced' => Right(at, p, upgraded) /\ at.loading = <<>> /\ (v = 0 \/ ~at.loaded)
    BY <1>2, <2>1
  <2> HIDE DEF e, p, v, at, new
  <2>4. /\ new \in PageRecord /\ new.manifest = v
        /\ Right(at, p, upgraded) /\ at.loading = <<>> /\ (v = 0 \/ ~at.loaded) => Right(new, p, upgraded)
    BY <2>2, EventOnPage
  <2> QED
    BY <2>3, <2>4 DEF v, new
<1> HIDE DEF e
<1>8. PluginTypes'
  <2>1. page' \in [Plugins -> PageRecord]
    BY <1>1, <1>2, <1>4, <1>6, <1>7 DEF PluginTypes
  <2> QED
    BY <1>1, <1>3, <2>1 DEF PluginTypes
<1>9. LastEventHolds'
  <2> SUFFICES ASSUME NEW i \in DOMAIN Tail(events)
               PROVE  \/ \E j \in DOMAIN Tail(events) : j > i /\ Tail(events)[j].plugin = Tail(events)[i].plugin
                      \/ Tail(events)[i].version = enabled[Tail(events)[i].plugin]
    BY <1>1 DEF LastEventHolds
  <2>1. i \in Nat /\ i + 1 \in DOMAIN events /\ Tail(events)[i] = events[i + 1]
    BY <1>3
  <2>2. \/ \E j \in DOMAIN events : j > i + 1 /\ events[j].plugin = events[i + 1].plugin
        \/ events[i + 1].version = enabled[events[i + 1].plugin]
    BY <2>1 DEF PluginInv, LastEventHolds
  <2>3. CASE \E j \in DOMAIN events : j > i + 1 /\ events[j].plugin = events[i + 1].plugin
    <3>1. PICK j \in DOMAIN events : j > i + 1 /\ events[j].plugin = events[i + 1].plugin
      BY <2>3
    <3>2. j \in Nat /\ j - 1 \in DOMAIN Tail(events) /\ Tail(events)[j - 1] = events[j] /\ j - 1 > i
      BY <1>3, <2>1, <3>1
    <3> QED
      BY <2>1, <3>1, <3>2
  <2> QED
    BY <2>1, <2>2, <2>3
<1>10. NoneOffline'
  BY <1>1 DEF PluginInv, NoneOffline
<1>11. RunsOnce'
  BY <1>1, <1>2, <1>5, <1>7 DEF PluginInv, RunsOnce
<1>12. ChangesSeen'
  BY <1>1 DEF PluginInv, ChangesSeen
<1>13. FollowsOrWill'
  <2> SUFFICES ASSUME NEW q \in Plugins \ (missed \cup raced'),
                      ~\E i \in DOMAIN Tail(events) : Tail(events)[i].plugin = q
               PROVE  \/ \E s \in syncs : ~s.answered
                      \/ \E s \in syncs : s.answered /\ s.new[q] = enabled[q]
                      \/ syncs = {} /\ page'[q].manifest = enabled[q]
    BY <1>1 DEF FollowsOrWill
  <2>1. CASE q = p
    <3>1. \A j \in DOMAIN events : j > 1 => events[j].plugin # p
      BY <1>3, <2>1
    <3>2. e.version = enabled[p]
      BY <1>3, <3>1 DEF PluginInv, LastEventHolds
    <3> QED
      BY <1>2, <1>7, <2>1, <3>2
  <2>2. CASE q # p
    <3>1. ~\E i \in DOMAIN events : events[i].plugin = q
      BY <1>3, <2>2
    <3> QED
      BY <1>2, <1>5, <2>2, <3>1 DEF PluginInv, FollowsOrWill
  <2> QED
    BY <2>1, <2>2
<1> QED
  BY <1>8, <1>9, <1>10, <1>11, <1>12, <1>13 DEF PluginInv

LEMMA ScriptInv ==
  ASSUME PluginInv, NEW p \in Plugins, NEW i \in DOMAIN page[p].loading,
         ScriptLoaded(p, i) \/ ScriptFailed(p, i)
  PROVE  PluginInv'
<1>1. PluginTypes /\ page[p] \in PageRecord
  BY PluginTypesParts DEF PluginInv
<1>2. UNCHANGED <<enabled, events, online, syncs, missed, upgraded>> /\ raced \subseteq raced'
  BY DEF ScriptLoaded, ScriptFailed
<1>3. uses' \in [changes : Nat, syncs : Nat, drops : Nat, broken : Nat]
  BY <1>1, UsesTypes DEF ScriptLoaded, ScriptFailed, PluginTypes
<1>4. /\ page' \in [Plugins -> PageRecord] /\ page'[p].manifest = page[p].manifest
      /\ p \notin raced' /\ Right(page[p], p, upgraded) => Right(page'[p], p, upgraded)
      /\ \A q \in Plugins : q # p => page'[q] = page[q]
  <2>1. CASE ScriptLoaded(p, i)
    <3> DEFINE at == InitializePlugin(i, page[p])
    <3>1. page' = [page EXCEPT ![p] = at]
      BY <2>1 DEF ScriptLoaded
    <3>2. /\ at \in PageRecord /\ at.manifest = page[p].manifest
          /\ Right(page[p], p, upgraded) => Right(at, p, upgraded)
      BY <1>1, ScriptOnPage
    <3> HIDE DEF at
    <3> QED
      BY <1>1, <3>1, <3>2 DEF PluginTypes
  <2>2. CASE ScriptFailed(p, i)
    <3> DEFINE at == [page[p] EXCEPT !.loading = RemoveAt(page[p].loading, i)]
    <3>1. page' = [page EXCEPT ![p] = at] /\ p \in raced'
      BY <2>2 DEF ScriptFailed
    <3>2. at \in PageRecord /\ at.manifest = page[p].manifest
      <4>1. RemoveAt(page[p].loading, i) \in Seq(Versions)
        BY <1>1, FieldsOfPlugin, WithoutOne
      <4> QED
        BY <1>1, <4>1 DEF PageRecord
    <3> HIDE DEF at
    <3> QED
      BY <1>1, <3>1, <3>2 DEF PluginTypes
  <2> QED
    BY <2>1, <2>2
<1>5. PluginTypes'
  BY <1>1, <1>2, <1>3, <1>4 DEF PluginTypes
<1>6. LastEventHolds' /\ NoneOffline' /\ ChangesSeen'
  BY <1>2 DEF PluginInv, LastEventHolds, NoneOffline, ChangesSeen
<1>7. RunsOnce'
  BY <1>2, <1>4 DEF PluginInv, RunsOnce
<1>8. \A q \in Plugins : page'[q].manifest = page[q].manifest
  BY <1>4
<1>9. FollowsOrWill'
  BY <1>2, <1>8 DEF PluginInv, FollowsOrWill
<1> QED
  BY <1>5, <1>6, <1>7, <1>9 DEF PluginInv

LEMMA PluginInitInv ==
  ASSUME PluginInit
  PROVE  PluginInv
<1>1. /\ enabled \in [Plugins -> Enabled] /\ events = <<>> /\ online = FALSE /\ page = PageInit
      /\ syncs = {Request(0, None)}
      /\ uses = [changes |-> 0, syncs |-> 1, drops |-> 0, broken |-> 0]
  BY DEF PluginInit, Enabled
<1>2. Request(0, None) \in ListRecord /\ Request(0, None).answered = FALSE
  <2>1. None \in [Plugins -> Enabled]
    BY DEF None, Enabled
  <2> QED
    BY <2>1 DEF Request, ListRecord
<1>3. <<>> \in Seq(Versions) /\ <<>> \in Seq([plugin : Plugins, version : Enabled]) /\ DOMAIN <<>> = {}
      /\ 0 \in Enabled
  BY DEF Enabled
<1>4. ASSUME NEW p \in Plugins
      PROVE  page[p] \in PageRecord /\ Right(page[p], p, upgraded)
  <2>1. page[p] = [manifest |-> 0, loaded |-> FALSE, loading |-> <<>>, components |-> <<>>, handler |-> 0]
    BY <1>1 DEF PageInit
  <2>2. page[p] \in PageRecord
    BY <1>3, <2>1 DEF PageRecord
  <2> QED
    BY <2>1, <2>2 DEF Right, Blank
<1>5. page \in [Plugins -> PageRecord]
  BY <1>1, <1>4 DEF PageInit
<1>6. PluginTypes
  BY <1>1, <1>2, <1>3, <1>5 DEF PluginTypes
<1>7. LastEventHolds /\ NoneOffline
  BY <1>1, <1>3 DEF LastEventHolds, NoneOffline
<1>8. RunsOnce /\ ChangesSeen /\ FollowsOrWill
  BY <1>1, <1>2, <1>4 DEF RunsOnce, ChangesSeen, FollowsOrWill
<1> QED
  BY <1>6, <1>7, <1>8 DEF PluginInv

LEMMA PluginNextInv ==
  ASSUME PluginInv, [PluginNext]_pluginVars
  PROVE  PluginInv'
<1>1. CASE \E p \in Plugins, v \in Versions \cup {0} : Change(p, v)
  BY <1>1, ChangeInv DEF Enabled
<1>2. CASE Disconnect \/ FirstConnect
  BY <1>2, SocketInv
<1>3. CASE Reconnect \/ PeriodicList
  BY <1>3, AskInv
<1>4. CASE \E s \in syncs : AnswerPlugins(s) \/ PluginsReceived(s) \/ ListFailed(s)
  BY <1>4, AnswerInv, PluginsReceivedInv, ListFailedInv
<1>5. CASE PluginEvent
  BY <1>5, PluginEventInv
<1>6. CASE \E p \in Plugins : \E i \in DOMAIN page[p].loading : ScriptLoaded(p, i) \/ ScriptFailed(p, i)
  BY <1>6, ScriptInv
<1>7. CASE UNCHANGED pluginVars
  BY <1>7 DEF pluginVars, PluginInv, PluginTypes, LastEventHolds, NoneOffline, RunsOnce, ChangesSeen,
              FollowsOrWill
<1> QED
  BY <1>1, <1>2, <1>3, <1>4, <1>5, <1>6, <1>7 DEF PluginNext

----------------------------------------------------------------------------
(* Plugins: the theorems.                                                  *)

\* The inductive invariant.
THEOREM PluginInvariant == PluginSpec => []PluginInv
<1>1. PluginInit => PluginInv
  BY PluginInitInv
<1>2. PluginInv /\ [PluginNext]_pluginVars => PluginInv'
  BY PluginNextInv
<1> QED
  BY <1>1, <1>2, PTL DEF PluginSpec

\* Once everything has arrived, the page runs the plugins that the server has
\* enabled, each once and in the right version, but for the named exceptions.
THEOREM PluginsFollowServer == PluginSpec => []PluginsFollow
<1>1. PluginInv => PluginsFollow
  <2> SUFFICES ASSUME PluginInv, PageSettled, NEW p \in Plugins \ (missed \cup upgraded \cup raced)
               PROVE  /\ page[p].manifest = enabled[p]
                      /\ page[p].handler = enabled[p]
                      /\ page[p].components = IF enabled[p] = 0 THEN <<>> ELSE <<enabled[p]>>
    BY DEF PluginsFollow
  <2>1. events = <<>> /\ syncs = {} /\ page[p].loading = <<>>
    BY DEF PageSettled, IsLoading
  <2>2. page[p].manifest = enabled[p]
    <3>1. DOMAIN events = {}
      BY <2>1
    <3> QED
      BY <2>1, <3>1 DEF PluginInv, FollowsOrWill
  <2>3. Right(page[p], p, upgraded)
    BY DEF PluginInv, RunsOnce
  <2>4. \A w : <<w>> # <<>>
    OBVIOUS
  <2>5. CASE enabled[p] = 0
    BY <2>2, <2>3, <2>5 DEF Right, Blank
  <2>6. CASE enabled[p] # 0
    BY <2>1, <2>2, <2>3, <2>4, <2>6 DEF Right, Running
  <2> QED
    BY <2>2, <2>5, <2>6
<1> QED
  BY <1>1, PluginInvariant, PTL

\* A plugin has at most one script under way or initialized.
THEOREM PluginsLoadOnce == PluginSpec => []LoadedOnce
<1>1. PluginInv => LoadedOnce
  <2> SUFFICES ASSUME PluginInv, NEW p \in Plugins \ raced
               PROVE  Len(page[p].components) + Len(page[p].loading) <= 1
    BY DEF LoadedOnce
  <2>1. Right(page[p], p, upgraded)
    BY DEF PluginInv, RunsOnce
  <2>2. CASE Blank(page[p])
    BY <2>2 DEF Blank
  <2>3. CASE \E w \in Versions : Running(page[p], w)
    <3>1. PICK w \in Versions : Running(page[p], w)
      BY <2>3
    <3>2. CASE page[p].loading = <<w>> /\ page[p].components = <<>>
      BY <3>2
    <3>3. CASE page[p].loading = <<>> /\ page[p].components = <<w>>
      BY <3>3
    <3> QED
      BY <3>1, <3>2, <3>3 DEF Running
  <2> QED
    BY <2>1, <2>2, <2>3 DEF Right
<1> QED
  BY <1>1, PluginInvariant, PTL

----------------------------------------------------------------------------
(* Suggestions: the invariant.                                             *)

\* A request of the sequence, and the records of the two providers.
RequestRecord(r) ==
  /\ r \in [provider : {r.provider}, query : {r.query}, complete : BOOLEAN, waiting : BOOLEAN]
  /\ r.waiting => r.provider = "users"

Records(S) == [{"users", "channels"} -> [prefix : S, complete : BOOLEAN, started : BOOLEAN]]
LatestRecords(records) == records \in Records({records["users"].prefix, records["channels"].prefix})

SuggestTypes ==
  /\ asked \in Seq(ToSet(asked))
  /\ \A i \in DOMAIN asked : RequestRecord(asked[i])
  /\ LatestRecords(latest)

\* A request of p for q is under way.
Pending(p, q) == \E i \in DOMAIN asked : asked[i].provider = p /\ asked[i].query = q

\* Commands is asked only for commands.
CommandsOnly == \A i \in DOMAIN asked : asked[i].provider = "commands" => asked[i].query # Nothing

\* Once the pause is over the provider that handles the text has its query, or
\* awaits nothing.
LatestIsCurrent ==
  \A p \in {"users", "channels"} :
     timer = {} /\ Handler(pretext) = p /\ (p = "channels" => latest[p].started)
       => latest[p].prefix = Query(p, pretext)

\* What the providers have not seen answered is under way, or has failed.
UsersAwaited ==
  latest["users"].started /\ ~latest["users"].complete => Pending("users", latest["users"].prefix)

ChannelsAwaited ==
  timer = {} /\ Handler(pretext) = "channels" /\ "failed" \notin stray
  /\ latest["channels"].started /\ ~latest["channels"].complete
    => Pending("channels", latest["channels"].prefix)

\* The list is that of the text.
Fits(p) == Begins(p, text) # 0 /\ list.matched = Query(p, text) /\ list.spinner = {}

\* The request whose answer will be the list of the text is under way.
ToCome(p) ==
  /\ Query(p, text) # Nothing /\ Pending(p, Query(p, text))
  /\ p # "commands" => /\ Handler(text) = p /\ text = pretext
                       /\ latest[p].started /\ latest[p].prefix = Query(p, text)

FitsOrWill ==
  timer = {} /\ stray = {} /\ list # Cleared => \E p \in Providers : Fits(p) \/ ToCome(p)

SuggestInv ==
  /\ SuggestTypes /\ CommandsOnly /\ LatestIsCurrent /\ UsersAwaited /\ ChannelsAwaited /\ FitsOrWill

----------------------------------------------------------------------------
(* Suggestions: the sequence of requests and the records of the providers. *)

LEMMA OfItsElements ==
  ASSUME NEW S, NEW q \in Seq(S)
  PROVE  q \in Seq(ToSet(q))
<1>1. \A i \in 1..Len(q) : q[i] \in ToSet(q)
  BY DEF ToSet
<1> QED
  BY <1>1

LEMMA OneRemoved ==
  ASSUME NEW S, NEW q \in Seq(S), NEW i \in DOMAIN q
  PROVE  /\ RemoveAt(q, i) \in Seq(S)
         /\ \A j \in DOMAIN RemoveAt(q, i) : \E k \in DOMAIN q : RemoveAt(q, i)[j] = q[k]
         /\ \A k \in DOMAIN q : k # i => \E j \in DOMAIN RemoveAt(q, i) : RemoveAt(q, i)[j] = q[k]
<1> DEFINE front == SubSeq(q, 1, i - 1)
           back == SubSeq(q, i + 1, Len(q))
<1>1. i \in 1..Len(q) /\ Len(q) \in Nat
  OBVIOUS
<1>2. /\ front \in Seq(S) /\ Len(front) = i - 1 /\ \A j \in 1..i - 1 : front[j] = q[j]
      /\ back \in Seq(S) /\ Len(back) = Len(q) - i /\ \A j \in 1..Len(q) - i : back[j] = q[j + i]
  BY <1>1
<1>3. RemoveAt(q, i) = front \o back
  BY DEF RemoveAt
<1> HIDE DEF front, back
<1> DEFINE r == front \o back
<1>4. /\ r \in Seq(S) /\ Len(r) = Len(q) - 1
      /\ \A j \in 1..Len(q) - 1 : r[j] = IF j < i THEN q[j] ELSE q[j + 1]
  BY <1>1, <1>2
<1> HIDE DEF r
<1>5. DOMAIN r = 1..Len(q) - 1 /\ DOMAIN q = 1..Len(q)
  BY <1>1, <1>4
<1>6. \A j \in DOMAIN r : \E k \in DOMAIN q : r[j] = q[k]
  <2> SUFFICES ASSUME NEW j \in DOMAIN r
               PROVE  \E k \in DOMAIN q : r[j] = q[k]
    OBVIOUS
  <2>1. j \in DOMAIN q /\ j + 1 \in DOMAIN q
    BY <1>1, <1>5
  <2> QED
    BY <1>4, <1>5, <2>1
<1>7. ASSUME NEW k \in DOMAIN q, k # i
      PROVE  \E j \in DOMAIN r : r[j] = q[k]
  <2>1. CASE k < i
    <3>1. k \in DOMAIN r /\ r[k] = q[k]
      BY <1>1, <1>4, <1>5, <2>1
    <3> QED
      BY <3>1
  <2>2. CASE k > i
    <3>1. k - 1 \in 1..Len(q) - 1 /\ ~(k - 1 < i) /\ k - 1 + 1 = k
      BY <1>1, <1>5, <2>2
    <3>2. k - 1 \in DOMAIN r /\ r[k - 1] = q[k]
      BY <1>4, <1>5, <3>1
    <3> QED
      BY <3>2
  <2> QED
    BY <1>1, <1>5, <1>7, <2>1, <2>2
<1> QED
  BY <1>3, <1>4, <1>6, <1>7 DEF r

\* Another request.
LEMMA AskEffect ==
  ASSUME SuggestTypes, NEW p, NEW q, NEW complete \in BOOLEAN, Ask(p, q, complete)
  PROVE  /\ asked' \in Seq(ToSet(asked'))
         /\ \A i \in DOMAIN asked' : RequestRecord(asked'[i])
         /\ \A i \in DOMAIN asked' : \/ i \in DOMAIN asked /\ asked'[i] = asked[i]
                                     \/ asked'[i].provider = p /\ asked'[i].query = q
         /\ \A o, u : Pending(o, u) => Pending(o, u)'
         /\ Pending(p, q)'
<1> DEFINE r == [provider |-> p, query |-> q, complete |-> complete, waiting |-> p = "users"]
<1>1. asked' = Append(asked, r) /\ asked \in Seq(ToSet(asked))
  BY DEF Ask, SuggestTypes
<1>2. r.provider = p /\ r.query = q /\ RequestRecord(r)
  BY DEF RequestRecord
<1> HIDE DEF r
<1>3. /\ asked' \in Seq(ToSet(asked) \cup {r})
      /\ DOMAIN asked \subseteq DOMAIN asked' /\ Len(asked) + 1 \in DOMAIN asked'
      /\ asked'[Len(asked) + 1] = r
      /\ \A i \in DOMAIN asked : asked'[i] = asked[i]
      /\ \A i \in DOMAIN asked' : i \in DOMAIN asked \/ i = Len(asked) + 1
  BY <1>1
<1>4. asked' \in Seq(ToSet(asked'))
  BY <1>3, OfItsElements
<1>5. \A i \in DOMAIN asked' : RequestRecord(asked'[i])
  BY <1>2, <1>3 DEF SuggestTypes
<1>6. \A o, u : Pending(o, u) => Pending(o, u)'
  BY <1>3 DEF Pending
<1>7. Pending(p, q)'
  BY <1>2, <1>3 DEF Pending
<1> QED
  BY <1>2, <1>3, <1>4, <1>5, <1>6, <1>7

\* A request that has been answered.
LEMMA AnsweredEffect ==
  ASSUME SuggestTypes, NEW i \in DOMAIN asked, Answered(i)
  PROVE  /\ asked' \in Seq(ToSet(asked'))
         /\ \A j \in DOMAIN asked' : RequestRecord(asked'[j])
         /\ \A j \in DOMAIN asked' : \E k \in DOMAIN asked : asked'[j] = asked[k]
         /\ \A o, u : Pending(o, u) /\ ~(asked[i].provider = o /\ asked[i].query = u) => Pending(o, u)'
<1>1. asked' = RemoveAt(asked, i) /\ asked \in Seq(ToSet(asked))
  BY DEF Answered, SuggestTypes
<1>2. /\ asked' \in Seq(ToSet(asked))
      /\ \A j \in DOMAIN asked' : \E k \in DOMAIN asked : asked'[j] = asked[k]
      /\ \A k \in DOMAIN asked : k # i => \E j \in DOMAIN asked' : asked'[j] = asked[k]
  BY <1>1, OneRemoved
<1>3. asked' \in Seq(ToSet(asked'))
  BY <1>2, OfItsElements
<1>4. \A j \in DOMAIN asked' : RequestRecord(asked'[j])
  BY <1>2 DEF SuggestTypes
<1>5. ASSUME NEW o, NEW u, Pending(o, u), ~(asked[i].provider = o /\ asked[i].query = u)
      PROVE  Pending(o, u)'
  <2>1. PICK k \in DOMAIN asked : asked[k].provider = o /\ asked[k].query = u
    BY <1>5 DEF Pending
  <2>2. k # i
    BY <1>5, <2>1
  <2> QED
    BY <1>2, <2>1, <2>2 DEF Pending
<1> QED
  BY <1>2, <1>3, <1>4, <1>5

LEMMA OfTheirPrefixes ==
  ASSUME NEW S, NEW records \in Records(S)
  PROVE  LatestRecords(records)
BY DEF Records, LatestRecords

LEMMA StartEffect ==
  ASSUME SuggestTypes, NEW p \in {"users", "channels"}, NEW q, Start(p, q)
  PROVE  /\ LatestRecords(latest')
         /\ latest'[p].prefix = q /\ ~latest'[p].complete /\ latest'[p].started
         /\ \A o \in {"users", "channels"} : o # p => latest'[o] = latest[o]
<1> DEFINE S == {latest["users"].prefix, latest["channels"].prefix}
<1>1. latest \in Records(S)
  BY DEF SuggestTypes, LatestRecords
<1>2. latest' = [latest EXCEPT ![p] = [prefix |-> q, complete |-> FALSE, started |-> TRUE]]
  BY DEF Start
<1> HIDE DEF S
<1>3. latest' \in Records(S \cup {q})
  BY <1>1, <1>2 DEF Records
<1>4. latest'[p] = [prefix |-> q, complete |-> FALSE, started |-> TRUE]
      /\ \A o \in {"users", "channels"} : o # p => latest'[o] = latest[o]
  BY <1>1, <1>2 DEF Records
<1> QED
  BY <1>3, <1>4, OfTheirPrefixes

LEMMA ResetEffect ==
  ASSUME SuggestTypes, NEW p \in {"users", "channels"}, Reset(p)
  PROVE  /\ LatestRecords(latest')
         /\ ~latest'[p].started
         /\ \A o \in {"users", "channels"} : o # p => latest'[o] = latest[o]
<1> DEFINE S == {latest["users"].prefix, latest["channels"].prefix}
<1>1. latest \in Records(S)
  BY DEF SuggestTypes, LatestRecords
<1>2. latest' = [latest EXCEPT ![p].started = FALSE]
  BY DEF Reset
<1> HIDE DEF S
<1>3. latest' \in Records(S)
  BY <1>1, <1>2 DEF Records
<1>4. ~latest'[p].started /\ \A o \in {"users", "channels"} : o # p => latest'[o] = latest[o]
  BY <1>1, <1>2 DEF Records
<1> QED
  BY <1>3, <1>4, OfTheirPrefixes

LEMMA SeenEffect ==
  ASSUME SuggestTypes, NEW p \in {"users", "channels"}, NEW q, Seen(p, q)
  PROVE  /\ LatestRecords(latest')
         /\ latest'[p].prefix = latest[p].prefix /\ latest'[p].started = latest[p].started
         /\ latest'[p].started /\ ~latest'[p].complete
              => ~latest[p].complete /\ q # latest[p].prefix
         /\ \A o \in {"users", "channels"} : o # p => latest'[o] = latest[o]
<1> DEFINE S == {latest["users"].prefix, latest["channels"].prefix}
           seen == latest[p].complete \/ (latest[p].started /\ q = latest[p].prefix)
<1>1. latest \in Records(S)
  BY DEF SuggestTypes, LatestRecords
<1>2. latest' = [latest EXCEPT ![p].complete = seen] /\ seen \in BOOLEAN
  BY <1>1 DEF Seen, Records
<1> HIDE DEF S, seen
<1>3. latest' \in Records(S)
  BY <1>1, <1>2 DEF Records
<1>4. /\ latest'[p].prefix = latest[p].prefix /\ latest'[p].started = latest[p].started
      /\ latest'[p].complete = seen
      /\ \A o \in {"users", "channels"} : o # p => latest'[o] = latest[o]
  BY <1>1, <1>2 DEF Records
<1> QED
  BY <1>3, <1>4, OfTheirPrefixes DEF seen

----------------------------------------------------------------------------
(* Suggestions: the providers.                                             *)

\* A provider that handles a text has a query there.
LEMMA HandlerHasQuery ==
  /\ \A s : Handler(s) \in {"users", "channels", "commands", "nobody"}
  /\ \A s : \A p \in Providers : Handler(s) = p => Query(p, s) # Nothing
  /\ \A s : \A p \in Providers : Query(p, s) # Nothing => Begins(p, s) # 0
<1>1. \A s : Handler(s) \in {"users", "channels", "commands", "nobody"}
  BY DEF Handler
<1>2. \A s : \A p \in Providers : Handler(s) = p => Query(p, s) # Nothing
  BY DEF Handler, Providers
<1>3. \A s : \A p \in Providers : Query(p, s) # Nothing => Begins(p, s) # 0
  BY DEF Query
<1> QED
  BY <1>1, <1>2, <1>3

\* What is received is shown, or completed and gone.
LEMMA ReceiveEffect ==
  ASSUME NEW complete, NEW suggestions, NEW known, Receive(complete, suggestions, known)
  PROVE  list' = Cleared \/ (list' = suggestions /\ text' = text)
BY DEF Receive, CompleteWord

LEMMA AskUsersEffect ==
  ASSUME NEW s, NEW complete, AskUsers(s, complete)
  PROVE  LET q == Query("users", s)
         IN  /\ Start("users", q) /\ Ask("users", q, complete)
             /\ list' = Cleared \/ (list'.matched = q /\ list'.spinner = {} /\ text' = text)
BY ReceiveEffect DEF AskUsers

LEMMA AskCommandsEffect ==
  ASSUME NEW s, NEW complete, NEW known, AskCommands(s, complete, known)
  PROVE  /\ Ask("commands", Query("commands", s), complete) /\ Reset("channels")
         /\ UNCHANGED <<text, list>>
BY DEF AskCommands

LEMMA AskNobodyEffect ==
  ASSUME NEW known, AskNobody(known)
  PROVE  /\ Reset("channels") /\ list' = Cleared /\ UNCHANGED <<text, asked>>
BY DEF AskNobody

LEMMA AskChannelsEffect ==
  ASSUME NEW s, NEW complete, AskChannels(s, complete)
  PROVE  LET q == Query("channels", s)
         IN  \/ SameAgain(q) /\ Reset("channels") /\ UNCHANGED <<text, list, asked>>
             \/ /\ Start("channels", q) /\ Ask("channels", q, complete)
                /\ list' = Cleared \/ (list'.matched = q /\ text' = text)
             \/ /\ Query("commands", s) # Nothing
                /\ \E known : AskCommands(s, complete, known)
             \/ \E known : AskNobody(known)
<1> DEFINE q == Query("channels", s)
           spinner == {<<" ">>}
           known == [memo EXCEPT !.trimmed = Trim(q)]
           shown == [matched |-> q, spinner |-> spinner,
                     terms |-> Matching("channels", Known["channels"], q) \cup spinner]
<1>1. shown.matched = q
  OBVIOUS
<1>2. \/ SameAgain(q) /\ Reset("channels") /\ UNCHANGED <<text, list, asked>>
      \/ /\ Start("channels", q) /\ Ask("channels", q, complete)
         /\ Receive(complete, shown, [known EXCEPT !.word = Nothing])
      \/ Query("commands", s) # Nothing /\ AskCommands(s, complete, known)
      \/ AskNobody(known)
  BY DEF AskChannels
<1> HIDE DEF q, known, shown
<1>3. Receive(complete, shown, [known EXCEPT !.word = Nothing])
        => list' = Cleared \/ (list'.matched = q /\ text' = text)
  BY <1>1, ReceiveEffect
<1> QED
  BY <1>2, <1>3 DEF q

----------------------------------------------------------------------------
(* Suggestions: the box asks the providers.                                *)

LEMMA UsersAskedInv ==
  ASSUME SuggestInv, NEW s, NEW complete \in BOOLEAN, timer' = {}, pretext' = s, "late" \notin stray' => s = text,
         Handler(s) = "users", AskUsers(s, complete)
  PROVE  SuggestInv'
<1> DEFINE q == Query("users", s)
<1>1. /\ Start("users", q) /\ Ask("users", q, complete)
      /\ list' = Cleared \/ (list'.matched = q /\ list'.spinner = {} /\ text' = text)
  BY AskUsersEffect
<1>2. SuggestTypes /\ CommandsOnly
  BY DEF SuggestInv
<1>3. /\ LatestRecords(latest')
      /\ latest'["users"].prefix = q /\ ~latest'["users"].complete /\ latest'["users"].started
  BY <1>1, <1>2, StartEffect
<1>4. /\ asked' \in Seq(ToSet(asked'))
      /\ \A i \in DOMAIN asked' : RequestRecord(asked'[i])
      /\ \A i \in DOMAIN asked' : \/ i \in DOMAIN asked /\ asked'[i] = asked[i]
                                  \/ asked'[i].provider = "users"
      /\ Pending("users", q)'
  BY <1>1, <1>2, AskEffect
<1>5. q # Nothing /\ Begins("users", s) # 0
  BY HandlerHasQuery DEF Providers
<1>6. SuggestTypes' /\ CommandsOnly'
  BY <1>2, <1>3, <1>4 DEF SuggestTypes, CommandsOnly
<1>7. LatestIsCurrent'
  BY <1>3 DEF LatestIsCurrent
<1>8. UsersAwaited' /\ ChannelsAwaited'
  BY <1>3, <1>4 DEF UsersAwaited, ChannelsAwaited
<1>9. FitsOrWill'
  <2> SUFFICES ASSUME stray' = {}, list' # Cleared
               PROVE  \E p \in Providers : (Fits(p) \/ ToCome(p))'
    BY DEF FitsOrWill
  <2>1. Fits("users")'
    BY <1>1, <1>5 DEF Fits
  <2> QED
    BY <2>1 DEF Providers
<1> QED
  BY <1>6, <1>7, <1>8, <1>9 DEF SuggestInv

LEMMA CommandsAskedInv ==
  ASSUME SuggestInv, NEW s, NEW complete \in BOOLEAN, NEW known, timer' = {}, pretext' = s,
         "late" \notin stray' => s = text,
         Handler(s) # "users", Query("commands", s) # Nothing, AskCommands(s, complete, known)
  PROVE  SuggestInv'
<1> DEFINE q == Query("commands", s)
<1>1. Ask("commands", q, complete) /\ Reset("channels") /\ UNCHANGED <<text, list>>
  BY AskCommandsEffect
<1>2. SuggestTypes /\ CommandsOnly
  BY DEF SuggestInv
<1>3. LatestRecords(latest') /\ ~latest'["channels"].started /\ latest'["users"] = latest["users"]
  BY <1>1, <1>2, ResetEffect
<1>4. /\ asked' \in Seq(ToSet(asked'))
      /\ \A i \in DOMAIN asked' : RequestRecord(asked'[i])
      /\ \A i \in DOMAIN asked' : \/ i \in DOMAIN asked /\ asked'[i] = asked[i]
                                  \/ asked'[i].provider = "commands" /\ asked'[i].query = q
      /\ \A o, u : Pending(o, u) => Pending(o, u)'
      /\ Pending("commands", q)'
  BY <1>1, <1>2, AskEffect
<1>5. SuggestTypes' /\ CommandsOnly'
  BY <1>2, <1>3, <1>4 DEF SuggestTypes, CommandsOnly
<1>6. LatestIsCurrent'
  BY <1>3 DEF LatestIsCurrent
<1>7. UsersAwaited'
  BY <1>3, <1>4 DEF SuggestInv, UsersAwaited
<1>8. ChannelsAwaited'
  BY <1>3 DEF ChannelsAwaited
<1>9. FitsOrWill'
  <2> SUFFICES ASSUME stray' = {}, list' # Cleared
               PROVE  \E p \in Providers : (Fits(p) \/ ToCome(p))'
    BY DEF FitsOrWill
  <2>1. text' = s
    BY <1>1
  <2>2. ToCome("commands")'
    BY <1>4, <2>1 DEF ToCome
  <2> QED
    BY <2>2 DEF Providers
<1> QED
  BY <1>5, <1>6, <1>7, <1>8, <1>9 DEF SuggestInv

\* No provider is asked, or channels not again.
LEMMA NobodyAskedInv ==
  ASSUME SuggestInv, NEW s, timer' = {}, pretext' = s, Handler(s) # "users",
         Reset("channels"), UNCHANGED asked, list' = Cleared \/ stray' # {}
  PROVE  SuggestInv'
<1>1. SuggestTypes
  BY DEF SuggestInv
<1>2. LatestRecords(latest') /\ ~latest'["channels"].started /\ latest'["users"] = latest["users"]
  BY <1>1, ResetEffect
<1>3. SuggestTypes' /\ CommandsOnly'
  BY <1>2 DEF SuggestInv, SuggestTypes, CommandsOnly
<1>4. LatestIsCurrent' /\ ChannelsAwaited' /\ FitsOrWill'
  BY <1>2 DEF LatestIsCurrent, ChannelsAwaited, FitsOrWill
<1>5. UsersAwaited'
  BY <1>2 DEF SuggestInv, UsersAwaited, Pending
<1> QED
  BY <1>3, <1>4, <1>5 DEF SuggestInv

LEMMA ChannelsAskedInv ==
  ASSUME SuggestInv, NEW s, NEW complete \in BOOLEAN, timer' = {}, pretext' = s, "late" \notin stray' => s = text,
         Handler(s) = "channels", Start("channels", Query("channels", s)),
         Ask("channels", Query("channels", s), complete),
         list' = Cleared \/ (list'.matched = Query("channels", s) /\ text' = text)
  PROVE  SuggestInv'
<1> DEFINE q == Query("channels", s)
<1>1. SuggestTypes /\ CommandsOnly
  BY DEF SuggestInv
<1>2. /\ LatestRecords(latest') /\ latest'["users"] = latest["users"]
      /\ latest'["channels"].prefix = q /\ latest'["channels"].started
  BY <1>1, StartEffect
<1>3. /\ asked' \in Seq(ToSet(asked'))
      /\ \A i \in DOMAIN asked' : RequestRecord(asked'[i])
      /\ \A i \in DOMAIN asked' : \/ i \in DOMAIN asked /\ asked'[i] = asked[i]
                                  \/ asked'[i].provider = "channels"
      /\ \A o, u : Pending(o, u) => Pending(o, u)'
      /\ Pending("channels", q)'
  BY <1>1, AskEffect
<1>4. q # Nothing
  BY HandlerHasQuery DEF Providers
<1>5. SuggestTypes' /\ CommandsOnly'
  BY <1>1, <1>2, <1>3 DEF SuggestTypes, CommandsOnly
<1>6. LatestIsCurrent'
  BY <1>2 DEF LatestIsCurrent
<1>7. UsersAwaited' /\ ChannelsAwaited'
  BY <1>2, <1>3 DEF SuggestInv, UsersAwaited, ChannelsAwaited
<1>8. FitsOrWill'
  <2> SUFFICES ASSUME stray' = {}, list' # Cleared
               PROVE  \E p \in Providers : (Fits(p) \/ ToCome(p))'
    BY DEF FitsOrWill
  <2>1. text' = s
    BY DEF Cleared
  <2>2. ToCome("channels")'
    BY <1>2, <1>3, <1>4, <2>1 DEF ToCome
  <2> QED
    BY <2>2 DEF Providers
<1> QED
  BY <1>5, <1>6, <1>7, <1>8 DEF SuggestInv

\* nonDebouncedPretextChanged
LEMMA PretextInv ==
  ASSUME SuggestInv, NEW s, NEW complete \in BOOLEAN, timer' = {}, PretextChanged(s, complete)
  PROVE  SuggestInv'
<1>1. /\ pretext' = s
      /\ "late" \notin stray' => s = text
      /\ Handler(s) = "channels" /\ SameAgain(Query("channels", s)) => stray' # {}
  BY DEF PretextChanged
<1>2. /\ Handler(s) = "users" => AskUsers(s, complete)
      /\ Handler(s) = "channels" => AskChannels(s, complete)
      /\ Handler(s) = "commands" => AskCommands(s, complete, memo)
      /\ Handler(s) = "nobody" => AskNobody(memo)
  BY DEF PretextChanged
<1>3. CASE Handler(s) = "users"
  BY <1>1, <1>2, <1>3, UsersAskedInv
<1>4. CASE Handler(s) = "channels"
  <2>1. CASE SameAgain(Query("channels", s)) /\ Reset("channels") /\ UNCHANGED <<text, list, asked>>
    BY <1>1, <1>4, <2>1, NobodyAskedInv
  <2>2. CASE /\ Start("channels", Query("channels", s)) /\ Ask("channels", Query("channels", s), complete)
             /\ list' = Cleared \/ (list'.matched = Query("channels", s) /\ text' = text)
    BY <1>1, <1>4, <2>2, ChannelsAskedInv
  <2>3. CASE Query("commands", s) # Nothing /\ \E known : AskCommands(s, complete, known)
    BY <1>1, <1>4, <2>3, CommandsAskedInv
  <2>4. CASE \E known : AskNobody(known)
    BY <1>1, <1>4, <2>4, AskNobodyEffect, NobodyAskedInv
  <2> QED
    BY <1>2, <1>4, <2>1, <2>2, <2>3, <2>4, AskChannelsEffect
<1>5. CASE Handler(s) = "commands"
  <2>1. Query("commands", s) # Nothing
    BY <1>5, HandlerHasQuery DEF Providers
  <2> QED
    BY <1>1, <1>2, <1>5, <2>1, CommandsAskedInv
<1>6. CASE Handler(s) = "nobody"
  BY <1>1, <1>2, <1>6, AskNobodyEffect, NobodyAskedInv
<1> QED
  BY <1>3, <1>4, <1>5, <1>6, HandlerHasQuery

LEMMA DebouncedInv ==
  ASSUME SuggestInv, Debounced \/ EnterAsks
  PROVE  SuggestInv'
BY PretextInv DEF Debounced, EnterAsks

----------------------------------------------------------------------------
(* Suggestions: the user.                                                  *)

LEMMA EditInv ==
  ASSUME SuggestInv, NEW s, Edit(s)
  PROVE  SuggestInv'
<1>1. /\ text' = s /\ pretext' = s /\ UNCHANGED <<list, latest, asked>>
      /\ pretext = s => timer' = timer /\ stray' = stray \cup {"late"}
      /\ pretext # s => timer' = {s} /\ stray' = stray
  BY DEF Edit
<1>2. SuggestTypes' /\ CommandsOnly'
  BY <1>1 DEF SuggestInv, SuggestTypes, CommandsOnly
<1>3. timer' = {} => timer = {} /\ pretext' = pretext /\ "late" \in stray' /\ stray \subseteq stray'
  BY <1>1
<1>4. LatestIsCurrent'
  BY <1>1, <1>3 DEF SuggestInv, LatestIsCurrent
<1>5. UsersAwaited' /\ ChannelsAwaited'
  BY <1>1, <1>3 DEF SuggestInv, UsersAwaited, ChannelsAwaited, Pending
<1>6. FitsOrWill'
  BY <1>3 DEF FitsOrWill
<1> QED
  BY <1>2, <1>4, <1>5, <1>6 DEF SuggestInv

\* The list is cleared, by the user or by a completion.
LEMMA ClearedInv ==
  ASSUME SuggestInv, list' = Cleared, UNCHANGED <<pretext, timer, latest, asked, stray>>
  PROVE  SuggestInv'
<1>1. SuggestTypes' /\ CommandsOnly' /\ LatestIsCurrent' /\ UsersAwaited' /\ ChannelsAwaited'
  BY DEF SuggestInv, SuggestTypes, CommandsOnly, LatestIsCurrent, UsersAwaited, ChannelsAwaited, Pending
<1>2. FitsOrWill'
  BY DEF FitsOrWill
<1> QED
  BY <1>1, <1>2 DEF SuggestInv

LEMMA UserInv ==
  ASSUME SuggestInv, Clear \/ \E term : Click(term) \/ EnterCompletes(term)
  PROVE  SuggestInv'
<1>1. list' = Cleared /\ UNCHANGED <<pretext, timer, latest, asked, stray>>
  BY DEF Clear, Click, EnterCompletes, CompleteWord
<1> QED
  BY <1>1, ClearedInv

----------------------------------------------------------------------------
(* Suggestions: the answers.                                               *)

\* An answer that is shown for a text that has been left is stray.
LEMMA StrayEffect ==
  ASSUME NEW p, Stray(p)
  PROVE  /\ "failed" \in stray' <=> "failed" \in stray
         /\ stray' = {} => Handler(pretext) = p /\ pretext = text
BY DEF Stray

LEMMA UsersAnswerInv ==
  ASSUME SuggestInv, NEW i \in DOMAIN asked, UsersAnswer(i)
  PROVE  SuggestInv'
<1> DEFINE r == asked[i]
           prefix == latest["users"].prefix
<1>1. /\ r.provider = "users" /\ Answered(i) /\ Seen("users", r.query)
      /\ UNCHANGED <<pretext, timer>>
  BY DEF UsersAnswer
<1>2. SuggestTypes /\ CommandsOnly
  BY DEF SuggestInv
<1>3. /\ asked' \in Seq(ToSet(asked'))
      /\ \A j \in DOMAIN asked' : RequestRecord(asked'[j])
      /\ \A j \in DOMAIN asked' : \E k \in DOMAIN asked : asked'[j] = asked[k]
      /\ \A o, u : Pending(o, u) /\ ~(r.provider = o /\ r.query = u) => Pending(o, u)'
  BY <1>1, <1>2, AnsweredEffect
<1>4. /\ LatestRecords(latest')
      /\ latest'["users"].prefix = prefix /\ latest'["users"].started = latest["users"].started
      /\ latest'["users"].started /\ ~latest'["users"].complete
           => ~latest["users"].complete /\ r.query # prefix
      /\ latest'["channels"] = latest["channels"]
  BY <1>1, <1>2, SeenEffect
<1>5. \/ ShouldCancel("users", r.query) /\ UNCHANGED <<text, list, stray>>
      \/ /\ ~ShouldCancel("users", r.query)
         /\ list' = Cleared \/ (list'.matched = prefix /\ list'.spinner = {} /\ text' = text)
         /\ Stray("users")
  <2>1. CASE ShouldCancel("users", r.query)
    BY <2>1 DEF UsersAnswer
  <2>2. CASE ~ShouldCancel("users", r.query)
    <3>1. /\ \E data \in {r.query, Nothing} :
               Receive(r.complete, [matched |-> prefix, terms |-> Users(data, prefix), spinner |-> {}],
                       [memo EXCEPT !.data = data])
          /\ Stray("users")
      BY <2>2 DEF UsersAnswer
    <3>2. PICK data : Receive(r.complete, [matched |-> prefix, terms |-> Users(data, prefix), spinner |-> {}],
                              [memo EXCEPT !.data = data])
      BY <3>1
    <3>3. list' = Cleared \/ (list' = [matched |-> prefix, terms |-> Users(data, prefix), spinner |-> {}]
                              /\ text' = text)
      BY <3>2, ReceiveEffect
    <3> QED
      BY <2>2, <3>1, <3>3
  <2> QED
    BY <2>1, <2>2
<1> HIDE DEF r, prefix
<1>6. SuggestTypes' /\ CommandsOnly'
  BY <1>2, <1>3, <1>4 DEF SuggestTypes, CommandsOnly
<1>7. LatestIsCurrent'
  BY <1>1, <1>4 DEF SuggestInv, LatestIsCurrent, prefix
<1>8. UsersAwaited'
  BY <1>1, <1>3, <1>4 DEF SuggestInv, UsersAwaited, prefix
<1>9. ChannelsAwaited'
  BY <1>1, <1>3, <1>4, <1>5, StrayEffect DEF SuggestInv, ChannelsAwaited
<1>10. FitsOrWill'
  <2> SUFFICES ASSUME timer = {}, stray' = {}, list' # Cleared
               PROVE  \E p \in Providers : (Fits(p) \/ ToCome(p))'
    BY <1>1 DEF FitsOrWill
  <2>1. CASE ShouldCancel("users", r.query) /\ UNCHANGED <<text, list, stray>>
    <3>1. PICK p \in Providers : Fits(p) \/ ToCome(p)
      BY <2>1 DEF SuggestInv, FitsOrWill
    <3>2. CASE Fits(p)
      BY <2>1, <3>2 DEF Fits
    <3>3. CASE ToCome(p)
      <4>1. ~(r.provider = p /\ r.query = Query(p, text))
        BY <1>1, <2>1, <3>3 DEF ToCome, ShouldCancel
      <4>2. Pending(p, Query(p, text))'
        BY <1>3, <2>1, <3>3, <4>1 DEF ToCome
      <4>3. p # "commands" => latest'[p].started = latest[p].started /\ latest'[p].prefix = latest[p].prefix
        BY <1>4 DEF Providers, prefix
      <4>4. ToCome(p)'
        BY <1>1, <2>1, <3>3, <4>2, <4>3 DEF ToCome
      <4> QED
        BY <4>4
    <3> QED
      BY <3>1, <3>2, <3>3
  <2>2. CASE /\ list' = Cleared \/ (list'.matched = prefix /\ list'.spinner = {} /\ text' = text)
             /\ Stray("users")
    <3>1. Handler(pretext) = "users" /\ pretext = text
      BY <2>2, StrayEffect
    <3>2. prefix = Query("users", text)
      BY <3>1 DEF SuggestInv, LatestIsCurrent, prefix
    <3>3. Begins("users", text) # 0
      BY <3>1, HandlerHasQuery DEF Providers
    <3>4. Fits("users")'
      BY <2>2, <3>2, <3>3 DEF Fits
    <3> QED
      BY <3>4 DEF Providers
  <2> QED
    BY <1>5, <2>1, <2>2
<1> QED
  BY <1>6, <1>7, <1>8, <1>9, <1>10 DEF SuggestInv

\* What stays to come when an answer that is not awaited changes nothing else.
LEMMA StaysToCome ==
  ASSUME SuggestInv, timer = {}, stray = {}, list # Cleared, UNCHANGED <<text, pretext, list>>,
         NEW o, NEW u,
         \A p, q : Pending(p, q) /\ ~(o = p /\ u = q) => Pending(p, q)',
         \A p \in {"users", "channels"} :
           latest'[p].started = latest[p].started /\ latest'[p].prefix = latest[p].prefix,
         \A p \in Providers : ~(ToCome(p) /\ o = p /\ u = Query(p, text))
  PROVE  \E p \in Providers : (Fits(p) \/ ToCome(p))'
<1>1. PICK p \in Providers : Fits(p) \/ ToCome(p)
  BY DEF SuggestInv, FitsOrWill
<1>2. CASE Fits(p)
  BY <1>2 DEF Fits
<1>3. CASE ToCome(p)
  <2>1. Pending(p, Query(p, text))'
    BY <1>3 DEF ToCome
  <2>2. p # "commands" => latest'[p].started = latest[p].started /\ latest'[p].prefix = latest[p].prefix
    BY DEF Providers
  <2>3. ToCome(p)'
    BY <1>3, <2>1, <2>2 DEF ToCome
  <2> QED
    BY <2>3
<1> QED
  BY <1>1, <1>2, <1>3

LEMMA ChannelsAnswerInv ==
  ASSUME SuggestInv, NEW i \in DOMAIN asked, ChannelsAnswer(i)
  PROVE  SuggestInv'
<1> DEFINE r == asked[i]
           prefix == latest["channels"].prefix
           found == Matching("channels", Known["channels"] \cup Remote["channels"], r.query)
           shown == [matched |-> r.query, terms |-> found, spinner |-> {}]
<1>1. /\ r.provider = "channels" /\ Answered(i) /\ Seen("channels", r.query)
      /\ UNCHANGED <<pretext, timer>>
  BY DEF ChannelsAnswer
<1>2. SuggestTypes /\ CommandsOnly
  BY DEF SuggestInv
<1>3. /\ asked' \in Seq(ToSet(asked'))
      /\ \A j \in DOMAIN asked' : RequestRecord(asked'[j])
      /\ \A j \in DOMAIN asked' : \E k \in DOMAIN asked : asked'[j] = asked[k]
      /\ \A o, u : Pending(o, u) /\ ~(r.provider = o /\ r.query = u) => Pending(o, u)'
  BY <1>1, <1>2, AnsweredEffect
<1>4. /\ LatestRecords(latest')
      /\ latest'["channels"].prefix = prefix /\ latest'["channels"].started = latest["channels"].started
      /\ latest'["channels"].started /\ ~latest'["channels"].complete
           => ~latest["channels"].complete /\ r.query # prefix
      /\ latest'["users"] = latest["users"]
  BY <1>1, <1>2, SeenEffect
<1>5. shown.matched = r.query /\ shown.spinner = {}
  OBVIOUS
<1>6. \/ ShouldCancel("channels", r.query) /\ UNCHANGED <<text, list, stray>>
      \/ /\ ~ShouldCancel("channels", r.query)
         /\ list' = Cleared \/ (list' = shown /\ text' = text)
         /\ Stray("channels")
  <2>1. CASE ShouldCancel("channels", r.query)
    BY <2>1 DEF ChannelsAnswer
  <2>2. CASE ~ShouldCancel("channels", r.query)
    <3>1. /\ \E known : Receive(r.complete, shown, known)
          /\ Stray("channels")
      BY <2>2 DEF ChannelsAnswer
    <3> HIDE DEF shown
    <3> QED
      BY <2>2, <3>1, ReceiveEffect
  <2> QED
    BY <2>1, <2>2
<1> HIDE DEF r, prefix, shown, found
<1>7. SuggestTypes' /\ CommandsOnly'
  BY <1>2, <1>3, <1>4 DEF SuggestTypes, CommandsOnly
<1>8. LatestIsCurrent'
  BY <1>1, <1>4 DEF SuggestInv, LatestIsCurrent, prefix
<1>9. UsersAwaited'
  BY <1>1, <1>3, <1>4 DEF SuggestInv, UsersAwaited
<1>10. ChannelsAwaited'
  BY <1>1, <1>3, <1>4, <1>6, StrayEffect DEF SuggestInv, ChannelsAwaited, prefix
<1>11. FitsOrWill'
  <2> SUFFICES ASSUME timer = {}, stray' = {}, list' # Cleared
               PROVE  \E p \in Providers : (Fits(p) \/ ToCome(p))'
    BY <1>1 DEF FitsOrWill
  <2>1. CASE ShouldCancel("channels", r.query) /\ UNCHANGED <<text, list, stray>>
    <3>1. \A p \in Providers : ~(ToCome(p) /\ r.provider = p /\ r.query = Query(p, text))
      BY <1>1, <2>1 DEF ToCome, ShouldCancel
    <3>2. \A p \in {"users", "channels"} :
            latest'[p].started = latest[p].started /\ latest'[p].prefix = latest[p].prefix
      BY <1>4 DEF prefix
    <3>3. stray = {} /\ list # Cleared /\ UNCHANGED <<text, pretext, list>>
      BY <1>1, <2>1
    <3>4. \A o, u : Pending(o, u) /\ ~(r.provider = o /\ r.query = u) => Pending(o, u)'
      BY <1>3
    <3> DEFINE provider == r.provider
               query == r.query
    <3>5. /\ \A p \in Providers : ~(ToCome(p) /\ provider = p /\ query = Query(p, text))
          /\ \A o, u : Pending(o, u) /\ ~(provider = o /\ query = u) => Pending(o, u)'
      BY <3>1, <3>4
    <3> HIDE DEF provider, query
    <3> QED
      BY <3>2, <3>3, <3>5, StaysToCome
  <2>2. CASE /\ ~ShouldCancel("channels", r.query)
             /\ list' = Cleared \/ (list' = shown /\ text' = text)
             /\ Stray("channels")
    <3>1. Handler(pretext) = "channels" /\ pretext = text
      BY <2>2, StrayEffect
    <3>2. latest["channels"].started
      BY <2>2 DEF ShouldCancel
    <3>3. prefix = Query("channels", text)
      BY <3>1, <3>2 DEF SuggestInv, LatestIsCurrent, prefix
    <3>4. Query("channels", text) # Nothing /\ Begins("channels", text) # 0
      BY <3>1, HandlerHasQuery DEF Providers
    <3>5. CASE r.query = prefix
      <4>1. Fits("channels")'
        BY <1>5, <2>2, <3>3, <3>4, <3>5 DEF Fits
      <4> QED
        BY <4>1 DEF Providers
    <3>6. CASE r.query # prefix
      <4>1. ~latest["channels"].complete
        BY <2>2, <3>6 DEF ShouldCancel, prefix
      <4>2. "failed" \notin stray
        BY <2>2, StrayEffect
      <4>3. Pending("channels", prefix)
        BY <3>1, <3>2, <4>1, <4>2 DEF SuggestInv, ChannelsAwaited, prefix
      <4>4. Pending("channels", Query("channels", text))'
        BY <1>3, <2>2, <3>3, <3>6, <4>3
      <4>5. ToCome("channels")'
        BY <1>1, <1>4, <2>2, <3>1, <3>2, <3>3, <3>4, <4>4 DEF ToCome
      <4> QED
        BY <4>5 DEF Providers
    <3> QED
      BY <3>5, <3>6
  <2> QED
    BY <1>6, <2>1, <2>2
<1> QED
  BY <1>7, <1>8, <1>9, <1>10, <1>11 DEF SuggestInv

LEMMA CommandsAnswerInv ==
  ASSUME SuggestInv, NEW i \in DOMAIN asked, CommandsAnswer(i)
  PROVE  SuggestInv'
<1> DEFINE r == asked[i]
           shown == [matched |-> r.query, spinner |-> {},
                     terms |-> Matching("commands", Remote["commands"], r.query)]
<1>1. /\ r.provider = "commands" /\ Answered(i) /\ UNCHANGED <<pretext, timer, latest>>
      /\ Receive(r.complete, shown, memo)
      /\ "failed" \in stray' <=> "failed" \in stray
      /\ stray' = {} => r.query = Query("commands", text)
  BY DEF CommandsAnswer
<1>2. SuggestTypes /\ CommandsOnly
  BY DEF SuggestInv
<1>3. /\ asked' \in Seq(ToSet(asked'))
      /\ \A j \in DOMAIN asked' : RequestRecord(asked'[j])
      /\ \A j \in DOMAIN asked' : \E k \in DOMAIN asked : asked'[j] = asked[k]
      /\ \A o, u : Pending(o, u) /\ ~(r.provider = o /\ r.query = u) => Pending(o, u)'
  BY <1>1, <1>2, AnsweredEffect
<1>4. shown.matched = r.query /\ shown.spinner = {} /\ r.query # Nothing
  BY <1>1, <1>2 DEF CommandsOnly
<1> HIDE DEF r, shown
<1>5. list' = Cleared \/ (list' = shown /\ text' = text)
  BY <1>1, ReceiveEffect
<1>6. SuggestTypes' /\ CommandsOnly'
  BY <1>1, <1>2, <1>3 DEF SuggestTypes, CommandsOnly
<1>7. LatestIsCurrent'
  BY <1>1 DEF SuggestInv, LatestIsCurrent
<1>8. UsersAwaited' /\ ChannelsAwaited'
  BY <1>1, <1>3 DEF SuggestInv, UsersAwaited, ChannelsAwaited
<1>9. FitsOrWill'
  <2> SUFFICES ASSUME timer = {}, stray' = {}, list' # Cleared
               PROVE  \E p \in Providers : (Fits(p) \/ ToCome(p))'
    BY <1>1 DEF FitsOrWill
  <2>1. r.query = Query("commands", text) /\ Begins("commands", text) # 0
    BY <1>1, <1>4, HandlerHasQuery DEF Providers
  <2>2. Fits("commands")'
    BY <1>4, <1>5, <2>1 DEF Fits
  <2> QED
    BY <2>2 DEF Providers
<1> QED
  BY <1>6, <1>7, <1>8, <1>9 DEF SuggestInv

LEMMA AnswerFailsInv ==
  ASSUME SuggestInv, NEW i \in DOMAIN asked, AnswerFails(i)
  PROVE  SuggestInv'
<1>1. /\ asked[i].provider # "users" /\ Answered(i) /\ stray' = stray \cup {"failed"}
      /\ UNCHANGED <<text, pretext, timer, list, latest>>
  BY DEF AnswerFails
<1>2. SuggestTypes /\ CommandsOnly
  BY DEF SuggestInv
<1>3. /\ asked' \in Seq(ToSet(asked'))
      /\ \A j \in DOMAIN asked' : RequestRecord(asked'[j])
      /\ \A j \in DOMAIN asked' : \E k \in DOMAIN asked : asked'[j] = asked[k]
      /\ \A u : Pending("users", u) => Pending("users", u)'
  BY <1>1, <1>2, AnsweredEffect
<1>4. SuggestTypes' /\ CommandsOnly'
  BY <1>1, <1>2, <1>3 DEF SuggestTypes, CommandsOnly
<1>5. LatestIsCurrent' /\ UsersAwaited'
  BY <1>1, <1>3 DEF SuggestInv, LatestIsCurrent, UsersAwaited
<1>6. ChannelsAwaited' /\ FitsOrWill'
  BY <1>1 DEF ChannelsAwaited, FitsOrWill
<1> QED
  BY <1>4, <1>5, <1>6 DEF SuggestInv

\* The request is still under way.
LEMMA WaitedEffect ==
  ASSUME SuggestTypes, NEW i \in DOMAIN asked, asked' = [asked EXCEPT ![i].waiting = FALSE]
  PROVE  /\ asked' \in Seq(ToSet(asked'))
         /\ \A j \in DOMAIN asked' : RequestRecord(asked'[j])
         /\ \A j \in DOMAIN asked' : /\ j \in DOMAIN asked
                                     /\ asked'[j].provider = asked[j].provider
                                     /\ asked'[j].query = asked[j].query
         /\ \A o, u : Pending(o, u) => Pending(o, u)'
<1> DEFINE r == [asked[i] EXCEPT !.waiting = FALSE]
<1>1. asked \in Seq(ToSet(asked)) /\ RequestRecord(asked[i])
  BY DEF SuggestTypes
<1>3. r.provider = asked[i].provider /\ r.query = asked[i].query /\ RequestRecord(r)
  BY <1>1 DEF RequestRecord
<1>4. asked' = [asked EXCEPT ![i] = r]
  OBVIOUS
<1> HIDE DEF r
<1>5. /\ asked' \in Seq(ToSet(asked) \cup {r}) /\ DOMAIN asked' = DOMAIN asked
      /\ asked'[i] = r /\ \A j \in DOMAIN asked : j # i => asked'[j] = asked[j]
  BY <1>1, <1>4
<1>6. asked' \in Seq(ToSet(asked'))
  BY <1>5, OfItsElements
<1>7. \A j \in DOMAIN asked' : RequestRecord(asked'[j])
  BY <1>3, <1>5 DEF SuggestTypes
<1>8. \A j \in DOMAIN asked' : /\ j \in DOMAIN asked
                               /\ asked'[j].provider = asked[j].provider /\ asked'[j].query = asked[j].query
  BY <1>3, <1>5
<1>9. \A o, u : Pending(o, u) => Pending(o, u)'
  BY <1>5, <1>8 DEF Pending
<1> QED
  BY <1>6, <1>7, <1>8, <1>9

LEMMA SpinnerInv ==
  ASSUME SuggestInv, NEW i \in DOMAIN asked, Spinner(i)
  PROVE  SuggestInv'
<1> DEFINE r == asked[i]
           prefix == latest["users"].prefix
           shown == [matched |-> prefix, spinner |-> {<<>>}, terms |-> Users(memo.data, prefix) \cup {<<>>}]
<1>1. /\ r.waiting /\ Seen("users", r.query) /\ UNCHANGED <<pretext, timer>>
      /\ asked' = [asked EXCEPT ![i].waiting = FALSE]
  BY DEF Spinner
<1>2. SuggestTypes /\ CommandsOnly
  BY DEF SuggestInv
<1>3. /\ asked' \in Seq(ToSet(asked'))
      /\ \A j \in DOMAIN asked' : RequestRecord(asked'[j])
      /\ \A j \in DOMAIN asked' : /\ j \in DOMAIN asked
                                  /\ asked'[j].provider = asked[j].provider
                                  /\ asked'[j].query = asked[j].query
      /\ \A o, u : Pending(o, u) => Pending(o, u)'
  BY <1>1, <1>2, WaitedEffect
<1>4. /\ LatestRecords(latest')
      /\ latest'["users"].prefix = prefix /\ latest'["users"].started = latest["users"].started
      /\ latest'["users"].started /\ ~latest'["users"].complete => ~latest["users"].complete
      /\ latest'["channels"] = latest["channels"]
  BY <1>1, <1>2, SeenEffect
<1>5. \/ ShouldCancel("users", r.query) /\ UNCHANGED <<text, list, stray>>
      \/ /\ ~ShouldCancel("users", r.query)
         /\ list' = Cleared \/ (list'.matched = prefix /\ text' = text)
         /\ Stray("users")
  <2>1. CASE ShouldCancel("users", r.query)
    BY <2>1 DEF Spinner
  <2>2. CASE ~ShouldCancel("users", r.query)
    <3>1. Receive(r.complete, shown, memo) /\ Stray("users")
      BY <2>2 DEF Spinner
    <3>2. shown.matched = prefix
      OBVIOUS
    <3> HIDE DEF shown
    <3> QED
      BY <2>2, <3>1, <3>2, ReceiveEffect
  <2> QED
    BY <2>1, <2>2
<1> HIDE DEF r, prefix, shown
<1>6. SuggestTypes' /\ CommandsOnly'
  BY <1>2, <1>3, <1>4 DEF SuggestTypes, CommandsOnly
<1>7. LatestIsCurrent'
  BY <1>1, <1>4 DEF SuggestInv, LatestIsCurrent, prefix
<1>8. UsersAwaited'
  BY <1>1, <1>3, <1>4 DEF SuggestInv, UsersAwaited, prefix
<1>9. ChannelsAwaited'
  BY <1>1, <1>3, <1>4, <1>5, StrayEffect DEF SuggestInv, ChannelsAwaited
<1>10. FitsOrWill'
  <2> SUFFICES ASSUME timer = {}, stray' = {}, list' # Cleared
               PROVE  \E p \in Providers : (Fits(p) \/ ToCome(p))'
    BY <1>1 DEF FitsOrWill
  <2>1. CASE ShouldCancel("users", r.query) /\ UNCHANGED <<text, list, stray>>
    <3>1. \A p \in {"users", "channels"} :
            latest'[p].started = latest[p].started /\ latest'[p].prefix = latest[p].prefix
      BY <1>4 DEF prefix
    <3>2. stray = {} /\ list # Cleared /\ UNCHANGED <<text, pretext, list>>
      BY <1>1, <2>1
    <3>3. \A p \in Providers : ~(ToCome(p) /\ "nobody" = p /\ r.query = Query(p, text))
      BY DEF Providers
    <3>4. \A o, u : Pending(o, u) /\ ~("nobody" = o /\ r.query = u) => Pending(o, u)'
      BY <1>3
    <3> QED
      BY <3>1, <3>2, <3>3, <3>4, StaysToCome
  <2>2. CASE /\ ~ShouldCancel("users", r.query)
             /\ list' = Cleared \/ (list'.matched = prefix /\ text' = text)
             /\ Stray("users")
    <3>1. Handler(pretext) = "users" /\ pretext = text
      BY <2>2, StrayEffect
    <3>2. latest["users"].started
      BY <2>2 DEF ShouldCancel
    <3>3. prefix = Query("users", text)
      BY <3>1 DEF SuggestInv, LatestIsCurrent, prefix
    <3>4. Query("users", text) # Nothing
      BY <3>1, HandlerHasQuery DEF Providers
    <3>5. r.provider = "users"
      BY <1>1, <1>2 DEF SuggestTypes, RequestRecord, r
    <3>6. Pending("users", prefix)
      <4>1. CASE r.query = prefix
        BY <3>5, <4>1 DEF Pending, r
      <4>2. CASE r.query # prefix
        BY <2>2, <3>2, <4>2 DEF ShouldCancel, SuggestInv, UsersAwaited, prefix
      <4> QED
        BY <4>1, <4>2
    <3>7. ToCome("users")'
      BY <1>1, <1>3, <1>4, <2>2, <3>1, <3>2, <3>3, <3>4, <3>6 DEF ToCome
    <3> QED
      BY <3>7 DEF Providers
  <2> QED
    BY <1>5, <2>1, <2>2
<1> QED
  BY <1>6, <1>7, <1>8, <1>9, <1>10 DEF SuggestInv

----------------------------------------------------------------------------
(* Suggestions: the theorems.                                              *)

LEMMA SuggestInitInv ==
  ASSUME SuggestInit
  PROVE  SuggestInv
<1>1. /\ list = Cleared /\ asked = <<>>
      /\ latest = [p \in {"users", "channels"} |-> [prefix |-> <<>>, complete |-> TRUE, started |-> FALSE]]
  BY DEF SuggestInit
<1>2. latest \in Records({<<>>})
  BY <1>1 DEF Records
<1>3. LatestRecords(latest)
  BY <1>2, OfTheirPrefixes
<1>4. asked \in Seq(ToSet(asked)) /\ DOMAIN asked = {}
  BY <1>1 DEF ToSet
<1>5. SuggestTypes /\ CommandsOnly
  BY <1>3, <1>4 DEF SuggestTypes, CommandsOnly
<1>6. UsersAwaited /\ ChannelsAwaited /\ FitsOrWill
  BY <1>1 DEF UsersAwaited, ChannelsAwaited, FitsOrWill
<1>7. LatestIsCurrent
  <2>1. Begins("users", <<>>) = 0
    BY DEF Begins, Mark
  <2>2. Handler(pretext) # "users"
    BY <2>1 DEF Handler, Query, SuggestInit
  <2> QED
    BY <1>1, <2>2 DEF LatestIsCurrent
<1> QED
  BY <1>5, <1>6, <1>7 DEF SuggestInv

LEMMA SuggestNextInv ==
  ASSUME SuggestInv, [SuggestNext]_suggestVars
  PROVE  SuggestInv'
<1>1. CASE (\E key \in Typed : Press(key)) \/ Backspace
  BY <1>1, EditInv DEF Press, Backspace
<1>2. CASE Clear \/ \E term \in list.terms : Click(term) \/ EnterCompletes(term)
  BY <1>2, UserInv
<1>3. CASE EnterAsks \/ Debounced
  BY <1>3, DebouncedInv
<1>4. CASE \E i \in DOMAIN asked : \/ UsersAnswer(i) \/ ChannelsAnswer(i) \/ CommandsAnswer(i)
                                   \/ AnswerFails(i) \/ Spinner(i)
  BY <1>4, UsersAnswerInv, ChannelsAnswerInv, CommandsAnswerInv, AnswerFailsInv, SpinnerInv
<1>5. CASE UNCHANGED suggestVars
  BY <1>5 DEF suggestVars, SuggestInv, SuggestTypes, CommandsOnly, LatestIsCurrent, UsersAwaited,
              ChannelsAwaited, FitsOrWill, Fits, ToCome, Pending
<1> QED
  BY <1>1, <1>2, <1>3, <1>4, <1>5 DEF SuggestNext

\* The inductive invariant.
THEOREM SuggestInvariant == SuggestSpec => []SuggestInv
<1>1. SuggestInit => SuggestInv
  BY SuggestInitInv
<1>2. SuggestInv /\ [SuggestNext]_suggestVars => SuggestInv'
  BY SuggestNextInv
<1> QED
  BY <1>1, <1>2, PTL DEF SuggestSpec

\* Once everything has been answered the list is that of the word before the
\* caret, and awaits nothing, but for the named exceptions.
THEOREM SuggestionsSettle == SuggestSpec => []ListSettles
<1>1. SuggestInv => ListSettles
  <2> SUFFICES ASSUME SuggestInv, timer = {}, asked = <<>>, stray = {}, list # Cleared
               PROVE  \E p \in Providers :
                         Begins(p, text) # 0 /\ list.matched = Query(p, text) /\ list.spinner = {}
    BY DEF ListSettles
  <2>1. PICK p \in Providers : Fits(p) \/ ToCome(p)
    BY DEF SuggestInv, FitsOrWill
  <2>2. DOMAIN asked = {}
    OBVIOUS
  <2>3. ~ToCome(p)
    BY <2>2 DEF ToCome, Pending
  <2> QED
    BY <2>1, <2>3 DEF Fits
<1> QED
  BY <1>1, SuggestInvariant, PTL

-----------------------------------------------------------------------------
(* Suggestions: what a completion keeps.                                   *)

Texts == Seq(Keys \cup {" "})
Words == Texts \ {<<>>}

\* Some provider has the term, and offers it for q.
Offered(t, q) == \E p \in Providers : t \in Known[p] \cup Remote[p] /\ Found(p, t, q)

\* The list is made of words that are offered for what it would replace, and of
\* items that stand for an answer.
WordList(l) ==
  /\ l.matched \in Texts /\ l.terms \subseteq Texts
  /\ l.matched = <<>> => l.terms = {}
  /\ \A t \in l.terms \ l.spinner : Offered(t, l.matched)

TextTypes == /\ rest \in BOOLEAN /\ edits \in Nat
             /\ text \in Texts /\ pretext \in Texts /\ timer \subseteq Texts

\* The providers are asked for words.
AskedWords  == \A i \in DOMAIN asked : asked[i].query \in Words
LatestWords == \A p \in {"users", "channels"} : latest[p].started => latest[p].prefix \in Words

WordsInv == TextTypes /\ WordList(list) /\ AskedWords /\ LatestWords

-----------------------------------------------------------------------------
(* Suggestions: the words in a text.                                       *)

\* A set of numbers has a least one.
LEMMA LeastNumber ==
  ASSUME NEW T, T \subseteq Nat, T # {}
  PROVE  \E m \in T : \A k \in T : m <= k
<1> DEFINE R == OpToRel(<, Nat)
<1>1. IsWellFoundedOn(R, Nat)
  BY NatLessThanWellFounded
<1>2. \A x, y \in Nat : <<x, y>> \in R <=> x < y
  BY DEF OpToRel
<1> HIDE DEF R
<1>3. PICK m \in T : \A k \in T : ~(<<k, m>> \in R)
  BY <1>1, WFMin
<1>4. \A k \in T : k \in Nat /\ m \in Nat /\ ~(k < m)
  BY <1>2, <1>3
<1>5. \A k \in T : m <= k
  BY <1>4
<1> QED
  BY <1>5

\* And if it is bounded it has a greatest.
LEMMA GreatestNumber ==
  ASSUME NEW b \in Nat, NEW T, T \subseteq 0..b, T # {}
  PROVE  \E m \in T : \A k \in T : k <= m
<1> DEFINE S == {b - k : k \in T}
<1>1. S \subseteq Nat /\ S # {}
  <2>1. \A k \in T : b - k \in Nat
    OBVIOUS
  <2> QED
    BY <2>1
<1>2. PICK s \in S : \A k \in S : s <= k
  BY <1>1, LeastNumber
<1>3. PICK m \in T : s = b - m
  BY <1>2
<1>4. \A k \in T : b - m <= b - k
  BY <1>2, <1>3
<1>5. \A k \in T : k \in 0..b /\ m \in 0..b
  OBVIOUS
<1>6. \A k \in T : k <= m
  BY <1>4, <1>5
<1> QED
  BY <1>6

\* Texts are sequences of something. (The solver of arithmetic and sequences
\* cannot read the key " ", which the proofs keep away from it.)
LEMMA TextsAreSequences == \E K : Texts = Seq(K) /\ Keys \subseteq K
BY Zenon DEF Texts

LEMMA SpaceIsText == <<" ">> \in Texts
<1>1. ASSUME NEW K, NEW k \in K PROVE <<k>> \in Seq(K)
  BY <1>1
<1>2. " " \in Keys \cup {" "}
  BY Zenon
<1> QED
  BY <1>1, <1>2, Zenon DEF Texts

\* Parts of texts, and texts put together, are texts.
LEMMA PartsOfTexts ==
  ASSUME NEW s \in Texts
  PROVE  /\ Len(s) \in Nat /\ s # <<>> => Len(s) >= 1
         /\ <<>> \in Texts
         /\ \A i \in 1..Len(s) : <<s[i]>> \in Texts
         /\ \A m \in 1..Len(s) + 1 : \A n \in 0..Len(s) : SubSeq(s, m, n) \in Texts
         /\ \A m \in 1..Len(s) : \A n \in m..Len(s) : SubSeq(s, m, n) # <<>>
         /\ \A m \in Nat \ {0} : Len(SubSeq(s, m, Len(s))) \in Nat
         /\ \A t \in Texts : s \o t \in Texts
<1>1. PICK K : Texts = Seq(K)
  BY TextsAreSequences
<1>2. Len(s) \in Nat /\ s # <<>> => Len(s) >= 1
  BY <1>1
<1>3. <<>> \in Texts /\ \A i \in 1..Len(s) : <<s[i]>> \in Texts
  BY <1>1
<1>4. \A m \in 1..Len(s) + 1 : \A n \in 0..Len(s) : SubSeq(s, m, n) \in Texts
  BY <1>1
<1>5. \A m \in 1..Len(s) : \A n \in m..Len(s) : SubSeq(s, m, n) # <<>>
  BY <1>1
<1>6. \A t \in Texts : s \o t \in Texts
  BY <1>1
<1>7. \A m \in Nat \ {0} : Len(SubSeq(s, m, Len(s))) \in Nat
  BY <1>1
<1> QED
  BY <1>2, <1>3, <1>4, <1>5, <1>6, <1>7

\* A word that is completed begins in the text.
LEMMA MarkInText ==
  ASSUME NEW s \in Texts, NEW key, NEW stops
  PROVE  Mark(s, key, stops) \in 0..Len(s)
<1> DEFINE marks == {i \in 1..Len(s) : /\ s[i] = key
                                       /\ i = 1 \/ s[i - 1] \in Separators
                                       /\ \A j \in i + 1..Len(s) : s[j] \notin stops}
<1>1. Len(s) \in Nat
  BY PartsOfTexts
<1>2. marks \subseteq 1..Len(s)
  BY Zenon
<1>3. Mark(s, key, stops) = IF marks = {} THEN 0
                            ELSE CHOOSE i \in marks : \A j \in marks : j <= i
  BY DEF Mark
<1> HIDE DEF marks
<1>4. marks # {} => \E i \in marks : \A j \in marks : j <= i
  <2>1. 1..Len(s) \subseteq 0..Len(s)
    BY <1>1
  <2> QED
    BY <1>1, <1>2, <2>1, GreatestNumber
<1>5. marks # {} => Mark(s, key, stops) \in marks
  BY <1>3, <1>4
<1>6. 1..Len(s) \subseteq 0..Len(s) /\ 0 \in 0..Len(s)
  BY <1>1
<1> QED
  BY <1>2, <1>3, <1>5, <1>6

\* What a provider is asked for is a word of the text.
LEMMA QueryInText ==
  ASSUME NEW s \in Texts, NEW p \in Providers, Query(p, s) # Nothing
  PROVE  Query(p, s) \in Words
<1>1. Begins(p, s) \in 0..Len(s)
  <2>1. Len(s) \in Nat /\ s # <<>> => 1 \in 0..Len(s)
    BY PartsOfTexts
  <2>2. /\ Mark(s, "@", Separators) \in 0..Len(s) /\ Mark(s, "~", {"~"}) \in 0..Len(s)
        /\ 0 \in 0..Len(s)
    BY <2>1, MarkInText
  <2> QED
    BY <2>1, <2>2 DEF Begins, Providers
<1>2. Begins(p, s) # 0 /\ Query(p, s) = SubSeq(s, Begins(p, s), Len(s))
  BY DEF Query
<1>3. \A b \in 1..Len(s) : SubSeq(s, b, Len(s)) \in Texts /\ SubSeq(s, b, Len(s)) # <<>>
  BY PartsOfTexts
<1>4. Begins(p, s) \in 1..Len(s)
  BY <1>1, <1>2, PartsOfTexts
<1> QED
  BY <1>2, <1>3, <1>4 DEF Words

\* A suffix is the end of the text.
LEMMA SuffixIsEnd ==
  ASSUME NEW K, NEW s \in Seq(K), NEW t \in Seq(K), IsSuffix(s, t)
  PROVE  Len(s) <= Len(t) /\ SubSeq(t, Len(t) - Len(s) + 1, Len(t)) = s
<1> DEFINE a == Reverse(s)
           b == Reverse(t)
<1>1. Len(s) \in Nat /\ Len(t) \in Nat
  OBVIOUS
<1>2. /\ a \in Seq(K) /\ Len(a) = Len(s) /\ \A i \in 1..Len(s) : a[i] = s[Len(s) - i + 1]
      /\ b \in Seq(K) /\ Len(b) = Len(t) /\ \A i \in 1..Len(t) : b[i] = t[Len(t) - i + 1]
  <2>1. ASSUME NEW q \in Seq(K)
        PROVE  /\ Reverse(q) \in Seq(K) /\ Len(Reverse(q)) = Len(q)
               /\ \A i \in 1..Len(q) : Reverse(q)[i] = q[Len(q) - i + 1]
    <3>1. \A i \in 1..Len(q) : Len(q) - i + 1 \in 1..Len(q)
      OBVIOUS
    <3> QED
      BY <3>1 DEF Reverse
  <2> QED
    BY <2>1
<1>3. Len(a) <= Len(b) /\ SubSeq(a, 1, Len(a)) = SubSeq(b, 1, Len(a))
  BY DEF IsSuffix, IsPrefix
<1> HIDE DEF a, b
<1>4. \A i \in 1..Len(s) : a[i] = b[i]
  <2>1. \A i \in 1..Len(s) : SubSeq(a, 1, Len(a))[i] = a[i] /\ SubSeq(b, 1, Len(a))[i] = b[i]
    BY <1>1, <1>2, <1>3
  <2> QED
    BY <1>3, <2>1
<1>5. \A i \in 1..Len(s) : s[Len(s) - i + 1] = t[Len(t) - i + 1]
  BY <1>1, <1>2, <1>3, <1>4
<1>6. ASSUME NEW j \in 1..Len(s) PROVE s[j] = t[Len(t) - Len(s) + j]
  <2>1. /\ Len(s) - j + 1 \in 1..Len(s) /\ Len(s) - (Len(s) - j + 1) + 1 = j
        /\ Len(t) - (Len(s) - j + 1) + 1 = Len(t) - Len(s) + j
    BY <1>1
  <2> QED
    BY <1>5, <2>1
<1> DEFINE e == SubSeq(t, Len(t) - Len(s) + 1, Len(t))
<1>7. /\ e \in Seq(K) /\ Len(e) = Len(s)
      /\ \A j \in 1..Len(s) : e[j] = t[Len(t) - Len(s) + j]
  BY <1>1, <1>2, <1>3
<1> HIDE DEF e
<1>8. e = s
  BY <1>6, <1>7
<1> QED
  BY <1>2, <1>3, <1>8 DEF e

-----------------------------------------------------------------------------
(* Suggestions: what a completion does to the text.                        *)

\* The overlap of a word and the text is a number of keys.
LEMMA OverlapIsNumber ==
  ASSUME NEW term \in Texts, NEW matched \in Texts
  PROVE  Overlap(term, matched) \in Nat
<1> DEFINE tail == SubSeq(term, Len(matched) + 1, Len(term))
           ends == {n \in 1..Len(tail) : IsSuffix(SubSeq(tail, 1, n), text)}
<1>1. Len(tail) \in Nat
  <2>1. Len(matched) + 1 \in Nat \ {0}
    BY PartsOfTexts
  <2> QED
    BY <2>1, PartsOfTexts
<1>2. ends \subseteq 1..Len(tail)
  BY Zenon
<1>3. Overlap(term, matched) = IF ends = {} THEN 0 ELSE CHOOSE n \in ends : \A m \in ends : m <= n
  BY DEF Overlap
<1> HIDE DEF ends
<1>4. ends # {} => \E n \in ends : \A m \in ends : m <= n
  <2>1. 1..Len(tail) \subseteq 0..Len(tail)
    BY <1>1 DEF tail
  <2> QED
    BY <1>1, <1>2, <2>1, GreatestNumber DEF tail
<1>5. ends # {} => Overlap(term, matched) \in ends
  BY <1>3, <1>4
<1>6. 1..Len(tail) \subseteq Nat
  BY <1>1
<1> HIDE DEF tail
<1>7. CASE ends = {}
  BY <1>3, <1>7
<1>8. CASE ends # {}
  BY <1>2, <1>5, <1>6, <1>8
<1> QED
  BY <1>7, <1>8

\* A text remains one, and what a word replaces when it is completed well is
\* one that it is offered for.
KeepsText ==
  mishap' = "none" =>
    /\ rest' = rest
    /\ \E k \in 0..Len(text) - 1, p \in Providers : \E term \in Known[p] \cup Remote[p] :
         /\ Found(p, term, SubSeq(text, k + 1, Len(text)))
         /\ text' = SubSeq(text, 1, k) \o term \o <<" ">>

LEMMA CompletionEffect ==
  ASSUME text \in Texts, rest \in BOOLEAN, NEW matched \in Texts, NEW terms, NEW spinner, NEW unaware,
         WordList([matched |-> matched, terms |-> terms, spinner |-> spinner]), NEW term \in terms,
         CompleteWord(term, matched, spinner, unaware),
         ~unaware => IsSuffix(matched, text)
  PROVE  text' \in Texts /\ list' = Cleared /\ KeepsText
<1> DEFINE n == Overlap(term, matched)
           left == IF Len(text) > n + Len(matched) THEN Len(text) - n - Len(matched) ELSE 0
           space == <<" ">>
           start == SubSeq(text, 1, Len(text) - Len(matched))
<1>1. /\ term \in Texts /\ matched # <<>>
      /\ term \notin spinner => Offered(term, matched)
  <2> DEFINE l == [matched |-> matched, terms |-> terms, spinner |-> spinner]
  <2>1. l.matched = matched /\ l.terms = terms /\ l.spinner = spinner
    OBVIOUS
  <2> HIDE DEF l
  <2>2. WordList(l)
    BY DEF l
  <2> QED
    BY <2>1, <2>2 DEF WordList
<1>2. n \in Nat /\ Len(text) \in Nat /\ Len(matched) \in Nat
  BY <1>1, OverlapIsNumber, PartsOfTexts
<1>3. left \in 0..Len(text)
  BY <1>2
<1>4. space \in Texts /\ \A a \in Texts : \A b \in Texts : a \o b \in Texts
  BY SpaceIsText, PartsOfTexts
<1>5. /\ text' = IF IsSuffix(matched, text) THEN start \o term \o space
                 ELSE IF n = 0 THEN text
                 ELSE SubSeq(text, 1, left) \o term \o space
      /\ rest' = (rest /\ (IsSuffix(matched, text) \/ n # 0))
      /\ list' = Cleared
      /\ mishap' = IF term \in spinner THEN "spinner"
                   ELSE IF unaware /\ ~IsSuffix(matched, text) THEN "outdated" ELSE "none"
  BY Zenon DEF CompleteWord, Replaced
<1> HIDE DEF n, left
<1>6. IsSuffix(matched, text) => Len(matched) <= Len(text)
  <2>1. PICK K : Texts = Seq(K)
    BY TextsAreSequences
  <2> QED
    BY <2>1, SuffixIsEnd
<1>7. /\ SubSeq(text, 1, left) \in Texts
      /\ IsSuffix(matched, text) => start \in Texts
  <2>1. 1 \in 1..Len(text) + 1
    BY <1>2
  <2>2. IsSuffix(matched, text) => Len(text) - Len(matched) \in 0..Len(text)
    BY <1>2, <1>6
  <2> QED
    BY <1>3, <2>1, <2>2, PartsOfTexts
<1> HIDE DEF start, space
<1>8. text' \in Texts
  BY <1>1, <1>4, <1>5, <1>7
<1>9. ASSUME mishap' = "none", NEW k, k = Len(text) - Len(matched)
      PROVE  /\ rest' = rest /\ k \in 0..Len(text) - 1
             /\ Offered(term, SubSeq(text, k + 1, Len(text)))
             /\ text' = SubSeq(text, 1, k) \o term \o <<" ">>
  <2>1. IsSuffix(matched, text) /\ term \notin spinner
    BY <1>5, <1>9
  <2>2. rest \in BOOLEAN => rest' = rest
    BY <1>5, <2>1
  <2>3. PICK K : Texts = Seq(K)
    BY TextsAreSequences
  <2>4. Len(matched) <= Len(text) /\ SubSeq(text, k + 1, Len(text)) = matched
    BY <1>9, <2>1, <2>3, SuffixIsEnd
  <2>5. Len(matched) >= 1
    BY <1>1, PartsOfTexts
  <2>6. k \in 0..Len(text) - 1
    BY <1>2, <1>9, <2>4, <2>5
  <2>7. text' = start \o term \o space
    BY <1>5, <2>1
  <2>8. text' = SubSeq(text, 1, k) \o term \o <<" ">>
    BY <1>9, <2>7, Zenon DEF start, space
  <2> QED
    BY <1>1, <2>1, <2>2, <2>4, <2>6, <2>8
<1>10. KeepsText
  <2> DEFINE k == Len(text) - Len(matched)
  <2> HIDE DEF k
  <2>1. ASSUME mishap' = "none"
        PROVE  /\ rest' = rest /\ k \in 0..Len(text) - 1
               /\ Offered(term, SubSeq(text, k + 1, Len(text)))
               /\ text' = SubSeq(text, 1, k) \o term \o <<" ">>
    BY <1>9, <2>1 DEF k
  <2> QED
    BY <2>1, Zenon DEF KeepsText, Offered
<1> QED
  BY <1>5, <1>8, <1>10

\* What is received, or completed.
Keeps == <<text, rest>>' # <<text, rest>> => KeepsText

\* What a provider returns is such a list, if its terms are offered for the word.
LEMMA ListIsOfWords ==
  ASSUME NEW matched \in Words, NEW terms, NEW spinner, terms \subseteq Texts,
         \A t \in terms \ spinner : Offered(t, matched)
  PROVE  WordList([matched |-> matched, terms |-> terms, spinner |-> spinner])
BY DEF WordList, Words

\* And so is the empty list.
LEMMA ClearedIsOfWords == WordList(Cleared)
<1>1. Cleared.matched = <<>> /\ Cleared.terms = {}
  BY DEF Cleared
<1>2. <<>> \in Texts
  <2>1. PICK K : Texts = Seq(K)
    BY TextsAreSequences
  <2> QED
    BY <2>1
<1> QED
  BY <1>1, <1>2 DEF WordList

\* A list that is received is shown, or its term completed at once.
LEMMA ReceiveKeeps ==
  ASSUME TextTypes, NEW complete, NEW matched \in Words, NEW terms, NEW spinner, NEW known,
         terms \subseteq Texts, \A t \in terms \ spinner : Offered(t, matched),
         Receive(complete, [matched |-> matched, terms |-> terms, spinner |-> spinner], known)
  PROVE  text' \in Texts /\ rest' \in BOOLEAN /\ WordList(list') /\ Keeps
<1> DEFINE l == [matched |-> matched, terms |-> terms, spinner |-> spinner]
<1>1. WordList(l) /\ l.matched = matched /\ l.terms = terms /\ l.spinner = spinner
  BY ListIsOfWords
<1>2. \/ \E term \in l.terms \ {<<>>} : CompleteWord(term, l.matched, l.spinner, TRUE)
      \/ list' = l /\ UNCHANGED <<text, rest, mishap>>
  BY DEF Receive
<1> HIDE DEF l
<1>3. CASE list' = l /\ UNCHANGED <<text, rest, mishap>>
  BY <1>1, <1>3 DEF Keeps, TextTypes
<1>4. ASSUME NEW term \in terms, CompleteWord(term, matched, spinner, TRUE)
      PROVE  text' \in Texts /\ rest' \in BOOLEAN /\ WordList(list') /\ Keeps
  <2>1. rest' \in BOOLEAN
    BY <1>4 DEF CompleteWord
  <2>2. text' \in Texts /\ list' = Cleared /\ KeepsText
    BY <1>1, <1>4, CompletionEffect DEF l, TextTypes, Words
  <2> QED
    BY <2>1, <2>2, ClearedIsOfWords DEF Keeps
<1> QED
  BY <1>1, <1>2, <1>3, <1>4

\* The terms of the store and the server are sequences of keys, and those shown
\* are offered for what they complete.
LEMMA TermsOfProviders ==
  ASSUME NEW q
  PROVE  /\ \A p \in Providers : Known[p] \subseteq Texts /\ Remote[p] \subseteq Texts
         /\ \A p, terms : Matching(p, terms, q) \subseteq terms
         /\ \A p \in Providers : \A terms \in SUBSET (Known[p] \cup Remote[p]) :
              \A t \in Matching(p, terms, q) : Offered(t, q)
<1>1. PICK K : Texts = Seq(K) /\ Keys \subseteq K
  BY TextsAreSequences
<1>2. Seq(Keys) \subseteq Texts
  BY <1>1
<1>3. \A p \in Providers : Known[p] \subseteq Texts /\ Remote[p] \subseteq Texts
  BY <1>2, AutocompleteAssumption DEF AutocompleteAssumption
<1> QED
  BY <1>3 DEF Matching, Offered

LEMMA UsersOfProvider ==
  ASSUME NEW data, NEW q
  PROVE  Users(data, q) \subseteq Texts /\ \A t \in Users(data, q) : Offered(t, q)
<1>1. PICK local, far :
        /\ Users(data, q) = Matching("users", local, q) \cup far
        /\ local = Known["users"]
        /\ far = {} \/ far = Matching("users", Matching("users", Remote["users"], data), q)
  BY DEF Users
<1>2. "users" \in Providers
  BY DEF Providers
<1>3. Matching("users", Remote["users"], data) \subseteq Remote["users"]
  BY TermsOfProviders
<1>4. /\ far \subseteq Remote["users"] /\ Matching("users", local, q) \subseteq Known["users"]
      /\ \A t \in far : Offered(t, q)
  BY <1>1, <1>2, <1>3, TermsOfProviders
<1> QED
  BY <1>1, <1>2, <1>4, TermsOfProviders

\* A new request is for a word.
LEMMA AskWords ==
  ASSUME SuggestTypes, AskedWords, NEW p, NEW q \in Words, NEW complete \in BOOLEAN,
         Ask(p, q, complete)
  PROVE  AskedWords'
<1>1. \A i \in DOMAIN asked' : \/ i \in DOMAIN asked /\ asked'[i] = asked[i]
                               \/ asked'[i].provider = p /\ asked'[i].query = q
  BY AskEffect
<1> QED
  BY <1>1 DEF AskedWords

\* An answer asks for nothing.
LEMMA AnsweredWords ==
  ASSUME SuggestTypes, AskedWords, NEW i \in DOMAIN asked, Answered(i)
  PROVE  AskedWords'
<1>1. \A j \in DOMAIN asked' : \E k \in DOMAIN asked : asked'[j] = asked[k]
  BY AnsweredEffect
<1> QED
  BY <1>1 DEF AskedWords

\* What a provider remembers stays a word.
LEMMA LatestKept ==
  ASSUME SuggestTypes, LatestWords, NEW p \in {"users", "channels"}
  PROVE  /\ \A q \in Words : Start(p, q) => LatestWords'
         /\ Reset(p) => LatestWords'
         /\ \A q : Seen(p, q) => LatestWords'
<1>1. ASSUME NEW q \in Words, Start(p, q) PROVE LatestWords'
  BY <1>1, StartEffect DEF LatestWords
<1>2. ASSUME Reset(p) PROVE LatestWords'
  BY <1>2, ResetEffect DEF LatestWords
<1>3. ASSUME NEW q, Seen(p, q) PROVE LatestWords'
  BY <1>3, SeenEffect DEF LatestWords
<1> QED
  BY <1>1, <1>2, <1>3

\* The box asks the providers.
LEMMA AskCommandsKeeps ==
  ASSUME SuggestTypes, WordsInv, NEW s \in Texts, NEW complete \in BOOLEAN, NEW known,
         Query("commands", s) # Nothing, AskCommands(s, complete, known)
  PROVE  /\ text' \in Texts /\ rest' \in BOOLEAN /\ WordList(list') /\ Keeps
         /\ AskedWords' /\ LatestWords'
<1>1. Query("commands", s) \in Words
  BY QueryInText DEF Providers
<1>2. /\ Ask("commands", Query("commands", s), complete) /\ Reset("channels")
      /\ UNCHANGED <<text, rest, list>>
  BY DEF AskCommands
<1> QED
  BY <1>1, <1>2, AskWords, LatestKept DEF WordsInv, TextTypes, Keeps

LEMMA AskNobodyKeeps ==
  ASSUME SuggestTypes, WordsInv, NEW known, AskNobody(known)
  PROVE  /\ text' \in Texts /\ rest' \in BOOLEAN /\ WordList(list') /\ Keeps
         /\ AskedWords' /\ LatestWords'
<1>1. Reset("channels") /\ list' = Cleared /\ UNCHANGED <<text, rest, asked>>
  BY DEF AskNobody
<1> QED
  BY <1>1, LatestKept, ClearedIsOfWords DEF WordsInv, TextTypes, Keeps, AskedWords

LEMMA AskUsersKeeps ==
  ASSUME SuggestTypes, WordsInv, NEW s \in Texts, NEW complete \in BOOLEAN,
         Query("users", s) # Nothing, AskUsers(s, complete)
  PROVE  /\ text' \in Texts /\ rest' \in BOOLEAN /\ WordList(list') /\ Keeps
         /\ AskedWords' /\ LatestWords'
<1>1. PICK q : q = Query("users", s)
  OBVIOUS
<1>2. q \in Words
  BY <1>1, QueryInText DEF Providers
<1>3. /\ Start("users", q) /\ Ask("users", q, complete)
      /\ Receive(complete, [matched |-> q, terms |-> Users(memo.data, q), spinner |-> {}], memo)
  BY <1>1 DEF AskUsers
<1>4. text' \in Texts /\ rest' \in BOOLEAN /\ WordList(list') /\ Keeps
  BY <1>2, <1>3, ReceiveKeeps, UsersOfProvider DEF WordsInv
<1> QED
  BY <1>2, <1>3, <1>4, AskWords, LatestKept DEF WordsInv

LEMMA AskChannelsKeeps ==
  ASSUME SuggestTypes, WordsInv, NEW s \in Texts, NEW complete \in BOOLEAN,
         Query("channels", s) # Nothing, AskChannels(s, complete)
  PROVE  /\ text' \in Texts /\ rest' \in BOOLEAN /\ WordList(list') /\ Keeps
         /\ AskedWords' /\ LatestWords'
<1> DEFINE q == Query("channels", s)
           spinner == {<<" ">>}
           known == [memo EXCEPT !.trimmed = Trim(q)]
           terms == Matching("channels", Known["channels"], q) \cup spinner
<1>1. q \in Words
  BY QueryInText DEF Providers
<1>2. terms \subseteq Texts /\ \A t \in terms \ spinner : Offered(t, q)
  <2>1. spinner \subseteq Texts
    BY SpaceIsText, Zenon
  <2> HIDE DEF q, spinner
  <2>2. "channels" \in Providers
    BY DEF Providers
  <2> QED
    BY <2>1, <2>2, TermsOfProviders
<1>3. \/ Reset("channels") /\ UNCHANGED <<text, rest, list, asked>>
      \/ /\ Start("channels", q) /\ Ask("channels", q, complete)
         /\ Receive(complete, [matched |-> q, terms |-> terms, spinner |-> spinner],
                    [known EXCEPT !.word = Nothing])
      \/ Query("commands", s) # Nothing /\ AskCommands(s, complete, known)
      \/ AskNobody(known)
  BY DEF AskChannels
<1> HIDE DEF q, known, terms, spinner
<1>4. CASE Reset("channels") /\ UNCHANGED <<text, rest, list, asked>>
  BY <1>4, LatestKept DEF WordsInv, TextTypes, Keeps, AskedWords
<1>5. CASE /\ Start("channels", q) /\ Ask("channels", q, complete)
           /\ Receive(complete, [matched |-> q, terms |-> terms, spinner |-> spinner],
                      [known EXCEPT !.word = Nothing])
  <2>1. text' \in Texts /\ rest' \in BOOLEAN /\ WordList(list') /\ Keeps
    BY <1>1, <1>2, <1>5, ReceiveKeeps DEF WordsInv
  <2> QED
    BY <1>1, <1>5, <2>1, AskWords, LatestKept DEF WordsInv
<1> QED
  BY <1>3, <1>4, <1>5, AskCommandsKeeps, AskNobodyKeeps

LEMMA PretextKeeps ==
  ASSUME SuggestTypes, WordsInv, NEW s \in Texts, NEW complete \in BOOLEAN, timer' = {},
         UNCHANGED edits, PretextChanged(s, complete)
  PROVE  WordsInv' /\ Keeps
<1>1. pretext' = s
  BY DEF PretextChanged
<1>2. \/ Handler(s) = "users" /\ AskUsers(s, complete)
      \/ Handler(s) = "channels" /\ AskChannels(s, complete)
      \/ Handler(s) = "commands" /\ AskCommands(s, complete, memo)
      \/ AskNobody(memo)
  BY HandlerHasQuery DEF PretextChanged
<1>3. \A p \in Providers : Handler(s) = p => Query(p, s) # Nothing
  BY HandlerHasQuery
<1>4. /\ text' \in Texts /\ rest' \in BOOLEAN /\ WordList(list') /\ Keeps
      /\ AskedWords' /\ LatestWords'
  BY <1>2, <1>3, AskUsersKeeps, AskChannelsKeeps, AskCommandsKeeps, AskNobodyKeeps
  DEF Providers
<1> QED
  BY <1>1, <1>4 DEF WordsInv, TextTypes

\* The user.
LEMMA EditKeeps ==
  ASSUME WordsInv, NEW s \in Texts, Edit(s)
  PROVE  WordsInv' /\ edits' # edits
<1>1. /\ text' = s /\ pretext' = s /\ edits' = edits + 1
      /\ timer' = timer \/ timer' = {s}
      /\ UNCHANGED <<rest, list, latest, asked>>
  BY DEF Edit
<1> QED
  BY <1>1 DEF WordsInv, TextTypes, AskedWords, LatestWords

LEMMA KeysKeep ==
  ASSUME WordsInv, (\E key \in Typed : Press(key)) \/ Backspace
  PROVE  WordsInv' /\ edits' # edits
<1>1. PICK K : Texts = Seq(K) /\ Keys \subseteq K
  BY TextsAreSequences
<1>2. text \in Seq(K)
  BY <1>1 DEF WordsInv, TextTypes
<1>3. \A key \in Typed : Append(text, key) \in Texts
  BY <1>1, <1>2, AutocompleteAssumption DEF AutocompleteAssumption
<1>4. text # <<>> => Front(text) \in Texts
  BY <1>1, <1>2 DEF Front
<1> QED
  BY <1>3, <1>4, EditKeeps DEF Press, Backspace

\* A completion, by a click or by a key.
LEMMA CompletionKeeps ==
  ASSUME WordsInv, NEW term \in list.terms, NEW unaware, ~unaware => IsSuffix(list.matched, text),
         CompleteWord(term, list.matched, list.spinner, unaware),
         UNCHANGED <<pretext, timer, latest, asked, edits>>
  PROVE  WordsInv' /\ Keeps
<1> DEFINE l == [matched |-> list.matched, terms |-> list.terms, spinner |-> list.spinner]
<1>1. WordList(l)
  BY DEF WordsInv, WordList
<1> HIDE DEF l
<1>2. rest' \in BOOLEAN
  BY DEF CompleteWord, WordsInv, TextTypes
<1>3. list.matched \in Texts
  BY DEF WordsInv, WordList
<1>4. text' \in Texts /\ list' = Cleared /\ KeepsText
  BY <1>1, <1>3, CompletionEffect DEF l, WordsInv, TextTypes
<1> QED
  BY <1>2, <1>4, ClearedIsOfWords DEF WordsInv, TextTypes, Keeps, AskedWords, LatestWords

LEMMA UserKeeps ==
  ASSUME WordsInv, Clear \/ \E term \in list.terms : Click(term) \/ EnterCompletes(term)
  PROVE  WordsInv' /\ Keeps
<1>1. CASE Clear
  BY <1>1, ClearedIsOfWords DEF Clear, WordsInv, TextTypes, Keeps, AskedWords, LatestWords
<1>2. ASSUME NEW term \in list.terms, Click(term) PROVE WordsInv' /\ Keeps
  BY <1>2, CompletionKeeps DEF Click
<1>3. ASSUME NEW term \in list.terms, EnterCompletes(term) PROVE WordsInv' /\ Keeps
  <2>1. pretext = text => IsSuffix(list.matched, text)
    BY <1>3 DEF EnterCompletes, ListFits
  <2> QED
    BY <1>3, <2>1, CompletionKeeps DEF EnterCompletes
<1> QED
  BY <1>1, <1>2, <1>3

\* The answers.
LEMMA UsersReceiveKeeps ==
  ASSUME SuggestTypes, WordsInv, NEW complete, NEW data, NEW spinner, NEW known,
         latest["users"].started, spinner \subseteq {<<>>},
         Receive(complete, [matched |-> latest["users"].prefix, spinner |-> spinner,
                            terms |-> Users(data, latest["users"].prefix) \cup spinner], known)
  PROVE  text' \in Texts /\ rest' \in BOOLEAN /\ WordList(list') /\ Keeps
<1>1. latest["users"].prefix \in Words
  BY DEF WordsInv, LatestWords
<1>2. PICK q \in Words : q = latest["users"].prefix
  BY <1>1
<1>3. spinner \subseteq Texts
  <2>1. PICK K : Texts = Seq(K)
    BY TextsAreSequences
  <2>2. <<>> \in Texts
    BY ONLY <2>1
  <2> QED
    BY ONLY <2>2, spinner \subseteq {<<>>}
<1>4. /\ Users(data, q) \cup spinner \subseteq Texts
      /\ \A t \in (Users(data, q) \cup spinner) \ spinner : Offered(t, q)
  BY <1>3, UsersOfProvider
<1>5. [matched |-> q, spinner |-> spinner, terms |-> Users(data, q) \cup spinner]
        = [matched |-> q, terms |-> Users(data, q) \cup spinner, spinner |-> spinner]
  OBVIOUS
<1> QED
  BY <1>2, <1>4, <1>5, ReceiveKeeps DEF WordsInv

LEMMA UsersAnswerKeeps ==
  ASSUME SuggestTypes, WordsInv, NEW i \in DOMAIN asked, UsersAnswer(i)
  PROVE  WordsInv' /\ Keeps
<1>1. AskedWords' /\ LatestWords' /\ UNCHANGED <<pretext, timer, edits>>
  BY AnsweredWords, LatestKept DEF UsersAnswer, WordsInv
<1>2. CASE ShouldCancel("users", asked[i].query)
  BY <1>1, <1>2 DEF UsersAnswer, WordsInv, TextTypes, Keeps
<1>3. CASE ~ShouldCancel("users", asked[i].query)
  <2>1. PICK data, known :
          Receive(asked[i].complete,
                  [matched |-> latest["users"].prefix,
                   terms |-> Users(data, latest["users"].prefix), spinner |-> {}], known)
    BY <1>3 DEF UsersAnswer
  <2>2. [matched |-> latest["users"].prefix,
         terms |-> Users(data, latest["users"].prefix), spinner |-> {}]
          = [matched |-> latest["users"].prefix, spinner |-> {},
             terms |-> Users(data, latest["users"].prefix) \cup {}]
    OBVIOUS
  <2>3. latest["users"].started
    BY <1>3 DEF ShouldCancel
  <2>4. text' \in Texts /\ rest' \in BOOLEAN /\ WordList(list') /\ Keeps
    BY <2>1, <2>2, <2>3, UsersReceiveKeeps
  <2> QED
    BY <1>1, <2>4 DEF WordsInv, TextTypes
<1> QED
  BY <1>2, <1>3

LEMMA SpinnerKeeps ==
  ASSUME SuggestTypes, WordsInv, NEW i \in DOMAIN asked, Spinner(i)
  PROVE  WordsInv' /\ Keeps
<1>1. AskedWords' /\ LatestWords' /\ UNCHANGED <<pretext, timer, edits>>
  <2>1. asked' = [asked EXCEPT ![i].waiting = FALSE] /\ Seen("users", asked[i].query)
        /\ UNCHANGED <<pretext, timer, edits>>
    BY DEF Spinner
  <2>2. DOMAIN asked' = DOMAIN asked /\ \A j \in DOMAIN asked : asked'[j].query = asked[j].query
    BY <2>1 DEF SuggestTypes, RequestRecord
  <2> QED
    BY <2>1, <2>2, LatestKept DEF WordsInv, AskedWords
<1>2. CASE ShouldCancel("users", asked[i].query)
  BY <1>1, <1>2 DEF Spinner, WordsInv, TextTypes, Keeps
<1>3. CASE ~ShouldCancel("users", asked[i].query)
  <2>1. Receive(asked[i].complete,
                [matched |-> latest["users"].prefix, spinner |-> {<<>>},
                 terms |-> Users(memo.data, latest["users"].prefix) \cup {<<>>}], memo)
    BY <1>3 DEF Spinner
  <2>2. latest["users"].started
    BY <1>3 DEF ShouldCancel
  <2>3. text' \in Texts /\ rest' \in BOOLEAN /\ WordList(list') /\ Keeps
    BY <2>1, <2>2, UsersReceiveKeeps
  <2> QED
    BY <1>1, <2>3 DEF WordsInv, TextTypes
<1> QED
  BY <1>2, <1>3

LEMMA OthersReceiveKeeps ==
  ASSUME WordsInv, NEW complete, NEW q \in Words, NEW p \in Providers, NEW known,
         NEW terms \in SUBSET (Known[p] \cup Remote[p]),
         Receive(complete, [matched |-> q, spinner |-> {}, terms |-> Matching(p, terms, q)], known)
  PROVE  text' \in Texts /\ rest' \in BOOLEAN /\ WordList(list') /\ Keeps
<1>1. /\ Matching(p, terms, q) \subseteq Texts
      /\ \A t \in Matching(p, terms, q) \ {} : Offered(t, q)
  BY TermsOfProviders
<1>2. [matched |-> q, spinner |-> {}, terms |-> Matching(p, terms, q)]
        = [matched |-> q, terms |-> Matching(p, terms, q), spinner |-> {}]
  OBVIOUS
<1> QED
  BY <1>1, <1>2, ReceiveKeeps DEF WordsInv

LEMMA ChannelsAnswerKeeps ==
  ASSUME SuggestTypes, WordsInv, NEW i \in DOMAIN asked, ChannelsAnswer(i)
  PROVE  WordsInv' /\ Keeps
<1>1. AskedWords' /\ LatestWords' /\ UNCHANGED <<pretext, timer, edits>>
  BY AnsweredWords, LatestKept DEF ChannelsAnswer, WordsInv
<1>2. CASE ShouldCancel("channels", asked[i].query)
  BY <1>1, <1>2 DEF ChannelsAnswer, WordsInv, TextTypes, Keeps
<1>3. CASE ~ShouldCancel("channels", asked[i].query)
  <2>1. PICK known :
          Receive(asked[i].complete,
                  [matched |-> asked[i].query, spinner |-> {},
                   terms |-> Matching("channels", Known["channels"] \cup Remote["channels"],
                                      asked[i].query)],
                  known)
    BY <1>3 DEF ChannelsAnswer
  <2>2. asked[i].query \in Words /\ "channels" \in Providers
    BY DEF WordsInv, AskedWords, Providers
  <2>3. text' \in Texts /\ rest' \in BOOLEAN /\ WordList(list') /\ Keeps
    BY <2>1, <2>2, OthersReceiveKeeps
  <2> QED
    BY <1>1, <2>3 DEF WordsInv, TextTypes
<1> QED
  BY <1>2, <1>3

LEMMA CommandsAnswerKeeps ==
  ASSUME SuggestTypes, WordsInv, NEW i \in DOMAIN asked, CommandsAnswer(i)
  PROVE  WordsInv' /\ Keeps
<1>1. /\ Receive(asked[i].complete,
                 [matched |-> asked[i].query, spinner |-> {},
                  terms |-> Matching("commands", Remote["commands"], asked[i].query)], memo)
      /\ Answered(i) /\ UNCHANGED <<pretext, timer, latest, edits>>
  BY DEF CommandsAnswer
<1>2. asked[i].query \in Words /\ "commands" \in Providers
  BY DEF WordsInv, AskedWords, Providers
<1>3. text' \in Texts /\ rest' \in BOOLEAN /\ WordList(list') /\ Keeps
  BY <1>1, <1>2, OthersReceiveKeeps
<1>4. AskedWords'
  BY <1>1, AnsweredWords DEF WordsInv
<1> QED
  BY <1>1, <1>3, <1>4 DEF WordsInv, TextTypes, LatestWords

\* Every step keeps the invariant, and what is not an edit keeps the text.
LEMMA WordsNextInv ==
  ASSUME SuggestTypes, WordsInv, [SuggestNext]_suggestVars
  PROVE  WordsInv' /\ (edits' = edits => Keeps)
<1>1. CASE (\E key \in Typed : Press(key)) \/ Backspace
  BY <1>1, KeysKeep
<1>2. CASE Clear \/ \E term \in list.terms : Click(term) \/ EnterCompletes(term)
  BY <1>2, UserKeeps
<1>3. CASE EnterAsks \/ Debounced
  <2>1. \E s \in Texts : \E complete \in BOOLEAN :
          timer' = {} /\ UNCHANGED edits /\ PretextChanged(s, complete)
    BY <1>3 DEF EnterAsks, Debounced, WordsInv, TextTypes
  <2> QED
    BY <2>1, PretextKeeps
<1>4. ASSUME NEW i \in DOMAIN asked, AnswerFails(i) PROVE WordsInv' /\ Keeps
  BY <1>4, AnsweredWords DEF AnswerFails, WordsInv, TextTypes, Keeps, LatestWords
<1>5. CASE \E i \in DOMAIN asked : \/ UsersAnswer(i) \/ ChannelsAnswer(i) \/ CommandsAnswer(i)
                                   \/ AnswerFails(i) \/ Spinner(i)
  BY <1>4, <1>5, UsersAnswerKeeps, ChannelsAnswerKeeps, CommandsAnswerKeeps, SpinnerKeeps
<1>6. CASE UNCHANGED suggestVars
  BY <1>6 DEF suggestVars, WordsInv, TextTypes, Keeps, AskedWords, LatestWords, WordList
<1> QED
  BY <1>1, <1>2, <1>3, <1>5, <1>6 DEF SuggestNext

\* The texts are sequences of keys, the providers are asked for words in them,
\* and the list is made of words that a provider has for what it would replace.
THEOREM WordsInvariant == SuggestSpec => []WordsInv
<1>1. ASSUME SuggestInit PROVE WordsInv
  <2>1. PICK K : Texts = Seq(K)
    BY TextsAreSequences
  <2>2. <<>> \in Texts
    BY <2>1
  <2>3. DOMAIN asked = {}
    BY <1>1 DEF SuggestInit
  <2> QED
    BY <1>1, <2>2, <2>3, ClearedIsOfWords
    DEF SuggestInit, WordsInv, TextTypes, AskedWords, LatestWords
<1>2. SuggestInv /\ WordsInv /\ [SuggestNext]_suggestVars => WordsInv'
  BY WordsNextInv DEF SuggestInv
<1> QED
  BY <1>1, <1>2, SuggestInvariant, PTL DEF SuggestSpec

\* A completion puts a word in the place of one that it was offered for, and
\* keeps what is around it, but for the named exceptions.
THEOREM CompletionsKeepText == SuggestSpec => CompletionKeepsText
<1>1. ASSUME SuggestInv, WordsInv, [SuggestNext]_suggestVars, edits' = edits,
             <<text, rest>>' # <<text, rest>>, mishap' = "none"
      PROVE  /\ rest' = rest
             /\ \E k \in 0..Len(text) - 1, p \in Providers : \E term \in Known[p] \cup Remote[p] :
                  /\ Found(p, term, SubSeq(text, k + 1, Len(text)))
                  /\ text' = SubSeq(text, 1, k) \o term \o <<" ">>
  <2>1. Keeps
    BY <1>1, WordsNextInv DEF SuggestInv
  <2> QED
    BY <1>1, <2>1, Zenon DEF Keeps, KeepsText
<1>2. SuggestInv /\ WordsInv /\ [SuggestNext]_suggestVars
        => [edits' = edits /\ <<text, rest>>' # <<text, rest>> /\ mishap' = "none"
              => /\ rest' = rest
                 /\ \E k \in 0..Len(text) - 1, p \in Providers :
                      \E term \in Known[p] \cup Remote[p] :
                        /\ Found(p, term, SubSeq(text, k + 1, Len(text)))
                        /\ text' = SubSeq(text, 1, k) \o term \o <<" ">>]_suggestVars
  BY <1>1, Zenon
<1> QED
  BY <1>2, SuggestInvariant, WordsInvariant, PTL DEF SuggestSpec, CompletionKeepsText
=============================================================================

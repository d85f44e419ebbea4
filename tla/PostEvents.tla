----------------------------- MODULE PostEvents -----------------------------
(***************************************************************************)
(* How the webapp applies the post events of its WebSocket                 *)
(* (actions/websocket_actions.jsx, actions/post_utils.js): a burst of new  *)
(* posts is queued and applied as one block, a comment whose root is not   *)
(* in the store waits for its thread, and edits and deletions are applied  *)
(* at once. So an edit or a deletion may overtake the post it is about.    *)
(* The posts of the store are those of mattermost-redux (external).        *)
(***************************************************************************)
EXTENDS Naturals, Sequences, SequencesExt, FiniteSets

CONSTANTS
  Posts,       \* the posts that may be made
  RootOf,      \* RootOf[p]: the post that p comments on, or p itself
  Burst,       \* 2 in the code: new posts beyond it are queued
  QueueLimit,  \* 200 in the code
  MaxEdits,    \* bound: edits of each post
  MaxFailures  \* bound: thread requests that fail

ASSUME PostAssumption == /\ RootOf \in [Posts -> Posts]
                         /\ \A p \in Posts : RootOf[RootOf[p]] = RootOf[p]
                         /\ {Burst, QueueLimit, MaxEdits, MaxFailures} \subseteq Nat
                         /\ "none" \notin Posts

VARIABLES
  server,      \* the posts at the server: absent, live or deleted, and their edits
  kept,        \* the posts in the client's store, likewise
  debounce,    \* the closure of debouncePostEvent: timeout, count, queue
  threads,     \* comments that wait for getPostThread, and its answers
  counted,     \* posts for which setChannelReadAndView has run
  older,       \* history: posts made before the client came, and not loaded
  overtaken,   \* history: posts that their deletion did not reach
  given,       \* history: posts given up, by a full queue or a failed request
  inBlock,     \* history: posts that were applied from the queue
  failures     \* thread requests that have failed

postVars == <<server, kept, debounce, threads, counted, older, overtaken, given, inBlock, failures>>

Absent == [state |-> "absent", edits |-> 0]

IsComment(p) == RootOf[p] # p

\* What the event carries: the post as it is at the server now.
Event(p) == [post |-> p, edits |-> server[p].edits]

\* getPostThread has not been answered.
NoThread == {[post |-> "none", edits |-> 0]}

\* The posts of an event of the queue or of a request that are still to come.
Coming == {e.post : e \in ToSet(debounce.queue) \cup UNION {{w.event} \cup w.thread : w \in threads}}

----------------------------------------------------------------------------
(* The reducer of posts.                                                   *)

\* receivedNewPost and receivedPost: a copy that is not newer than the one in
\* the store is ignored. A post marked as deleted keeps its time of update.
Received(posts, event) ==
  IF posts[event.post].state # "absent" /\ posts[event.post].edits >= event.edits
  THEN posts
  ELSE [posts EXCEPT ![event.post] = [state |-> "live", edits |-> event.edits]]

\* receivedPosts, or a batch of receivedNewPost, for events of different posts.
ReceivedAll(posts, events) ==
  [q \in Posts |-> LET of == {e \in events : e.post = q}
                   IN  IF of = {} THEN posts[q] ELSE Received(posts, CHOOSE e \in of : TRUE)[q]]

\* postDeleted: only a post in the store is marked, with its comments removed.
MarkedDeleted(posts, p) ==
  IF posts[p].state = "absent" THEN posts
  ELSE [q \in Posts |-> IF q = p THEN [posts[p] EXCEPT !.state = "deleted"]
                        ELSE IF RootOf[q] = p THEN Absent ELSE posts[q]]

\* Comments in the store without their root: a block or an edit stores one,
\* and the deletion of the root does not reach it.
Orphans == {p \in Posts : IsComment(p) /\ kept[RootOf[p]].state = "absent"}

----------------------------------------------------------------------------
(* New posts.                                                              *)

\* handleNewPostEvent and completePostReceive: a comment whose root is not in
\* the store waits for the thread; any other post is stored and counted.
NewPost(event) ==
  LET p == event.post
  IN  IF IsComment(p) /\ kept[RootOf[p]].state = "absent"
      THEN threads' = threads \cup {[event |-> event, thread |-> NoThread]} /\ UNCHANGED <<kept, counted>>
      ELSE kept' = Received(kept, event) /\ counted' = counted \cup {p} /\ UNCHANGED threads

\* The debounced handler of posted events. The first few of a burst are
\* applied; the others are queued, and a full queue is thrown away.
Posted(p) ==
  /\ server[p].state = "absent"
  /\ IsComment(p) => server[RootOf[p]].state = "live"
  /\ server' = [server EXCEPT ![p].state = "live"]
  /\ LET event == [post |-> p, edits |-> 0]
         queue == Append(debounce.queue, event)
     IN  IF debounce.timeout /\ debounce.count > Burst
         THEN /\ debounce' = [debounce EXCEPT !.queue =
                                IF Len(queue) > QueueLimit THEN <<>> ELSE queue]
              /\ given' = IF Len(queue) > QueueLimit
                          THEN given \cup {e.post : e \in ToSet(queue)} ELSE given
              /\ UNCHANGED <<kept, counted, threads>>
         ELSE /\ debounce' = [debounce EXCEPT !.timeout = TRUE, !.count = @ + 1]
              /\ NewPost(event)
              /\ UNCHANGED given
  /\ UNCHANGED <<older, overtaken, inBlock, failures>>

\* Mutant of Triggered: of a block, only the newest post is applied.
TriggeredLastOnly ==
  /\ debounce.timeout
  /\ kept' = IF debounce.queue = <<>> THEN kept ELSE Received(kept, Last(debounce.queue))
  /\ inBlock' = inBlock \cup {e.post : e \in ToSet(debounce.queue)}
  /\ debounce' = [timeout |-> FALSE, count |-> 0, queue |-> <<>>]
  /\ UNCHANGED <<older, server, threads, counted, overtaken, given, failures>>

\* The timer of the debounced handler: handleNewPostEvents stores the queue
\* as one block. It neither counts the posts nor asks for their threads.
Triggered ==
  /\ debounce.timeout
  /\ kept' = ReceivedAll(kept, ToSet(debounce.queue))
  /\ inBlock' = inBlock \cup {e.post : e \in ToSet(debounce.queue)}
  /\ debounce' = [timeout |-> FALSE, count |-> 0, queue |-> <<>>]
  /\ UNCHANGED <<older, server, threads, counted, overtaken, given, failures>>

\* getPostThread reaches the server: the live posts of the thread, or an
\* error when the root has been deleted.
ThreadAnswered(wait) ==
  /\ wait \in threads
  /\ wait.thread = NoThread
  /\ LET root == RootOf[wait.event.post]
         live == {q \in Posts : RootOf[q] = root /\ server[q].state = "live"}
     IN  IF server[root].state = "live"
         THEN /\ threads' = (threads \ {wait})
                             \cup {[wait EXCEPT !.thread = {Event(q) : q \in live}]}
              /\ UNCHANGED given
         ELSE /\ threads' = threads \ {wait}
              /\ given' = given \cup {wait.event.post}
  /\ UNCHANGED <<server, kept, debounce, counted, older, overtaken, inBlock, failures>>

\* Mutant of ThreadReceived: lastPostActions does not follow.
ThreadReceivedUncounted(wait) ==
  /\ wait \in threads
  /\ wait.thread # NoThread
  /\ threads' = threads \ {wait}
  /\ kept' = ReceivedAll(kept, wait.thread)
  /\ UNCHANGED <<server, counted, debounce, older, overtaken, given, inBlock, failures>>

\* The client receives the thread: it is stored, then the post of the event,
\* whatever has become of it since, and the post is counted.
ThreadReceived(wait) ==
  /\ wait \in threads
  /\ wait.thread # NoThread
  /\ threads' = threads \ {wait}
  /\ kept' = Received(ReceivedAll(kept, wait.thread), wait.event)
  /\ counted' = counted \cup {wait.event.post}
  /\ UNCHANGED <<server, debounce, older, overtaken, given, inBlock, failures>>

\* getPostThread fails: the comment is dropped.
ThreadFailed(wait) ==
  /\ wait \in threads
  /\ failures < MaxFailures
  /\ failures' = failures + 1
  /\ threads' = threads \ {wait}
  /\ given' = given \cup {wait.event.post}
  /\ UNCHANGED <<server, kept, debounce, counted, older, overtaken, inBlock>>

----------------------------------------------------------------------------
(* Edits and deletions.                                                    *)

\* handlePostEditEvent stores the post, whether or not it was there.
PostEdited(p) ==
  /\ server[p].state = "live"
  /\ server[p].edits < MaxEdits
  /\ server' = [server EXCEPT ![p].edits = @ + 1]
  /\ kept' = Received(kept, [post |-> p, edits |-> server[p].edits + 1])
  /\ UNCHANGED <<older, debounce, threads, counted, overtaken, given, inBlock, failures>>

\* handlePostDeleteEvent. The server deletes a root with its comments.
PostDeleted(p) ==
  /\ server[p].state = "live"
  /\ LET gone == {q \in Posts : RootOf[q] = p \/ q = p}
     IN  /\ server' = [q \in Posts |-> IF q \in gone /\ server[q].state = "live"
                                       THEN [server[q] EXCEPT !.state = "deleted"] ELSE server[q]]
         /\ overtaken' = overtaken \cup (gone \cap (Coming \cup Orphans))
  /\ kept' = MarkedDeleted(kept, p)
  /\ UNCHANGED <<older, debounce, threads, counted, given, inBlock, failures>>

----------------------------------------------------------------------------
\* The client comes with some of the posts of before, and with the root of
\* each comment among them (loadInitialPosts): older is the rest.
PostInit ==
  /\ \E before, loaded \in SUBSET Posts :
       /\ loaded \subseteq before
       /\ \A p \in before : RootOf[p] \in before
       /\ \A p \in loaded : RootOf[p] \in loaded
       /\ server = [p \in Posts |-> IF p \in before THEN [Absent EXCEPT !.state = "live"] ELSE Absent]
       /\ kept = [p \in Posts |-> IF p \in loaded THEN server[p] ELSE Absent]
       /\ older = before \ loaded
       /\ counted = before
  /\ debounce = [timeout |-> FALSE, count |-> 0, queue |-> <<>>]
  /\ threads = {}
  /\ overtaken = {} /\ given = {} /\ inBlock = {}
  /\ failures = 0

PostNext ==
  \/ \E p \in Posts : Posted(p) \/ PostEdited(p) \/ PostDeleted(p)
  \/ \E wait \in threads : ThreadAnswered(wait) \/ ThreadReceived(wait) \/ ThreadFailed(wait)
  \/ Triggered

PostSpec == PostInit /\ [][PostNext]_postVars

----------------------------------------------------------------------------
(* Properties.                                                             *)

\* Whatever the order in which bursts, threads, edits and deletions end, a
\* post that is not still to come is shown as the server has it: live and
\* with its last edit, or not at all. The exceptions are named: a post given
\* up (full queue, failed thread), one of before that was never loaded, and
\* one that its deletion did not reach.
StoreAgrees ==
  \A p \in Posts \ (Coming \cup given \cup overtaken) :
     /\ server[p].state = "live" => \/ kept[p] = server[p]
                                    \/ p \in older /\ kept[p].state = "absent"
     /\ server[p].state # "live" => kept[p].state # "live"

\* A post that is applied one by one is counted as read or unread, with or
\* without its thread: only the block of a burst is not
\* (actions/post_utils.js:63-69 against handleNewPostEvents).
CountedUnlessInBlock ==
  \A p \in Posts : kept[p].state = "live" /\ p \notin Coming \cup inBlock \cup given
                     => p \in counted
=============================================================================

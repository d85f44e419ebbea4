# A TLA+ model of the concurrent core of Mattermost

This directory specifies, model-checks and partly proves the parts of this repository whose
correctness depends on the order in which goroutines, nodes, clients and answers act: the hub and
the jobs of the server, and in the webapp the WebSocket client, what it does with the events, and
the components that wait for the server while the user goes on. Server paths below are relative to
`src/mattermost-server/`, webapp paths to `src/mattermost-webapp/`.

- **Part 1** is an inventory of the system.
- **Part 2** says which module models what, and how its state and actions read in the code.
- **Part 3** goes through the model-checking runs, their bounds, the fairness and the findings.
- **Part 4** goes through the proofs.
- **Part 5** says what is not modelled, and what is planned next.

To check a run: `tlc -config WebHubStop.cfg MCWebHub`. To check the proofs:
`tlapm MigrationJobs_proofs.tla`. The checked facts are listed in `PROJECT.json`, with the source
lines of every definition under `map`.

## 1. The system

The repository holds a Go server (`mattermost-server`), a React client (`mattermost-webapp`) and a
React Native client (`mattermost-mobile`). The server runs on one node or on several nodes that
share a database. Most of its code creates, reads, updates and deletes rows behind a REST API and
keeps no state of its own; most of the webapp renders what its store holds. The state that lives in
memory, and the protocols around it, is what this project is about.

| Component | State | Operations | Talks to | What is hard | What makes it correct |
|---|---|---|---|---|---|
| Connection index (`app/web_hub.go:536-593`) | slice of connections, slices by user, positions of each connection | `Add`, `Remove`, `ForUser`, `All` | the hub, which ranges over it | `Remove` swaps the last element into the freed slot, also inside a loop over the same array | the structures agree; a loop visits each connection once |
| Hub (`app/web_hub.go:42-534`) | channels, index, `connectionCount`, `ExplicitStop` | `Register`, `Unregister`, `Broadcast`, `InvalidateUser`, `UpdateActivity`, `Start`, `Stop`, recovery from a panic | connections, callers of `Publish`, session code, status code | one goroutine serves six channels; it calls code that may call it back; full queues; shutdown | no silent gap, no event without a session, no unexplained panic, `Stop` returns, callers are released |
| Connections (`app/web_conn.go`, `app/websocket_router.go`, `wsapi/`, `api4/websocket.go`) | `Send`, `endWritePump`, `pumpFinished`, cached session and its expiry, token | `Pump` (reader and writer), `Close`, `IsAuthenticated`, `SendHello`, requests | hub, sessions | reader, writer, hub and closer share channels and fields | events in order and once; a finished pump is forgotten |
| Sessions (`app/session.go`) | session cache, `Sessions` table | `GetSession`, `RevokeSession`, `ClearSessionCacheForUser` | hub, cluster | fill of the cache against its invalidation; an idle session is revoked by whoever looks at it | a revoked session is not used again |
| Migration jobs (`migrations/`, `jobs/`, `store/sqlstore/job_store.go`) | `Jobs` table, `Systems` table, member tables, a worker per node, a scheduler per leader | `ScheduleJob`, `ClaimJob`, `DoJob`, batches, `UpdateInProgressJobData`, `SetJob*`, `RequestCancellation`, `CancellationWatcher`, `Stop` | database, config listeners | several nodes, crashes, cancellations, jobs wrongly taken for dead, shutdown | one worker per job; completed means migrated; it completes |
| Schedulers loop (`jobs/schedulers.go`) | next run times | `Start`, `Stop`, config change, leader change | schedulers, configuration, cluster | dropped and blocking messages; errors that disable a scheduler | every enabled scheduler of the leader runs again |
| Status (`app/status.go`) | status cache, `Status` table | `SetStatus*`, `GetStatus*`, broadcasts | hub | cache fill against update, manual against automatic | the last change wins, and is what clients hear last |
| Email batching (`app/email_batching.go`, `model/scheduled_task.go`) | buffer, pending notifications, recurring task | `Add`, `CheckPendingEmails`, `Start` | preferences, posts | two tasks at once; deleted yet sent | each notification is sent or forgotten, once |
| Push hub (`app/notification_push.go:290-333`) | one channel per worker | `sendPushNotification`, `ClearPushNotification`, stop | posts | blocking senders, close against send | order per user, no send on a closed channel |
| Plugins (`plugin/environment.go`, `plugin/health_check.go`, `plugin/supervisor.go`) | active plugins, health statuses, the health check job | `Activate`, `Deactivate`, `RestartPlugin`, checks | configuration, RPC | restart against deactivation | a deactivated plugin stays so |
| Configuration (`config/`) | the configuration, listeners, file watcher | `Set`, `Load`, listeners, `Watch` | everything | listeners called after the unlock, reloads in parallel | listeners end with the current configuration |
| LRU cache (`utils/lru.go`) | list, map, generation, length | `Add`, `Get`, `Purge`, `Remove`, `Keys` | sessions, status, stores | stale generations stay in the list | the length is that of the live entries |
| Store cache layers (`store/*_supplier.go`), cluster (`einterfaces/cluster.go`) | caches | read through, invalidate | LRU, cluster | invalidation across nodes | stale reads are bounded |
| Webapp WebSocket client (`client/websocket_client.jsx`, `actions/websocket_actions.jsx`, `components/logged_in`) | connection, failure count, sequence number, timers | `initialize`, `close`, `sendMessage`, reconnect | hub, `getPosts` | timers nobody cancels, a handshake under `close`, lost answers | one socket; every post arrives |
| Webapp post events (`actions/websocket_actions.jsx`, `actions/post_utils.js`) | queue of a burst, comments that wait for their thread | new, edited, deleted posts | store, `getPostThread` | an edit or a deletion overtakes its post | the store agrees with the server |
| Webapp post composer (`components/create_post`, `components/file_upload`) | text, drafts in the store and in the object, uploads, submissions | type, attach, submit, switch | store, plugins, server | everything changes while a submission or an upload waits | nothing lost, sent twice or elsewhere |
| Webapp comment composer (`components/create_comment`, `actions/views/create_comment.jsx`) | three copies of the draft, uploads, submissions | the same, and recall | store, plugins, server | the copies differ; the draft is cleared twice | the same |
| Webapp plugins (`plugins/index.js`, `plugins/registry.js`, `reducers/plugins`) | manifests, loaded scripts, components, handlers | enable, disable, list | events, scripts of the page | a script that loads cannot be stopped; lists race with events | the page runs what is enabled, once |
| Webapp autocomplete (`components/suggestion`) | text known to the box, list, latest prefix per provider | type, pause, answer, complete | server, store | answers in any order; a list older than the text | the list settles; completion keeps the text |
| Posts, channels, teams, authentication, import, files, REST API, SQL text | database rows | create, read, update, delete | database | little beyond the database | validation, permissions |

`PROJECT.json` lists all of them, with the ones that are not modelled and why, and under `hazards`
the places where something can go wrong that a test would hardly reach.

How the modelled parts interact:

- A client connects (`api4/websocket.go`). Its HTTP goroutine sends the connection to the hub,
  checks the session, queues a hello and becomes the reader; a second goroutine is the writer.
- Events reach the hub through `broadcast`, a queue that all goroutines of the server share, and
  clients through `Send`, a queue per connection. The hub never waits for a client: a full `Send`
  costs the connection. Readers, on the other hand, do wait: for the hub, and for their own `Send`.
- A session is checked through the expiry cached in the connection. Revoking a session sends
  `InvalidateUser` to the hub, over an unbuffered channel, and `GetSession` itself revokes an idle
  session. This closes a cycle: hub, `ShouldSendEvent`, `GetSession`, `InvalidateUser`, hub.
- The webapp keeps one socket. What the server could not send over it, it asks for again after a
  connection that failed; a socket that is open is not yet registered at the hub.
- Post and plugin events come over that socket, and set off requests whose answers meet the state of
  the page later. The boxes of posts and of comments hand posts over to the server and share the
  stores of drafts; the components they are made of may be replaced while they wait.
- Schedulers and workers never talk to each other: the `Jobs` table is all they share, through
  updates that are conditional on the status ("optimistic") or not.

## 2. The modules

### HubMembership and HubConnectionIndex

`HubMembership` is the abstract specification: a *set* of connections; a broadcast visits every
member of its audience once, in any order, and may drop the one it visits.

`HubConnectionIndex` has the three structures of `hubConnectionIndex` under their names. `Add` and
`Remove` are translated statement by statement; positions count from 1. `candidates` is the slice
that the loop ranges over. In Go it shares its array with the list that `Remove` shortens and
overwrites, so a removal inside the loop changes what the loop will read: `CandidatesWithout`
models that write. `Register`, `Unregister`, `StartBroadcast`, `Deliver`, `Drop`, `Finish` are the
cases of `Start` that touch the index.

### WebHub

One hub with its connections. The hub of a user is fixed by a hash of the user id, so hubs do not
interact and one is enough.

| State | Code |
|---|---|
| `hub` | where the goroutine of `Start` is: in its `select`, in the broadcast loop, at a step of `ShouldSendEvent` there (`get`, `set`, `expire`, ..., `decide`, `member`), inside `InvalidateUser` called by itself, closing connections, waiting for `pumpFinished`, stopped |
| `registerQ`, `unregisterQ`, `broadcastQ`, `stop` | the channels; `hub = "stopped"` stands for a closed `didStop` |
| `toClose`, `toOffline` | what the `stop` case has still to do |
| `conn[c].handler` | where the HTTP goroutine is: `new`, `register`, `check`, `get`, `set`, `expire`, `untoken`, `unset`, `unexpire`, `revoke`, `serve`, `publish`, `send`, `read`, `join`, `unregister`, `finished`, `panicked` |
| `conn[c].writer`, `.send`, `.endWritePump`, `.wsOpen` | the writer, the queue, the channel that ends it, the socket |
| `conn[c].token`, `.held`, `.fresh` | a session token is set; the pointer to the session is not nil; the cached expiry still lies in the future |
| `session[c]` | the session in the store: `valid`, `idle`, `gone` |
| `lingering` | connections whose revoked session is in the session cache, where `GetSession` looks first |
| `closed` | connections whose `Send` the hub has closed |

An action ends at a channel operation, or where another goroutine could interfere between two
accesses of shared fields. `IsAuthenticated` is `Check`, which reads expiry and token, `Get`, which
asks for the session, and `SetSession` for each of its writes in turn (`set` the session, `expire`:
store its expiry; or, after an error, `untoken`, `unset`, `unexpire`). The reader and the hub both
run it on the same fields, the hub inside its loop (`HubCheck`, `HubGet`, `HubSetSession`,
`HubSkip`), and between two writes of the one the other may act, or `InvalidateCache` (`Forget`)
clear the fields. What follows in `ShouldSendEvent` uses the session for events with sanitized or
sensitive data (`HubNilSession`: it may be nil, and the hub panics) and for events of a team
(`HubMember`: a nil session is asked for again). The order in which the audience, the channel and
the permissions narrow an event is abstracted to a choice (`HubOmit`). `Panic` and the recovery that
follows are one step, because nothing else runs in the hub in between; the new hub has an empty
index, so a connection that was in it gets no more events, though its socket stays open. A send on a
closed channel panics the goroutine of the reader, which `net/http` recovers; such a handler is
`panicked`: it never unregisters.

The session cache is modelled by its one effect that the store does not show: a goroutine that read
a session before it was removed puts it into the cache after the cache was cleared (`Refill`), where
`GetSession` finds it until the entry is cleared or expires (`Evict`).

Histories (`wire`, `due`, `again`, `early`, `missed`, `torn`, `panics`) record what the properties
speak about and are read by no action.

### MigrationJobs

The nodes of a cluster, the `Jobs` table, the key in `Systems`, and the rows of the two member
tables that the migration rewrites in batches.

| State | Code |
|---|---|
| `jobs[j]` | status, `Data["last_done"]`, and whether it has been inactive for an hour |
| `created`, `completed`, `migrated` | the newest job, the key in `Systems`, the rewritten rows |
| `worker[n]` | where `Run` and `DoJob` are, the copy of the job, `cancelWatcherChan`, the stop signal (`sent`; `taken` when somebody has received it), whether the Store of the node is open |
| `scheduler[n]` | where the loop of `Schedulers` and `ScheduleJob` are, and what was read: `next` (`setNextRunTime` is due), `idle` (there is a next time), `off` (there is none), `jobs`, `wedged`, `create` inside `ScheduleJob`, `done` |

A step ends at each database statement. `Offer` is the watcher's poll and its send to an idle
worker; `Claim` is the conditional update. `SaveProgress`, `SetError`, `Succeed`, `Cancel`,
`SetWedged` write exactly the columns that their statements write: whole rows with the worker's copy
of the data (`UpdateData`) or only the status (`Update`), conditionally or not. Any statement may
fail, by a counted error of the database or because `Shutdown` closed the Store of the node first.
`Crash` loses the memory of a node; `Restart` starts its worker again.

The loop of `Schedulers` is there for the scheduler of the migrations. `SetNextRunTime` is
`setNextRunTime`: if one of its queries fails there is no next time, and the scheduler is `off`
until `ChangeSchedule`, a change of the configuration or of the leader, gives it one. With a next
time it runs (`ReadSystem`), a minute later or longer: the model has no clock, so its safety does
not depend on the times. `ScheduleJob` gives no error when it cannot read the state, and then the
loop sets the next time; an error of `createJob` leaves the old one. Two schedulers stand for two
nodes that both believe to be leader.

### WebSocketClient

The client object (`ws`: `conn`, whether it has failed, its pending timers), the WebSocket objects
with their ends at the server (`socket`), the posts of the channel on the screen, numbered as they
are made, the client's store, and the `getPosts` requests under way. The server is the other end of
`WebHub` and promises what `NoGap` says there: from its registration until it ends, a socket carries
every post in order. `OnOpen`, `OnClose`, `OnMessage`, `OnTimer` and `SendMessage` are the callbacks
of `websocket_client.jsx`; `Initialized` and `CloseSocket` are `initialize()` and `close()`, with
all their callers. `AuthTimeout` is the server's `authTicker`; `PeriodicSync` is the synchronization
after fifteen minutes without one. `blind` (posts made while no socket of a valid session was
registered) and `slipped` (`close()` met a handshake or a timer) are histories.

`LogOut` revokes the session. A socket that `close()` found in its handshake is left behind, and
`Revoked` says what the server makes of it: its request finds no session, or the hub knows the
socket and sends it no more, or its registration comes after the invalidation, which is the finding
of `hub_needs_session`. A socket that is open with a session that is gone (`auth = "stale"`) gets no
events, and a later login keeps it, because `initialize()` returns when there is a connection.

### PostEvents

`debounce` is the closure of `debouncePostEvent`: its count, its queue and its timer. `threads` are
the comments whose root is not in the store, with the answer of `getPostThread`, which may come, or
fail, at any time. Edits and deletions are applied at once. The store of posts is that of
`mattermost-redux`, which is not in the repository, so its reducer is external and modelled as the
code here relies on it. `given`, `overtaken`, `older`, `inBlock` name what the properties except.

### PostComposer and CommentComposer

A message is the set of the words typed in it, each typed once, so that it can be told where each
has gone; likewise files. `PostComposer` has the mounted object (`box`), the drafts of the store
(`stored`), those that each object remembers (`memory`, which is `draftsForChannel`), the uploads
and the calls of `doSubmit` that wait. A wait ends an action: for a hook of a plugin, and for the
answer to a command or a reaction. A post is handed to `mattermost-redux`, which goes on without
waiting for the server; only in the browsers of `isIosClassic` does `createPost` wait for the answer
(`actions/post_actions.jsx:94-105`), and it clears the draft when that has come. `creating.waits`
says which browser it is, and `PostCreated` is that late end, which `doSubmit` does not wait for.
Meanwhile the user may do anything, switch to another channel, or leave the page, upon which another
object takes over and the old one still receives its answers.

`CommentComposer` is the same for comments, with what differs in that code: the draft on the screen
is state of the object, the stored one is cleared before the submission, and a command that nobody
knows stores its text again. Where the browser waits (`replyWaits`), a comment is first handed over
(`ReplyHandedOver`) and its call ends with the answer (`ReplyCreated`). An upload that fails is
reported by `FileUpload` with the channel where the handler expects the thread
(`components/file_upload/file_upload.jsx:218`, `components/create_comment/create_comment.jsx:626`):
the handler throws before it changes anything, so the upload stays in the draft and the comment
cannot be submitted until the user removes its preview (`AttachFailed`).

### WebPlugins

`page[p]` holds what the functions of `plugins/index.js` change of a plugin: its manifest in the
store, whether it is in `loadedPlugins`, its scripts that have been added and have not run yet, its
components and its handlers. `syncs` are the lists asked for, each with the manifests that were read
then and the answer. `Synchronized` is the end of `loadPluginsIfNecessary` with one of them. A
script runs (`ScriptLoaded`) whether or not its plugin is still there.

### Autocomplete

The text before the caret as a sequence of keys, what the box thinks it is (`pretext`, which a
completion does not change), the debounced text, the list, and for the providers of users, channels
and commands what they remember to sort out late answers. `CompleteWord` translates
`addTextAtCaret`, the case of a text that has changed included. Answers come in any order.

`Found` says when a term is offered for a word. A user is found by the beginning of a part of the
username, of a first or last name or of a nickname, a channel if each word typed begins a word of
its name or display name: `Names` gives what a term is found by, so a term need not begin like the
word it is offered for (`@X` becomes `@other`). A command is found by its beginning. What the server
answers for channels and commands is external, and taken to match in the same way.

### MC modules and configurations

The MC modules name the values of constants and the symmetry of identifiers. `MCComposers` and
`MCArrivals` put modules that share no state into one run: a variable (`shown`, `part`) says which
of them acts, so the run has the sum of their states, not the product. Operators commented "Mutant
of ..." restate one definition with a plausible mistake; no specification uses them. They document
what each property guards against.

## 3. What the runs check

All runs are exhaustive within their bounds. Capacities are 1 or 2 instead of 256, 4096 and so on,
so that the full, the slow and the empty queue all occur; a longer queue only delays them.

| Run | Question | Bounds | States |
|---|---|---|---|
| `hub_index` | does the index stay consistent, and does the loop visit each connection once? | 5 connections of 2 users: the removed one is first, inside or last in either list | 95,028 |
| `hub_delivery` | does a client ever miss a critical event silently, does a finished connection leave the index, and does the hub use the index as `HubConnectionIndex` assumes? | 2 connections, 2 events, queues of 1 | 427,283 |
| `hub_sessions` | no event without a session, no gap with requests and replies in the queue, what can make the hub panic | 1 connection, 2 requests (typing, challenge), 2 events, one invalidation, idle sessions, one that gets back into the cache, `Send` of 2 that is slow at 1 | @HS@ |
| `hub_stop` | does `Stop` return, and are the callers released | 1 connection, 1 request, 1 event, idle sessions, one new login, a status to set | @HT@ |
| `hub_needs_session` | the comment of `ShouldSendEvent` (violated) | 1 connection, 1 revocation, 1 event | |
| `migration_safety` | exclusive claim, coverage, progress, final statuses | 2 nodes, both with schedulers, 2 jobs, 3+1 rows in batches of 2, a cancellation, a slow job | @MS@ |
| `migration_live` | one runner unless a job is canceled; the migration completes, jobs end, `Worker.Stop` returns | 2 nodes, 1 scheduler, 3 jobs, 1+1 rows, a stop, and either an error and a crash, or a cancellation and 2 changes of the configuration | @ML@ |
| `migration_cancel_overlap` | the comment of `ScheduleJob` (violated) | 2 nodes, 2 jobs, a cancellation | |
| `websocket_client` | one socket, none after a logout, no lasting gap, reconnection | 2 sockets, pages of 1, 2 posts, 2 failures, 1 lost answer, 2 timers, 1 logout | @WC@ |
| `composers` | is anything lost, sent twice or sent elsewhere | 2 words, 1 file, 2 channels or threads, 2 objects, 2 submissions, 2 switches; the user leaves a thread or an object twice in all, once in a browser that waits, as with a channel there | @CO@ |
| `arrivals` | does each part settle on what the server has, whatever the order of what arrives | posts: 2 roots, 2 comments, every post queued, queue of 2, 1 edit, 1 failure; plugins: 2 plugins, 2 versions, 2 changes, 2 lists, 1 lost socket, 1 broken script; suggestions: texts of 3 keys, 4 pressed, of 5 kinds, 2 requests, a user and a channel found by another name | @AR@ |
| `web_plugins_update` | the comment of `loadPluginsIfNecessary` (violated) | 1 plugin, 2 versions, 2 changes, 2 lists, 1 lost socket | |

Why the bounds are enough: the index needs three connections of one user and two of another for a
swap in both lists to move different connections. The hazards of the hub involve one event, one
queue and at most two connections (the one that is dropped and the one that its slot gets); two
events distinguish order, loss and repetition. The hazards of the migrations are pairs: two workers
after one job, an old worker and a new job; three rows in batches of two give a full batch, a short
batch and an empty one. Three jobs allow one to die, one to end in error and one to finish.

In the client a second post tells the newest page from what lies before it, and a second failure
meets the timer, and the answer, of the first; a second identity of a socket is what a second socket
would need. Posts that are queued and not counted (`Burst = 0`), beyond a queue of two, reach each
branch of `debouncePostEvent` with four posts; two comments on one root let one be stored while the
other waits. The hazards of the composers are pairs of calls (a submission and an upload, an old
object and a new one, two submissions), so two of each, and two words: the one being sent and the
one typed since. Two channels tell here from elsewhere. Two lists overlap each other and an event;
a second plugin shows that they do not mix. Three keys hold a word, a letter typed after it, and a
second word; two requests are enough for answers out of order. A run longer than these repeats
pairs, since none of the modules keeps more than the latest of anything, besides the queues.

`CHECK_DEADLOCK FALSE` is set where the system may rest: the clients have gone, the hub or the
server has stopped, all jobs are done, the user does nothing, or a bound is used up. The run
`hub_index` has it on.

### The properties

Hub index: `TypeOK`, `IndexesAgree`, `CandidatesLive`, `ImplementsMembership`.

Hub:

- `NoGap`: the critical events written to a socket are a prefix of those the hub had for the
  connection: in order, once, none missing. A client that falls behind is cut off, never skipped.
- `FinishedForgotten`: a connection whose pump has finished leaves the index, with exactly one
  exception besides a connection registered again, which the model found: an unregistration that
  the hub receives before the registration (`early`). Such an entry stays until its queue is full
  or the server stops.
- `ImplementsIndex`: the hub's steps are steps of `HubConnectionIndex`, so what is proved of the
  index holds in the hub. It needs that no connection is authenticated or registered again, which
  takes a challenge, and that the hub does not panic on a session; neither happens in the run, which
  has no challenge and no invalidation, and the theorem has both as a hypothesis.
- `EventNeedsSessionUnlessMissed`: after the invalidation of a revoked session has been handled, no
  event is queued for the connection, unless the *last* invalidation passed it by. There are three
  ways for that: the connection was not in the index yet (see the findings), its reader was storing
  the session that it had found (`app/web_conn.go:275`), or the session has been found in the cache
  since (`app/session.go:53`). An invalidation that reaches the connection ends the exception.
- `PanicsExplained`: the hub panics for two reasons only, and both take two goroutines. One is its
  index, with a connection that was authenticated or registered again, by a challenge answered after
  a revocation; a handler that died of a panic stays in the index for the same reason only. The
  other is a nil session next to a fresh expiry: `InvalidateCache`, or the error path of
  `IsAuthenticated`, in one goroutine falls between the two writes of the other
  (`app/web_conn.go:275-276`), and `ShouldSendEvent` dereferences the session (`:298`, `:308`).
  `torn` records that. After either the connections of the old hub are in no index.
- `StopReturnsUnlessStuck`, `StuckForever`: `Stop` returns, or the hub is in one of the deadlocks
  that `HubStuck` lists: (1) it revokes an idle session from its own loop; (2) it waits for a pump
  whose reader waits in `InvalidateUser`, in `Publish` on a full queue, in `Register`, on a full
  `Send` without a writer, or has died of a panic; (3) it publishes a status change to its own full
  queue. No step of anyone leaves these states.
- `CallersReleased`: after the stop nobody waits in the hub's methods for ever, as
  `app/web_hub_test.go:65` demands.

Migrations: `TypeOK`, `OneWorkerPerJob`, `CompletedMeansMigrated`, `ProgressIsCovered`,
`ProgressGrows`, `FinalUnlessWedged`, `JobsEnd`, and

- `OneRunner`: with one scheduler, and no hour without activity, two workers are inside `DoJob` at
  once only if one of them has been asked to cancel its job.
- `MigrationCompletes`: as long as no server is shut down, the migration completes, or no scheduler
  keeps having a next time. The second is what one failed query in `setNextRunTime` leads to
  (`jobs/schedulers.go:146-164`): the scheduler does not run again until the configuration or the
  leader changes, which nobody need ever do.
- `StopReturnsUnlessTaken`: `Stop` returns unless the signal was received by `DoJob`, which returns
  to `Run`, which then waits for a signal that will not come (`migrations/worker.go:97` and `:53`
  share a channel that is sent one value). That deadlock is in the model; the property says that
  there is no other.

Webapp. These properties have named exceptions, because the code has them: what a reader learns is
that the *model* has no others; what it leaves out (part 5) may have. Each exception is a history
variable, set in the action where the code gives up or mixes up, and described at the property. Some
exceptions are wide: a plugin that was in a race once (`raced`), a deletion that overtook its post,
or a call that ended in another channel is not looked at any more.

- `OneSocket`: the only live socket is the one the client knows, although timers, `sendMessage` and
  `LoggedIn` all call `initialize()` with no regard to each other.
- `NoSocketAfterLogout`: a client is connected after a logout only when `close()` came during a
  handshake, or left a timer behind (`client/websocket_client.jsx:84`).
- `GapOnlyFromBlindness`: when all is quiet, the client lacks a post of the newest page only if it
  was made while no socket of a valid session was registered, or if a `getPosts` was lost. A socket
  left from before a logout is not one: while it lasts the client is blind. `EventuallyCaughtUp`: it
  has those posts too in the end, by the periodic synchronization. `EventuallyConnected`: a client
  whose user is logged in gets a socket that the hub sends events to, unless it keeps such a socket.
- `StoreAgrees`: a post that is not still to come is shown as the server has it. Excepted: posts
  given up with a full queue or a failed thread request, those never loaded, and a deletion that
  came before its post did (`overtaken`).
- `CountedUnlessInBlock`: a post counts as read or unread, unless it came in the block of a burst.
- `NothingLost`: what the user has entered is on the screen, in the draft of its channel, on its
  way, or posted. Excepted, among others: what is written while a submission of that channel waits
  (the box is emptied at the end, whatever it holds then), what is in the draft when the answer to
  an earlier post comes in a browser that waits for it (`actions/post_actions.jsx:104`), what an
  upload of an object that is gone overwrites, and a file that comes while another object uploads to
  the same channel.
- `ReplyKept`: what is written or attached and not sent is in the stored draft *of its thread*, or
  under upload. Excepted, among others: what is pasted or recalled into a draft during an upload, a
  recalled message that another replaces, what is in the draft when a comment is handed over or
  answered, and the text of an unknown command that is not back in its draft, in the box, and in the
  draft that an upload starts from (`components/create_comment/create_comment.jsx:457-473`).
- `PostedOnce`, `RepliedOnce`: nothing is posted twice. Excepted: what is shown again while it is
  being sent, because the channel was switched and back, or an upload stored the old draft again.
- `RightChannel`, `RightThread`: a post goes where it was written. Excepted: a call that ends in
  another channel than it began in (`components/create_post/create_post.jsx:595` reads the channel
  from the props of now), and the text of an unknown command, which is given back to the thread on
  the screen.
- `PluginsFollow`, `LoadedOnce`: once settled, the page runs what the server has enabled, each
  plugin once. Excepted: plugins in a race of a script or a list with a change (`raced`), those
  whose event was lost with no list since, and those of the finding below.
- `ListSettles`: the suggestions end up those of the text. Excepted: lists brought by an answer or a
  pause for a text that has been left, a request that failed, spaces added to a channel, and a text
  that came back to the `pretext` of the box: for the box that is no change
  (`components/suggestion/suggestion_box.jsx:292`), even if a completion has put another text, and
  another list, there since. The proof found this last one, which takes a fifth key.
- `CompletionKeepsText`: a completion puts a word in the place of one that it was offered for (the
  end of the text before the caret, by which a provider finds that word), and keeps what is before
  it and what follows the caret. Excepted: the item of an awaited answer taken for a word, and a
  click, an answer, or an Enter after a completion that meet a text which the list was not made for.

### Fairness

- `WebHub!Fairness`: weak fairness of the hub, of each handler and writer, and of the callers of
  `InvalidateUser`. The Go scheduler runs every goroutine that can run, and the write deadline of a
  socket makes the writer go on. Nothing is assumed of clients, of callers that publish, or of
  time. A `select` with several ready cases chooses at random; no fairness among cases is assumed,
  except what weak fairness of the whole goroutine gives.
- `MigrationJobs!Fairness`: weak fairness of each worker, of each scheduler as long as it has a next
  run time, which is a minute away (a scheduler that is `off` has no step, and nothing is assumed of
  the changes that give it one), of `Restart` (a supervisor or an administrator restarts a node that
  died), and of the hour that passes over an abandoned job. Errors, crashes, cancellations and slow
  hours are bounded: liveness is claimed for the time after the last of them.

- `WebSocketClient!ClientFairness`: weak fairness of timers and of the periodic synchronization (the
  browser runs them), of handshakes (they open, or the server's `authTicker` ends them), of the
  hub's taking of registrations (`WebHub!Fairness`), and of answers and events (TCP delivers them or
  the socket fails). Nothing is assumed of the user, of who posts, or of failures, which are
  bounded.

### Findings

1. `hub_needs_session`: *"IMPORTANT: Do not send event if WebConn does not have a session"*
   (`app/web_conn.go:289`). `InvalidateUser` only reaches the connections that the index holds. A
   session revoked between the connect and the moment the hub receives the registration stays cached
   in the connection, which goes on receiving events until the cached expiry.
2. `migration_cancel_overlap`: *"Schedule the first one that isn't done (assuming it isn't in
   progress already)"* (`migrations/scheduler.go:52`). A job in `cancel_requested` counts as not
   scheduled, so a second job is created while its worker is still in `DoJob`. By
   `CompletedMeansMigrated`, which holds in the same circumstances, the overlap loses no rows.
3. `web_plugins_update`: *"Get new plugins and update existing plugins if version changed"*
   (`plugins/index.js:153`). The list of a reconnection does call `loadPlugin` for a plugin in a new
   version, but `loadPlugin` returns at once for a plugin that is loaded (`plugins/index.js:69-73`):
   the old script stays, under the new manifest, until the page is loaded again.

## 4. What is proved

The theorems hold for every value of the constants that meets the named assumptions: any sets of
connections, users, sockets and nodes, any number of rows, posts and events, queues of any length,
any bounds. No theorem assumes fairness.

### HubConnectionIndex_proofs

Assumption: each connection has a user of `Users`.

`IndexInv` is inductive. `IndexesAgree` alone is not: a removal inside the loop could overwrite
what the loop has still to read. The strengthening `CandidatesAhead` says that the candidates not
yet visited are distinct, and that each stands *at or before* its place in the loop's slice in the
live list, so that a swap only writes at places already visited; `RegisteredOnce` says that a
connection enters the index once. From it follow `IndexAgreement`, `LoopSafety` and
`TypeCorrectness`.

`IndexRefinesMembership` shows that every step of the index maps to a step of `HubMembership`, or
to a stutter: `Members` and `Remaining` are the refinement mapping. `Drop` is the hard case: the
swap changes the list, and must change neither the set of the others nor what remains to visit.

### MigrationJobs_proofs

Assumptions: `SchedulersAssumption` (schedulers run on nodes), `SizeAssumption` (tables of finite
size, a batch of at least one row), `BoundsAssumption` (bounds are numbers).

`MigrationInv` is the conjunction of

- `TypeOK`;
- `Ownership`: a worker inside `DoJob` has a job that exists, is not pending, and is held by nobody
  else; if its status is final, a scheduler has given it up. This is what makes the unconditional
  updates harmless;
- `Coverage`: every copy of the progress - in the table, in a worker, in a scheduler - is covered by
  migrated rows; a worker about to store the key has seen the end of the second table;
- `Resumption`: a worker is at least as far as its row says. Without it a whole-row update from the
  worker's copy could set progress back, and `ProgressGrows` would not follow.

The proof reduces actions to their effects: *who keeps its job*, *who lets it go*, *which job
changes status*, *what only schedulers touch* (lemmas `KeepingJob`, `LettingGo`, `ChangingStatus`,
`SchedulersOnly`); each action then has one short lemma. `BatchRows` to `AllPassed` are the facts
about rows and positions. From the invariant follow `OneWorker`, `Completion`, `Resumable`, and the
action properties `ProgressNeverSetBack` and `FinalStays`.

`OneRunner` is claimed for one scheduler and no hour without activity, and the run has a
cancellation, which the property names. `OneRunnerAtATime` assumes that there is none, and proves
more: that at most one worker runs; nodes, jobs, rows, errors, crashes, stops and changes of the
configuration are arbitrary. It follows from `RunnersTakeTurns`, which puts no bound on anything:
with one scheduler, `OneAtATime` holds *until* the first cancellation or slow hour (`Calm`).
`OneAtATime` says that whoever runs, runs the newest job, which is in progress and not an hour old;
that only the newest job can be pending; and that a scheduler is about to create another only when
the newest is over. Ownership makes two workers with the same job impossible. The proof goes by what
a step may do to the newest job, given the invariant above (`Running`, `NobodyStarts`,
`RunnerUpdates`).

### WebHub_proofs

Assumption: `CapacityAssumption` (queues have room for one message at least; a slow queue is not
longer than a full one).

`NoSilentGap` proves `NoGap`. The difficulty is that the writer skips messages: the queue is not a
suffix of what is due. `Carries` says that there is a counting function `Places` over the queue that
gives, for each critical message in it, its place in `due`; the places follow each other without a
gap from what was written, and reach the end of `due` unless the channel was closed. Existence of
such a function is kept by taking a message (`TakeOther`, `TakeCritical`), by adding one
(`PutOther`, `PutCritical`) and by cutting the queue off (`CutOff`), facts about sequences alone.
`FlowInv` adds `Source` (messages have their form wherever they are) and `Shape` (a handler that has
not started has no writer), which the actions need. Most actions touch no queue; `UntouchedFlow`
handles them at once.

`GoneSessionsGetNothing` proves `EventNeedsSessionUnlessMissed`. The property speaks of the moment
an event is queued; `SessionInv` speaks of every state: a connection counts as authenticated, or is
about to (its reader, or the hub, is at `set` or `expire`), although its session is gone, only when
its excuse is `Pending` (an invalidation of its user is under way, or the last one passed it by) or
the hub is `Halted` (it waits for itself, or has stopped) and queues nothing more. The one action
that takes excuses away is the hub's handling of an invalidation, which makes every connection it
finds unauthenticated and gives the others, those not in the index and those whose reader is
storing, a new excuse (`InvalidateSession`). A session that is found in the cache brings its own
(`FoundInCache`). All other actions keep the excuses (`Lasting`).

### WebHubIndex_proofs

Assumptions: `UserAssumption` (each connection has a user, and the scopes of a broadcast that are
not users are not users), and `CapacityAssumption` for the deadlocks.

This is the composition: the proofs of the index are used, through `INSTANCE`, inside the hub.
`HubInv` says that, as long as no connection was authenticated or registered again (`again = {}`),
the index satisfies `IndexInv`, the hub has not panicked in it, and a handler that died of a panic
met a channel that is closed (`PanickedClosed`). Each goes into the next: `IndexInv` is why neither
`Remove` nor a send can panic in the hub; no closed channel is registered, so no dead handler is in
the index. A panic on a session empties the index, and an empty one satisfies `IndexInv` again.

`SessionsAreBacked` is the other half: whoever relies on the session of a connection - its expiry is
fresh, the reader is about to store one, or the hub to decide on an event - finds it, unless it was
taken away while it was relied on (`torn`). It depends on the order of the two writes, session
first, as the mutant of `Written` shows. Hence `PanicsHaveTwoCauses`, and `HubRefinesIndex`: `Spec
/\ [](again = {} /\ torn = {}) => ImplementsIndex`.

`FinishedAreForgotten` rests on `Leaving`: a finished connection that the hub holds, or is about to
get, is in the unregister channel.

`DeadlocksAreForEver` proves `StuckForever`. Each disjunct of `HubStuck` names the goroutine that
the hub waits for and what that goroutine waits for. `OthersKeepWaiting` shows that a step which is
not the hub's takes nothing away from what fills a queue, `StuckStaysPut` that it does not move the
goroutine the hub waits for, and `StuckStep` that the hub itself has no step. `ClosingInv` says that
what the hub closes, and then waits for, are connections. No hypothesis about connections registered
twice is needed.

### WebSocketClient_proofs

Assumption: `SocketAssumption` (there is an identity for a socket; pages have at least one post).

`ClientInv` is type correctness, `OneSocket`, that an open socket has no failures behind it, that a
connection or a timer after a logout was noticed by `close()`, and the statement that makes
`GapOnlyFromBlindness` inductive: a post that the client lacks and that was not made in a blind
window is *on its way* (`OnItsWay`): on a registered socket, in an answer, in a request, or in one
that a failure will cause. The lemmas `InitializeSound`, `EndSound` and `CloseSound` say what the
three functions keep, whoever calls them. From it follow `SocketUnique`, `LogoutDisconnects` and
`GapsAreBlind`.

### PostComposer_proofs

Assumption: `ComposerAssumption` (an object is mounted; words, files and the names of nothing
differ).

`NothingLost`, `PostedOnce` and `RightChannel` (`ComposerLosesNothing`, `ComposerPostsOnce`,
`ComposerPostsInItsChannel`) follow from `ComposerInv`. `NothingLost` alone is far from inductive: a
word may be safe now because the box shows it, and be lost at the next switch. `EnteredSaved` says
where it must be: under upload or in the *stored* draft of its channel, unless `Accounted` (dropped,
excused, being sent, posted). Everything that may replace that draft has to have as much: the box
(`TextSaved`), the draft that the object of an upload remembers (`UploadsAgree`, `UploadsMarked`);
and what clears it has to hold what it clears (`CallsHoldAll`), or, when the answer to a post clears
the draft, excuse it. That nothing is posted twice needs
that what is being sent is in no other call and no draft within reach (`OnceSent`, `OncePosted`,
`NoSecondCopy`); `RightChannel` needs that what a channel holds was entered there (`Located`).

### CommentComposer_proofs

Assumption: `CommentAssumption` (the same, for threads).

`CommentsKept`, `CommentsSentOnce` and `CommentsInTheirThread` prove `ReplyKept`, `RepliedOnce` and
`RightThread` from `CommentInv`. Comments have three copies of a draft, and the invariant relates
them: what is not `Settled` is in the stored draft of its thread (`StoreHasIt`), in the box if it
shows that thread (`BoxHasIt`), and in the draft that an upload of the mounted object starts from
(`UploadHasIt`). `SentOnce` keeps what is being sent out of all three, unless it came back. The
proof first brings every handler to one of eight shapes (`Step`), then treats each shape once.

### Arrivals_proofs

The three parts of `MCArrivals`, which share no state. Assumptions: `PostAssumption` (the root of a
root is itself; bounds are numbers; "none" is no post), `PluginAssumption` (versions and bounds are
numbers), `AutocompleteAssumption` (the terms of stores and server are sequences of keys).

- *Posts* (`PostsAgree`, `PostsAreCounted`). `PostInv`: nothing under way is newer than the server
  (`NotNewer`), a live post is in the store as the server has it or not at all (`Current`), one that
  is missing has been announced, or given up, or is an older one (`Accounted`), and what was deleted
  has nothing under way to bring it back (`Buried`). `Current` is why the order does not matter: an
  answer that is late can only be refused, or bring what the store lacks.
- *Plugins* (`PluginsFollowServer`, `PluginsLoadOnce`). `PluginInv`: the last event of a plugin on
  the socket says what the server has (`LastEventHolds`); a plugin without one has a list to come,
  or one that says the same, or follows already (`FollowsOrWill`); of a plugin with a manifest there
  is one script or bundle, of that version unless the version changed unseen (`RunsOnce`).
- *Suggestions* (`SuggestionsSettle`). `SuggestInv`: once the pause is over the provider of the text
  has its query (`LatestIsCurrent`), what it has not seen answered is under way (`UsersAwaited`,
  `ChannelsAwaited`), and so the list is right or will be replaced (`FitsOrWill`). The first attempt
  failed at `Edit`, for the reason given under `ListSettles`; TLC confirmed it with `MaxPressed =
  5`.
- *Completions* (`CompletionsKeepText`). `WordsInv`: texts are sequences of keys, providers are
  asked for words of the text, and the terms of a list, but for the items that stand for an answer,
  are offered by a provider for the word it was asked for (`Offered`). What makes a provider offer a
  term (`Found`) is never opened, so the theorem holds however terms are matched. The rest is about
  sequences: where the word begins in the text (`MarkInText`), and that a term put in the place of a
  suffix leaves what comes before it. `Overlap` takes the greatest of a set of numbers; that there
  is one (`GreatestNumber`) comes from the library's theorem that the numbers are well-founded.

### What stays with model checking

Every invariant, every action property and both refinements of the passing runs are theorems
(`OneRunner` and the refinement by the hub under the hypotheses named above: `OneRunner` with a
cancellation is model-checked only). What is left:

- Liveness (`StopReturnsUnlessStuck`, `CallersReleased`, `MigrationCompletes`, `JobsEnd`,
  `StopReturnsUnlessTaken`, `EventuallyCaughtUp`, `EventuallyConnected`) and whatever depends on
  `ENABLED`: the temporal reasoning under fairness is out of the prover's reach.
- The three properties of the findings, which are false.
- No result is about a recursively defined function: induction over data, with library theorems
  that take an operator as a parameter, cannot be instantiated by the installed provers, and
  recursive operators are not supported in modules with proofs; the modules use neither.

## 5. What is not modelled, and what is left

Left out of the modelled components:

- `WebHub`: the activity channel and the times of activity, the status goroutines that the hub
  spawns, expiry of a session by time (an expired session behaves as an idle one that is not
  revoked), the deadlock ticker, the cluster. A challenge that authenticates a connection again
  is taken to be of the same user; one of another user writes `UserId` before the hub hears of it
  (`app/websocket_router.go:65`), and may make `Remove` panic earlier than the model shows. Such a
  connection is in `again` at that moment, so the properties do not claim anything of it.
- `MigrationJobs`: jobs created through the API, replicas that lag, new rows inserted while the
  migration runs (they are written in the new form), the length of waits in `Schedulers.Start`, its
  `Stop`, and the other schedulers.
- `WebSocketClient`: responses to requests, `missedEventCallback` (the server leaves no gap,
  `NoGap`), the state `CLOSING` of a socket, the wait that grows with the failures, what a
  resynchronization asks for besides posts.
- `PostEvents`: whether a counted post makes its channel read or unread, profiles, statuses,
  notifications, other channels.
- `PostComposer`, `CommentComposer`: the confirmation of mentions of everybody, limits of length and
  number, the typing indicator, the dialog for a deleted root, the edit of the last post.
- `WebPlugins`: removal of single components by a plugin, and what a plugin does.
- `Autocomplete`: emoji and search providers, which ask nobody; the arrow keys (any item may be
  selected); boxes that replace the whole input.

`app/session.go:94-126` contains unresolved merge conflict markers in `GetSessions` and
`RevokeAllSessions`, so the package does not compile as it is; only the functions outside of them
are modelled: `GetSession`, `ClearSessionCacheForUser`, `RevokeSessionById`, `RevokeSession`.

Not modelled at all: SQL text, REST handlers, Markdown, import and export, files, the other
components of the user interfaces (no protocol, or pure input and output); the cluster, and
`mattermost-redux` beyond its store of posts (they are not in the repository).

Left, with the hazards that no property covers:

| Component | Hazards |
|---|---|
| Schedulers loop, `jobs/schedulers.go` | `handleConfigChange` sends without a select (`:186`); a leader change is dropped when the loop is busy (`:191`) |
| Hub, `app/web_hub.go` | the connections that a hub which has panicked leaves out of its new index are still open, and get no events until they reconnect (`:521`) |
| Status, `app/status.go` | `GetUserStatusesByIds` fills the cache with what it read before a change (`:89`) |
| Email batching, `app/email_batching.go` | the new recurring task starts before the old one is cancelled (`:75`); the loop goes on over notifications it has just deleted (`:165`) |
| Configuration, `config/`; plugins of the server, `plugin/`; push hub, `app/notification_push.go`; LRU cache, `utils/lru.go` | listeners called after the unlock; restart against deactivation; close against send; stale generations in the list |

The components of the last three rows share no state with the modelled parts. Of the first row's
failures, one that keeps a scheduler from hearing of a change leaves it without a next time, which
is the case that `MigrationCompletes` excepts.

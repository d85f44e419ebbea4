----------------------------- MODULE WebPlugins -----------------------------
(***************************************************************************)
(* The webapp parts of plugins (webapp plugins/index.js, plugins/          *)
(* registry.js, reducers/plugins): which bundles the page has loaded, what *)
(* they have registered, and how both follow the plugins that the server   *)
(* has enabled, through plugin_enabled and plugin_disabled events and the  *)
(* lists that are asked for when the page loads and on every reconnect.    *)
(* A bundle is a script element: it runs some time after it is added, and  *)
(* removing the element does not stop it.                                  *)
(***************************************************************************)
EXTENDS Naturals, Sequences, SequencesExt

CONSTANTS
  Plugins,
  Versions,    \* the versions of their manifests; 0 is no plugin
  MaxChanges,  \* bound: plugins enabled or disabled at the server
  MaxSyncs,    \* bound: lists of plugins asked for, one at page load
  MaxDrops,    \* bound: times the socket is lost
  MaxBroken    \* bound: bundles that cannot be loaded

ASSUME PluginAssumption == /\ Versions \subseteq Nat \ {0}
                           /\ {MaxChanges, MaxSyncs, MaxDrops, MaxBroken} \subseteq Nat

VARIABLES
  enabled,     \* the version of each plugin that the server has enabled, or 0
  events,      \* plugin events on the socket, oldest first
  online,      \* the socket is registered with the hub
  page,        \* the client: see PageInit
  syncs,       \* lists asked for: the manifests of then, and the answer
  missed,      \* history: plugins whose event was lost, no list since
  upgraded,    \* history: plugins that changed their version unseen
  raced,       \* history: plugins in one of the races named below
  uses         \* how much of each bound is used

pluginVars == <<enabled, events, online, page, syncs, missed, upgraded, raced, uses>>

None == [p \in Plugins |-> 0]

\* manifest: what plugins.plugins of the store has of the plugin, or 0; loaded:
\* loadedPlugins; loading: the versions of its scripts that have not run;
\* components: what initialize() registered in the store, by version; handler:
\* the version whose event and reconnect handlers are registered, or 0.
PageInit == [p \in Plugins |->
  [manifest |-> 0, loaded |-> FALSE, loading |-> <<>>, components |-> <<>>, handler |-> 0]]

Manifests == [p \in Plugins |-> page[p].manifest]

----------------------------------------------------------------------------
(* What the functions of plugins/index.js do to what the page has of a     *)
(* plugin.                                                                 *)

\* Mutant of LoadPlugin: a plugin is loaded whatever was loaded before.
LoadPluginAgain(v, at) == [at EXCEPT !.loading = Append(@, v), !.loaded = TRUE]

\* loadPlugin: a script element, unless the plugin was loaded before.
LoadPlugin(v, at) ==
  IF at.loaded THEN at ELSE [at EXCEPT !.loading = Append(@, v), !.loaded = TRUE]

\* Mutant of RemovePlugin: the plugin still counts as loaded.
RemovePluginHalf(at) == [at EXCEPT !.manifest = 0, !.components = <<>>, !.handler = 0]

\* REMOVED_WEBAPP_PLUGIN and removePlugin: the manifest, the components and
\* the handlers go. A script that is loading goes on.
RemovePlugin(at) ==
  [at EXCEPT !.manifest = 0, !.components = <<>>, !.handler = 0, !.loaded = FALSE]

\* RECEIVED_WEBAPP_PLUGIN and loadPlugin: the reducer drops the components
\* that the plugin has, whether or not it is loaded again.
EnablePlugin(v, at) == LoadPlugin(v, [at EXCEPT !.manifest = v, !.components = <<>>])

\* The end of loadPluginsIfNecessary: the list replaces the manifests, then
\* what was not in the old ones, or had another version, is loaded, and what
\* is no longer there is removed. initializePlugins is the case of an empty old.
Synchronized(old, new, at) ==
  LET received == [at EXCEPT !.manifest = new]
  IN  CASE new # 0 /\ old # new -> LoadPlugin(new, received)
        [] new = 0 /\ old # 0   -> RemovePlugin(received)
        [] OTHER                -> received

\* initializePlugin, when a script has run: what it registers.
InitializePlugin(i, at) ==
  [at EXCEPT !.loading = RemoveAt(@, i), !.components = Append(@, at.loading[i]),
             !.handler = at.loading[i]]

IsLoading(p) == page[p].loading # <<>>

----------------------------------------------------------------------------
(* The server.                                                             *)

\* An administrator enables a plugin, or disables it. The hub has the event
\* for the socket if it is registered.
Change(p, v) ==
  /\ uses.changes < MaxChanges
  /\ (v = 0) # (enabled[p] = 0)
  /\ enabled' = [enabled EXCEPT ![p] = v]
  /\ events' = IF online THEN Append(events, [plugin |-> p, version |-> v]) ELSE events
  /\ missed' = IF online THEN missed ELSE missed \cup {p}
  /\ uses' = [uses EXCEPT !.changes = @ + 1]
  /\ UNCHANGED <<online, page, syncs, upgraded, raced>>

\* The socket is lost, with the events on it.
Disconnect ==
  /\ online
  /\ uses.drops < MaxDrops
  /\ online' = FALSE
  /\ events' = <<>>
  /\ missed' = missed \cup {e.plugin : e \in ToSet(events)}
  /\ uses' = [uses EXCEPT !.drops = @ + 1]
  /\ UNCHANGED <<enabled, page, syncs, upgraded, raced>>

\* The first connection: no list is asked for. (Later ones are Reconnect.)
FirstConnect ==
  /\ ~online /\ uses.drops = 0
  /\ online' = TRUE
  /\ UNCHANGED <<enabled, events, page, syncs, missed, upgraded, raced, uses>>

\* The server answers a list: the plugins enabled now. What differs from the
\* manifests the client asked with is what this list will change.
AnswerPlugins(s) ==
  /\ s \in syncs /\ ~s.answered
  /\ syncs' = (syncs \ {s}) \cup {[s EXCEPT !.answered = TRUE, !.new = enabled]}
  /\ missed' = {}
  /\ upgraded' = upgraded \cup {p \in Plugins : enabled[p] # 0 /\ s.old[p] \notin {0, enabled[p]}}
  /\ UNCHANGED <<enabled, events, online, page, raced, uses>>

----------------------------------------------------------------------------
(* The page.                                                               *)

Request(n, old) == [id |-> n, old |-> old, answered |-> FALSE, new |-> None]

AskForList == syncs' = syncs \cup {Request(uses.syncs, Manifests)}

\* A socket is registered again: reconnect() asks for the list.
Reconnect ==
  /\ ~online /\ uses.drops > 0
  /\ uses.syncs < MaxSyncs
  /\ online' = TRUE
  /\ AskForList
  /\ uses' = [uses EXCEPT !.syncs = @ + 1]
  /\ UNCHANGED <<enabled, events, page, missed, upgraded, raced>>

\* The periodic synchronization, every fifteen minutes.
PeriodicList ==
  /\ uses.syncs < MaxSyncs
  /\ AskForList
  /\ uses' = [uses EXCEPT !.syncs = @ + 1]
  /\ UNCHANGED <<enabled, events, online, page, missed, upgraded, raced>>

\* The list arrives. The races: a script of a plugin that is removed is
\* loading, the manifests have changed since the list was asked for, or
\* another list that says otherwise is on its way.
PluginsReceived(s) ==
  /\ s \in syncs /\ s.answered
  /\ syncs' = syncs \ {s}
  /\ page' = [p \in Plugins |-> Synchronized(s.old[p], s.new[p], page[p])]
  /\ raced' = raced \cup {p \in Plugins : s.old[p] # 0 /\ s.new[p] = 0 /\ IsLoading(p)}
                    \cup {p \in Plugins : s.old[p] # page[p].manifest}
                    \cup {p \in Plugins : \E o \in syncs : o.answered /\ o.new[p] # s.new[p]}
  /\ UNCHANGED <<enabled, events, online, missed, upgraded, uses>>

\* The request for the list fails: nothing is changed.
ListFailed(s) ==
  /\ s \in syncs /\ s.answered
  /\ uses.broken < MaxBroken
  /\ syncs' = syncs \ {s}
  /\ missed' = Plugins
  /\ uses' = [uses EXCEPT !.broken = @ + 1]
  /\ UNCHANGED <<enabled, events, online, page, upgraded, raced>>

\* handlePluginEnabled and handlePluginDisabled. The races: a list is on its
\* way, a script of the plugin is loading, or the plugin is loaded already.
PluginEvent ==
  /\ events # <<>>
  /\ LET e == Head(events)
         p == e.plugin
     IN  /\ page' = [page EXCEPT ![p] = IF e.version = 0 THEN RemovePlugin(@)
                                                        ELSE EnablePlugin(e.version, @)]
         /\ raced' = IF syncs # {} \/ IsLoading(p) \/ (e.version # 0 /\ page[p].loaded)
                     THEN raced \cup {p} ELSE raced
  /\ events' = Tail(events)
  /\ UNCHANGED <<enabled, online, syncs, missed, upgraded, uses>>

\* A script runs, and its onload calls initializePlugin.
ScriptLoaded(p, i) ==
  /\ i \in DOMAIN page[p].loading
  /\ page' = [page EXCEPT ![p] = InitializePlugin(i, @)]
  /\ UNCHANGED <<enabled, events, online, syncs, missed, upgraded, raced, uses>>

\* A script cannot be loaded. Its plugin counts as loaded all the same.
ScriptFailed(p, i) ==
  /\ i \in DOMAIN page[p].loading
  /\ uses.broken < MaxBroken
  /\ page' = [page EXCEPT ![p].loading = RemoveAt(@, i)]
  /\ raced' = raced \cup {p}
  /\ uses' = [uses EXCEPT !.broken = @ + 1]
  /\ UNCHANGED <<enabled, events, online, syncs, missed, upgraded>>

----------------------------------------------------------------------------
PluginInit ==
  /\ enabled \in [Plugins -> Versions \cup {0}]
  /\ events = <<>>
  /\ online = FALSE
  /\ page = PageInit
  /\ syncs = {Request(0, None)}
  /\ missed = {} /\ upgraded = {} /\ raced = {}
  /\ uses = [changes |-> 0, syncs |-> 1, drops |-> 0, broken |-> 0]

PluginNext ==
  \/ \E p \in Plugins, v \in Versions \cup {0} : Change(p, v)
  \/ Disconnect \/ FirstConnect \/ Reconnect \/ PeriodicList
  \/ \E s \in syncs : AnswerPlugins(s) \/ PluginsReceived(s) \/ ListFailed(s)
  \/ PluginEvent
  \/ \E p \in Plugins : \E i \in DOMAIN page[p].loading : ScriptLoaded(p, i) \/ ScriptFailed(p, i)

PluginSpec == PluginInit /\ [][PluginNext]_pluginVars

----------------------------------------------------------------------------
(* Properties.                                                             *)

\* Nothing of the page is under way.
PageSettled == events = <<>> /\ syncs = {} /\ \A p \in Plugins : ~IsLoading(p)

\* Once the page has settled it runs what the server has enabled: each plugin
\* initialized exactly once, in the version enabled, its components in the
\* store and its handlers registered; and nothing of a plugin disabled.
\* Excused are plugins whose event was lost and no list asked for since,
\* that changed version unseen, or that were in a race.
PluginsFollow ==
  PageSettled =>
    \A p \in Plugins \ (missed \cup upgraded \cup raced) :
       /\ page[p].manifest = enabled[p]
       /\ page[p].handler = enabled[p]
       /\ page[p].components = IF enabled[p] = 0 THEN <<>> ELSE <<enabled[p]>>

\* A plugin has at most one script under way or initialized at a time, unless
\* it was disabled while its script was loading: loadedPlugins sees to it.
LoadedOnce ==
  \A p \in Plugins \ raced : Len(page[p].components) + Len(page[p].loading) <= 1

\* "Get new plugins and update existing plugins if version changed"
\* (plugins/index.js:153): after a list, a plugin runs in its new version.
UpdatedByList ==
  PageSettled =>
    \A p \in upgraded \ (missed \cup raced) : page[p].manifest # 0 => page[p].handler = page[p].manifest
=============================================================================

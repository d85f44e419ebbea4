----------------------------- MODULE MCArrivals -----------------------------
(* What arrives from the server late and out of order, in three parts of the *)
(* page that share nothing: posts, plugins and suggestions, one at a time.   *)
EXTENDS PostEvents, WebPlugins, Autocomplete

CONSTANTS r1, r2, k1, k2, p1, p2

VARIABLE part  \* which of the three is looked at

ArrivalsInit ==
  /\ part \in {"posts", "plugins", "suggestions"}
  /\ PostInit /\ PluginInit /\ SuggestInit
  /\ part # "posts" => older = {} /\ \A p \in Posts : server[p] = Absent
  /\ part # "plugins" => enabled = None
  /\ part # "suggestions" => ~rest

ArrivalsNext ==
  \/ part = "posts" /\ PostNext /\ UNCHANGED <<part, pluginVars, suggestVars>>
  \/ part = "plugins" /\ PluginNext /\ UNCHANGED <<part, postVars, suggestVars>>
  \/ part = "suggestions" /\ SuggestNext /\ UNCHANGED <<part, postVars, pluginVars>>

ArrivalsSpec == ArrivalsInit /\ [][ArrivalsNext]_<<part, postVars, pluginVars, suggestVars>>

----------------------------------------------------------------------------
\* Two roots, and two comments on the first.
Thread == [p \in Posts |-> IF p \in {k1, k2} THEN r1 ELSE p]

\* One user, one channel and one command that the store knows, and one of
\* each that only the server knows. The user and the channel of the store are
\* called b, and found by a as well: a nickname, a word of the display name.
AllKeys  == {"@", "~", "/", " ", "a", "b"}
Pressed  == AllKeys \ {"b"}

InStore  == [p \in Providers |-> CASE p = "users"    -> {<<"@", "b">>}
                                   [] p = "channels" -> {<<"~", "b">>}
                                   [] p = "commands" -> {}]
OnServer == [p \in Providers |-> CASE p = "users"    -> {<<"@", "b">>, <<"@", "a", "a">>}
                                   [] p = "channels" -> {<<"~", "b">>, <<"~", "a", "a">>}
                                   [] p = "commands" -> {<<"/", "a">>}]

FoundBy  == [t \in {<<"@", "b">>, <<"~", "b">>, <<"@", "a", "a">>, <<"~", "a", "a">>} |->
               {Tail(t)} \cup (IF t[2] = "b" THEN {<<"a">>} ELSE {})]
=============================================================================

------------------------------- MODULE Plugins -------------------------------
(***************************************************************************)
(* The plugins and the web applications they give to their channels: what  *)
(* the application does when it starts (Plugin.update_plugins in           *)
(* ictv/models/plugin.py, instantiate_plugins in                           *)
(* ictv/plugin_manager/plugin_manager.py), the plugins page, and the       *)
(* creation and the edition of channels.  The row of a channel says what   *)
(* its plugin is, in the database; the routes to web applications are in   *)
(* memory (register_plugin in ictv/flask/migration_adapter.py), and are    *)
(* made by the requests that change those rows.                            *)
(***************************************************************************)
EXTENDS FiniteSets

CONSTANTS
    PluginNames,
    ChannelIds, \* bound: the channels that are ever created
    Workers,    \* request threads
    NoPlugin

Packages == {"absent", "plain", "webapp", "broken"}  \* broken: a dependency cannot be imported

ASSUME PluginsAssumption == NoPlugin \notin PluginNames

VARIABLES
    package,    \* what the directory of plugins has, when the application starts
    state,      \* the column `activated` of a plugin: "yes", "no", "notfound", or "none" if
                \* it has no row
    webapp,     \* plugins whose row says that they have a web application
    plugin,     \* plugin[c]: of a channel, or NoPlugin when it has no row
    created,    \* channels that have ever been created
    route,      \* route[c]: the plugin whose web application serves /channels/c, or NoPlugin
    doing,      \* the request of a thread: "idle", "activate", "map" a plugin, "create" or
                \* "edit" a channel
    about,      \* the plugin and the channels that it is about
    excused     \* history: channels about which two requests have overlapped, whose new
                \* plugin has no web application, whose plugin raised while it was activated
                \* or given a route, or was activated before its web application was seen

workVars == <<doing, about>>
pluginVars == <<package, state, webapp, plugin, created, route, workVars, excused>>

NoWork == [plugin |-> NoPlugin, channels |-> {}, webapp |-> FALSE]
Idle == doing = [t \in Workers |-> "idle"] /\ about = [t \in Workers |-> NoWork]

PluginsInit ==
    /\ package = [p \in PluginNames |-> "absent"]
    /\ state = [p \in PluginNames |-> "none"]
    /\ webapp = {}
    /\ plugin = [c \in ChannelIds |-> NoPlugin] /\ created = {}
    /\ route = [c \in ChannelIds |-> NoPlugin]
    /\ Idle
    /\ excused = {}

ChannelsOf(p) == {c \in ChannelIds : plugin[c] = p}

\* The new routes of some channels.
Routed(channels, p) == [c \in ChannelIds |-> IF c \in channels THEN p ELSE route[c]]

Works(t, from, to, work) ==
    /\ doing[t] = from /\ doing' = [doing EXCEPT ![t] = to]
    /\ about' = [about EXCEPT ![t] = work]

Done(t, from) == Works(t, from, "idle", NoWork)

\* The channels about which another request is under way.
Busy(t, channels) == channels \cap UNION {about[u].channels : u \in Workers \ {t}}

-----------------------------------------------------------------------------
(* The application starts. *)

\* update_plugins, of rows in the state st: a plugin that is not there is not found; one that
\* is there again, or is new, is not activated;
Updated(st, pk) ==
    [p \in PluginNames |->
        CASE pk[p] = "absent" -> IF st[p] = "none" THEN "none" ELSE "notfound"
          [] pk[p] # "absent" -> IF st[p] = "yes" THEN "yes" ELSE "no"]

\* the web application of a new one is only seen the next time.
Seen(st, pk) ==
    {p \in PluginNames : /\ st[p] # "none"
                         /\ IF pk[p] = "absent" THEN p \in webapp ELSE pk[p] # "plain"}

\* instantiate_plugins: those that are activated and have channels are imported, or
\* deactivated.
Started(st, pk) ==
    [p \in PluginNames |->
        IF st[p] = "yes" /\ pk[p] = "broken" /\ ChannelsOf(p) # {} THEN "no" ELSE st[p]]

\* With the directory pk, after a stop that ended all requests and lost the routes.  When a
\* plugin raises, the start fails, and leaves the rows that another start finds.
Start(pk) ==
    /\ package' = pk
    /\ state' = Started(Updated(state, pk), pk)
    /\ webapp' = Seen(state, pk)
    /\ route' = [c \in ChannelIds |->
                    IF plugin[c] \in webapp' /\ state'[plugin[c]] = "yes"
                    THEN plugin[c] ELSE NoPlugin]
    /\ doing' = [t \in Workers |-> "idle"] /\ about' = [t \in Workers |-> NoWork]
    /\ excused' = {}
    /\ UNCHANGED <<plugin, created>>

-----------------------------------------------------------------------------
(* The plugins page.  It is shown after each form, and updates the plugins. *)

\* It is shown when the plugins are in the state st.
Shows(st) ==
    /\ state' = Updated(st, package)
    /\ webapp' = Seen(st, package)
    /\ excused' = excused \cup
            UNION {ChannelsOf(p) : p \in {q \in webapp' \ webapp : st[q] = "yes"}}

ViewPlugins == Shows(state) /\ UNCHANGED <<package, plugin, created, route, workVars>>

\* `edit`: one that was not found is refused; else the row says so at once, whatever becomes
\* of it,
Activate(t, p) ==
    /\ state[p] \in {"yes", "no"}
    /\ Works(t, "idle", "activate", [plugin |-> p, channels |-> {}, webapp |-> p \in webapp])
    /\ state' = [state EXCEPT ![p] = "yes"]
    /\ UNCHANGED <<package, webapp, plugin, created, route, excused>>

\* and instantiate_plugin deactivates it again,
InstantiateFails(t) ==
    /\ Done(t, "activate")
    /\ package[about[t].plugin] = "broken"
    /\ Shows([state EXCEPT ![about[t].plugin] = IF @ = "none" THEN @ ELSE "no"])
    /\ UNCHANGED <<package, plugin, created, route>>

\* or its module, its install or its update raises something else, which nobody catches: the
\* row still says that it is activated;
ActivationFails(t) ==
    /\ Done(t, "activate")
    /\ excused' = excused \cup ChannelsOf(about[t].plugin)
    /\ UNCHANGED <<package, state, webapp, plugin, created, route>>

\* or it lists its channels,
Instantiate(t) ==
    LET p == about[t].plugin IN
    /\ doing[t] = "activate" /\ package[p] # "broken"
    /\ Works(t, "activate", "map", [about[t] EXCEPT !.channels = ChannelsOf(p)])
    /\ excused' = excused \cup Busy(t, ChannelsOf(p))
    /\ UNCHANGED <<package, state, webapp, plugin, created, route>>

\* which it gives their routes.
AddMappings(t) ==
    /\ Done(t, "map")
    /\ route' = IF about[t].webapp THEN Routed(about[t].channels, about[t].plugin) ELSE route
    /\ Shows(state)
    /\ UNCHANGED <<package, plugin, created>>

\* The web application is imported for the first of them, and raises.
MappingsFail(t) ==
    /\ Done(t, "map") /\ about[t].webapp /\ about[t].channels # {}
    /\ excused' = excused \cup about[t].channels
    /\ UNCHANGED <<package, state, webapp, plugin, created, route>>

Deactivate(p) ==
    /\ state[p] \in {"yes", "no"}
    /\ Shows([state EXCEPT ![p] = "no"])
    /\ UNCHANGED <<package, plugin, created, route, workVars>>

\* `delete`, with its channels; the routes stay, and a plugin that is there comes back.
DeletePlugin(p) ==
    /\ state[p] # "none"
    /\ plugin' = [c \in ChannelIds |-> IF plugin[c] = p THEN NoPlugin ELSE plugin[c]]
    /\ Shows([state EXCEPT ![p] = "none"])
    /\ UNCHANGED <<package, created, route, workVars>>

-----------------------------------------------------------------------------
(* The channels page.  add_mapping comes after the row is stored. *)

CreateChannel(t, c, p) ==
    /\ state[p] # "none" /\ c \notin created
    /\ created' = created \cup {c}
    /\ plugin' = [plugin EXCEPT ![c] = p]
    /\ IF p \in webapp THEN Works(t, "idle", "create", [plugin |-> p, channels |-> {c}, webapp |-> TRUE])
                       ELSE doing[t] = "idle" /\ UNCHANGED workVars
    /\ UNCHANGED <<package, state, webapp, route, excused>>

EditChannel(t, c, p) ==
    /\ state[p] # "none" /\ plugin[c] # NoPlugin
    /\ plugin' = [plugin EXCEPT ![c] = p]
    /\ IF p \in webapp /\ plugin[c] # p
       THEN /\ Works(t, "idle", "edit", [plugin |-> p, channels |-> {c}, webapp |-> TRUE])
            /\ excused' = excused \cup Busy(t, {c})
       ELSE /\ doing[t] = "idle" /\ UNCHANGED workVars
            /\ excused' = IF plugin[c] = p THEN excused ELSE excused \cup {c}
    /\ UNCHANGED <<package, state, webapp, created, route>>

\* Mutant of AddMapping: the route is made when the channel is created only.
AddFirstMapping(t) ==
    \E kind \in {"create", "edit"} :
        /\ Done(t, kind)
        /\ route' = IF kind = "create" THEN Routed(about[t].channels, about[t].plugin) ELSE route
        /\ UNCHANGED <<package, state, webapp, plugin, created, excused>>

\* The web application is imported, if that has not been done, and mounted; or the request
\* fails.
AddMapping(t) ==
    \E kind \in {"create", "edit"} :
        /\ Done(t, kind)
        /\ \/ /\ package[about[t].plugin] = "webapp"
              /\ route' = Routed(about[t].channels, about[t].plugin) /\ UNCHANGED excused
           \/ excused' = excused \cup about[t].channels /\ UNCHANGED route
        /\ UNCHANGED <<package, state, webapp, plugin, created>>

-----------------------------------------------------------------------------

PluginsNext ==
    \/ \E pk \in [PluginNames -> Packages] : Start(pk)
    \/ ViewPlugins
    \/ \E p \in PluginNames : Deactivate(p) \/ DeletePlugin(p)
    \/ \E t \in Workers :
        \/ \E p \in PluginNames :
            \/ Activate(t, p)
            \/ \E c \in ChannelIds : CreateChannel(t, c, p) \/ EditChannel(t, c, p)
        \/ InstantiateFails(t) \/ ActivationFails(t) \/ Instantiate(t)
        \/ AddMappings(t) \/ MappingsFail(t) \/ AddMapping(t)

PluginsSpec == PluginsInit /\ [][PluginsNext]_pluginVars

-----------------------------------------------------------------------------
(* Properties. *)

\* Whatever is started again, activated, deleted and edited, a channel about which no
\* request is under way is served by the web application of its plugin, and is served if the
\* plugin is activated; unless two requests about it have overlapped, or it was given a plugin
\* without one, or the plugin was activated before the page had seen its web application, or
\* the plugin raised when it was activated (which leaves the row activated, and no route) or
\* given a route: then its route is an old one, or is missing, and is looked at again when the
\* application starts.
RoutesFollowPlugins ==
    \A c \in ChannelIds :
        plugin[c] # NoPlugin /\ c \notin excused
            /\ ~(\E t \in Workers : c \in about[t].channels \/ about[t].plugin = plugin[c])
        => /\ route[c] \in {NoPlugin, plugin[c]}
           /\ state[plugin[c]] = "yes" /\ plugin[c] \in webapp => route[c] = plugin[c]
=============================================================================

---------------------------- MODULE ScreenContent ----------------------------
(***************************************************************************)
(* What a screen shows: Screen.get_channels_content flattens the channels  *)
(* the screen is subscribed to, bundles in bundles included, and drops the *)
(* channels it has met already.  The recursive definitions follow the      *)
(* Python methods; the properties compare them with definitions by         *)
(* reachability, among them the check ChannelBundle is proved with.        *)
(***************************************************************************)
EXTENDS BundleGraph, Integers, SequencesExt

CONSTANTS
    MaxChildren,    \* bound: channels in a bundle
    MaxSubs         \* bound: subscriptions of the screen

\* A row of the table of channels is a bundle or a plugin channel.
ASSUME ScreenAssumption == Bundles \cap PluginChannels = {}

VARIABLES
    children,       \* children[b]: the channels of bundle b, in insertion order
    enabled,        \* the enabled channels, bundles included
    active,         \* the plugin channels whose plugin is active
    subs            \* the channels the screen is subscribed to, in order

screenVars == <<children, enabled, active, subs>>

Graph == {e \in Bundles \X Channels : e[2] \in ToSet(children[e[1]])}

\* The channels that flatten goes through.
Open(all) == IF all THEN Channels ELSE enabled

\* Mutant of Flatten: a bundle does not test its bundles.
FlattenDisabled(all) ==
    LET flat[c \in Channels] ==
            IF c \in PluginChannels
            THEN IF c \in Open(all) THEN <<c>> ELSE <<>>
            ELSE FlattenSeq([i \in DOMAIN children[c] |-> flat[children[c][i]]])
    IN  flat

\* flatten(keep_disabled_channels=all), of each plugin channel and of each bundle.  A
\* bundle tests whether its channels are enabled, not whether it is.
Flatten(all) ==
    LET flat[c \in Channels] ==
            IF c \in PluginChannels
            THEN IF c \in Open(all) THEN <<c>> ELSE <<>>
            ELSE FlattenSeq([i \in DOMAIN children[c] |->
                    IF children[c][i] \in Open(all) THEN flat[children[c][i]] ELSE <<>>])
    IN  flat

\* The channels of a list that are wanted, without those met earlier in it.
FirstOccurrences(list, wanted) ==
    LET added[i \in 0 .. Len(list)] ==
            IF i = 0 THEN <<>>
            ELSE LET before == added[i - 1] IN
                 IF list[i] \in wanted \ ToSet(before) THEN Append(before, list[i]) ELSE before
    IN  added[Len(list)]

\* get_channels_content: the channels whose capsules are shown, in order.
ChannelsContent ==
    FirstOccurrences(FlattenSeq([i \in DOMAIN subs |-> Flatten(FALSE)[subs[i]]]), PluginChannels)

\* ChannelRenderer: the channels of the preview of a channel, disabled or not, unless
\* their plugin is deactivated.
Preview(c) == FirstOccurrences(Flatten(TRUE)[c], active)

-----------------------------------------------------------------------------
ScreenInit ==
    /\ children = [b \in Bundles |-> <<>>]
    /\ enabled = Channels
    /\ active = PluginChannels
    /\ subs = <<>>

\* add_channel, when nothing runs between its check and its insertion.
AddChannel(b, c) ==
    /\ Len(children[b]) < MaxChildren
    /\ c \notin ToSet(children[b])
    /\ HasNoCycles(Graph, b, c)
    /\ children' = [children EXCEPT ![b] = Append(@, c)]
    /\ UNCHANGED <<enabled, active, subs>>

\* remove_channel: the channel is there once.
RemoveChannel(b, c) ==
    /\ \E i \in DOMAIN children[b] :
        /\ children[b][i] = c
        /\ children' = [children EXCEPT ![b] = RemoveAt(@, i)]
    /\ UNCHANGED <<enabled, active, subs>>

\* The channel pages enable or disable a channel or a bundle.
ToggleEnabled(c) ==
    /\ enabled' = IF c \in enabled THEN enabled \ {c} ELSE enabled \cup {c}
    /\ UNCHANGED <<children, active, subs>>

\* The plugins page activates or deactivates the plugin of a channel.
ToggleActive(c) ==
    /\ active' = IF c \in active THEN active \ {c} ELSE active \cup {c}
    /\ UNCHANGED <<children, enabled, subs>>

\* subscribe_to a channel (a second subscription changes its weight only).
SubscribeTo(c) ==
    /\ Len(subs) < MaxSubs
    /\ c \notin ToSet(subs)
    /\ subs' = Append(subs, c)
    /\ UNCHANGED <<children, enabled, active>>

UnsubscribeFrom(c) ==
    /\ \E i \in DOMAIN subs : subs[i] = c /\ subs' = RemoveAt(subs, i)
    /\ UNCHANGED <<children, enabled, active>>

ScreenNext ==
    \/ \E b \in Bundles, c \in Channels : AddChannel(b, c) \/ RemoveChannel(b, c)
    \/ \E c \in Channels : ToggleEnabled(c) \/ SubscribeTo(c) \/ UnsubscribeFrom(c)
    \/ \E c \in PluginChannels : ToggleActive(c)

ScreenSpec == ScreenInit /\ [][ScreenNext]_screenVars

-----------------------------------------------------------------------------
(* Properties. *)

ScreenTypeOK ==
    /\ children \in [Bundles -> Seq(Channels)]
    /\ enabled \in SUBSET Channels
    /\ active \in SUBSET PluginChannels
    /\ subs \in Seq(Channels)

\* Why every screen can be rendered: flatten ends from every bundle.
ScreenIInv == ScreenTypeOK /\ Acyclic(Graph)

\* The channels reached from c through open ones (c itself is not tested).
ReachThrough(open, c) ==
    {x \in Channels : \A S \in SUBSET Channels :
        /\ c \in S
        /\ \A b \in S \cap Bundles : ToSet(children[b]) \cap open \subseteq S
        => x \in S}

\* The recursive check of add_channel refuses exactly the additions that close a
\* cycle, those that a cycle elsewhere could hide included.
WalkFindsCycles ==
    \A b \in Bundles, c \in Channels :
        HasNoCycles(Graph, b, c) <=> EndsFrom(Graph \cup {<<b, c>>}, b)

\* The enabled plugin channels to which enabled bundles lead from a subscription to one of
\* roots; the root, when it is a bundle, may itself be disabled.
Provided(roots) ==
    {c \in PluginChannels \cap enabled :
        \E i \in DOMAIN subs : subs[i] \in roots /\ c \in ReachThrough(enabled, subs[i])}

\* A screen shows every channel that its enabled subscriptions provide, through enabled bundles
\* in bundles, and nothing that no subscription leads to in this way; and once, however many
\* do.  What a subscription to a disabled bundle provides is left open here
\* (DisabledBundlesAreSilent is about it).  The preview of a channel shows, once, every plugin
\* channel in it, disabled or not, if its plugin is activated.
ShowsWhatIsReachable ==
    /\ Provided(enabled) \subseteq ToSet(ChannelsContent)
    /\ ToSet(ChannelsContent) \subseteq Provided(Channels)
    /\ IsInjective(ChannelsContent)
    /\ \A c \in Channels :
        /\ ToSet(Preview(c)) = active \cap ReachThrough(Channels, c)
        /\ IsInjective(Preview(c))

\* "If a bundle is not enabled, it won't provide content for any screen subscribed to it"
\* (ictv/info.yaml:29): what a screen shows is provided by a subscription that is enabled.
\* The code does not do this: flatten tests the channels of a bundle, and nobody tests the
\* bundle that is subscribed to.
DisabledBundlesAreSilent == ToSet(ChannelsContent) \subseteq Provided(enabled)
=============================================================================

---------------------------- MODULE ChannelBundle ----------------------------
(***************************************************************************)
(* The two pages that change the content of bundles, ManageBundlePage (one *)
(* bundle, many channels) and DetailPage (one channel, many bundles), each *)
(* request being a thread.  A page applies a diff, one change after the    *)
(* other, through ChannelBundle.add_channel and remove_channel.  Each SQL  *)
(* statement commits on its own: add_channel reads the rows it checks, and *)
(* inserts its row in a later statement.                                   *)
(***************************************************************************)
EXTENDS BundleGraph, Naturals

CONSTANTS
    Threads,    \* the request threads of the server
    NoChange,   \* no change under way
    MaxDiff     \* bound: changes in one diff

\* add: add the channel to the bundle; otherwise remove it from the bundle.
Change == [bundle : Bundles, channel : Channels, add : BOOLEAN]

ASSUME BundleAssumption == NoChange \notin Change /\ MaxDiff \in Nat

VARIABLES
    bundled,    \* bundled[b][c]: rows of the join table for b and c
    activated,  \* the plugin channels whose plugin is activated
    diff,       \* history: the changes asked by the last request of t, but for
                \* those it dropped and those another request has made since
    todo,       \* todo[t]: those not started yet
    cur,        \* cur[t]: the addition that is checked and not inserted yet
    answer,     \* answer[t]: the feedback of the last request of t
    overlapped  \* history: two additions were once checked and not inserted yet

vars == <<bundled, activated, diff, todo, cur, answer, overlapped>>

Edges == {e \in Bundles \X Channels : bundled[e[1]][e[2]] > 0}
Bundled(ch) == bundled[ch.bundle][ch.channel] > 0

SamePlace(x, y) == x.bundle = y.bundle /\ x.channel = y.channel

\* A diff is a JSON object: a channel (or a bundle) is in it once.
Functional(d) ==
    \A x, y \in d : SamePlace(x, y) => x = y

\* wrong_channel, for one change of a diff of the bundle page.
WrongChannel(ch) ==
    \/ ch.channel = ch.bundle
    \/ ch.add /\ ch.channel \in PluginChannels /\ ch.channel \notin activated

\* The bundle page refuses a diff with a wrong channel; the other checks nothing.
ManageAccepts(d) ==
    /\ \A x, y \in d : x.bundle = y.bundle
    /\ \A ch \in d : ~WrongChannel(ch)
DetailAccepts(d) == \A x, y \in d : x.channel = y.channel

Init ==
    /\ bundled = [b \in Bundles |-> [c \in Channels |-> 0]]
    /\ activated = PluginChannels
    /\ diff = [t \in Threads |-> {}]
    /\ todo = [t \in Threads |-> {}]
    /\ cur = [t \in Threads |-> NoChange]
    /\ answer = [t \in Threads |-> "none"]
    /\ overlapped = FALSE

\* A request arrives and its diff passes the checks of its page.
Receive(t, d) ==
    /\ answer[t] # "working"
    /\ ManageAccepts(d) \/ DetailAccepts(d)
    /\ diff' = [diff EXCEPT ![t] = d]
    /\ todo' = [todo EXCEPT ![t] = d]
    /\ answer' = [answer EXCEPT ![t] = "working"]
    /\ UNCHANGED <<bundled, activated, cur, overlapped>>

\* The thread takes a change of its diff; the order is that of the JSON text.
Take(t, ch) ==
    /\ cur[t] = NoChange
    /\ ch \in todo[t]
    /\ todo' = [todo EXCEPT ![t] = @ \ {ch}]

\* add_channel of a channel that is in the bundle already.
AlreadyThere(t, ch) ==
    /\ ch.add /\ Bundled(ch)
    /\ Take(t, ch)
    /\ UNCHANGED <<bundled, activated, diff, cur, answer, overlapped>>

\* add_channel: the two conditions hold; the row is not inserted yet.
CheckPasses(t, ch) ==
    /\ ch.add /\ ~Bundled(ch) /\ HasNoCycles(Edges, ch.bundle, ch.channel)
    /\ Take(t, ch)
    /\ cur' = [cur EXCEPT ![t] = ch]
    /\ overlapped' = (overlapped \/ \E u \in Threads \ {t} : cur[u] # NoChange)
    /\ UNCHANGED <<bundled, activated, diff, answer>>

\* Mutant of CycleFound: the page goes on with the rest of the diff.
CycleFoundIgnored(t, ch) ==
    /\ ch.add /\ ~Bundled(ch) /\ ~HasNoCycles(Edges, ch.bundle, ch.channel)
    /\ Take(t, ch)
    /\ UNCHANGED <<bundled, activated, diff, cur, answer, overlapped>>

\* add_channel raises ValueError: the page drops the rest of the diff.  What it
\* has applied stays.
CycleFound(t, ch) ==
    /\ ch.add /\ ~Bundled(ch) /\ ~HasNoCycles(Edges, ch.bundle, ch.channel)
    /\ cur[t] = NoChange
    /\ ch \in todo[t]
    /\ todo' = [todo EXCEPT ![t] = {}]
    /\ diff' = [diff EXCEPT ![t] = @ \ todo[t]]
    /\ answer' = [answer EXCEPT ![t] = "bundle_cycle"]
    /\ UNCHANGED <<bundled, activated, cur, overlapped>>

\* History: t changes the content of a bundle, and the other requests are not to be
\* held to what they asked for that channel in that bundle.
Changes(t, ch) ==
    diff' = [u \in Threads |->
                IF u = t THEN diff[u] ELSE {x \in diff[u] : ~SamePlace(x, ch)}]

\* addChannel: the INSERT of add_channel.
Insert(t) ==
    /\ cur[t] # NoChange
    /\ bundled' = [bundled EXCEPT ![cur[t].bundle][cur[t].channel] = @ + 1]
    /\ cur' = [cur EXCEPT ![t] = NoChange]
    /\ Changes(t, cur[t])
    /\ UNCHANGED <<activated, todo, answer, overlapped>>

\* remove_channel: its DELETE takes every row of the pair, and none if there is none.
Delete(t, ch) ==
    /\ ~ch.add
    /\ Take(t, ch)
    /\ bundled' = [bundled EXCEPT ![ch.bundle][ch.channel] = 0]
    /\ Changes(t, ch)
    /\ UNCHANGED <<activated, cur, answer, overlapped>>

\* Every change is applied: the page answers "ok".
Finish(t) ==
    /\ answer[t] = "working"
    /\ todo[t] = {} /\ cur[t] = NoChange
    /\ answer' = [answer EXCEPT ![t] = "ok"]
    /\ UNCHANGED <<bundled, activated, diff, todo, cur, overlapped>>

\* The plugins page activates or deactivates the plugin of a channel.
TogglePlugin(c) ==
    /\ activated' = IF c \in activated THEN activated \ {c} ELSE activated \cup {c}
    /\ UNCHANGED <<bundled, diff, todo, cur, answer, overlapped>>

Diffs == {d \in SUBSET Change : Cardinality(d) \in 1..MaxDiff /\ Functional(d)}

Next ==
    \/ \E t \in Threads, d \in Diffs : Receive(t, d)
    \/ \E t \in Threads : \E ch \in todo[t] :
            AlreadyThere(t, ch) \/ CheckPasses(t, ch) \/ CycleFound(t, ch) \/ Delete(t, ch)
    \/ \E t \in Threads : Insert(t) \/ Finish(t)
    \/ \E c \in PluginChannels : TogglePlugin(c)

Spec == Init /\ [][Next]_vars

-----------------------------------------------------------------------------
(* Properties. *)

TypeOK ==
    /\ bundled \in [Bundles -> [Channels -> Nat]]
    /\ activated \in SUBSET PluginChannels
    /\ diff \in [Threads -> SUBSET Change]
    /\ todo \in [Threads -> SUBSET Change]
    /\ cur \in [Threads -> Change \cup {NoChange}]
    /\ answer \in [Threads -> {"none", "working", "ok", "bundle_cycle"}]
    /\ overlapped \in BOOLEAN

\* No bundle contains itself through others (tests/pages/test_channel_page.py:188,
\* "we cannot add a direct or indirect cycle of bundles"): a cycle makes flatten
\* recurse without end whenever a screen is rendered.
NoCycle == Acyclic(Edges)

\* add_channel "avoids channel duplication in bundled channels".
NoDuplicates == \A b \in Bundles, c \in Channels : bundled[b][c] <= 1

\* Both hold as long as no two requests have been between the check and the insertion
\* of add_channel at the same time, whatever else they do at the same time.
SoundUnlessOverlap == ~overlapped => NoCycle /\ NoDuplicates

\* The direct cycle, which the check refuses whatever other requests do.
NotInItself == \A b \in Bundles : bundled[b][b] = 0

\* What a request has applied is there, "ok" or not, until another request changes it;
\* a change that was not started or not inserted is not claimed.  No update is lost
\* in the middle of another.
DiffIsApplied ==
    \A t \in Threads :
        \A ch \in diff[t] \ (todo[t] \cup {cur[t]}) : Bundled(ch) <=> ch.add

Store == INSTANCE BundleStore WITH contents <- bundled, raced <- overlapped

\* Each statement that changes the table is a whole addition or removal of one channel, and
\* an addition finds the channel out of the bundle and closes no cycle in the content it
\* meets, not only in the one that was checked, whatever was removed or inserted meanwhile;
\* until two additions overlap.
StoreIsAtomic == Store!StoreSpec

\* Why there is no cycle: an addition that passed the check may still be made.
WithEdge(ch) == Edges \cup {<<ch.bundle, ch.channel>>}
OneIsChecked == \A t, u \in Threads : cur[t] # NoChange /\ cur[u] # NoChange => t = u
CheckStillHolds ==
    \A t \in Threads : cur[t] # NoChange =>
        /\ cur[t].add
        /\ ~Bundled(cur[t])
        /\ EndsFrom(WithEdge(cur[t]), cur[t].bundle)

IInv ==
    /\ TypeOK
    /\ ~overlapped => NoCycle /\ NoDuplicates /\ OneIsChecked /\ CheckStillHolds
=============================================================================

---------------------------- MODULE Subscriptions ----------------------------
(***************************************************************************)
(* Which screens show which channels, and who decides it.  Three pages     *)
(* change the subscriptions (ictv/pages/screens_page.py, screen_           *)
(* subscriptions_page.py and SubscribeScreensPage of channel_page.py), and *)
(* others the rights they look at: the owners of a screen, the authorized  *)
(* subscribers of a channel, its subscription right, the activation of its *)
(* plugin.  Screens and channels are deleted meanwhile.                    *)
(*                                                                         *)
(* The forms are diffs: entries that say what to add and what to remove.   *)
(* Requests interleave between SQL statements, each of which commits on    *)
(* its own; the foreign keys and the unique index on (screen, channel) are *)
(* enforced by the database.                                               *)
(***************************************************************************)
EXTENDS FiniteSets, Naturals

CONSTANTS
    Screens, Channels,  \* those that exist at first
    Bundles,            \* the channels that are bundles, and have no plugin
    Users,
    Admins,             \* users who are administrators,
    SuperAdmins,        \* and super administrators
    HasAdmin,           \* pairs <<u, c>>: u has the role of administrator on c
    Threads,            \* request threads
    None,
    Forms,              \* bound: the forms that are sent, with their users,
    Edited              \* and the channels whose right or plugin is edited meanwhile

\* An entry of a diff: a screen, a channel or a user, to add or to remove.
Entry == [key : Screens \cup Channels \cup Users, add : BOOLEAN]

\* Pages with the kind of object they are about and the kind of their entries.
Target == [screen |-> Screens, screens |-> Screens, chown |-> Screens,
           channel |-> Channels, authorize |-> Channels,
           delete_screen |-> Screens, delete_channel |-> Channels]
Keys == [screen |-> Channels, screens |-> Channels, chown |-> Users,
         channel |-> Screens, authorize |-> Users, delete_screen |-> {}, delete_channel |-> {}]

Form == [user : Users, page : DOMAIN Target, target : Screens \cup Channels, diff : SUBSET Entry]

\* A diff has an entry for each of some keys.
ADiff(d, keys) ==
    /\ \A e \in d : e.key \in keys
    /\ \A e, f \in d : e.key = f.key => e = f
    /\ d = {} <=> keys = {}

ASSUME SubscriptionsAssumption ==
    /\ Bundles \subseteq Channels /\ SuperAdmins \subseteq Admins /\ Admins \subseteq Users
    /\ Forms \subseteq {f \in Form : f.target \in Target[f.page] /\ ADiff(f.diff, Keys[f.page])}
    /\ Edited \subseteq Channels
    /\ None \notin Users \cup Form \cup Entry \cup Threads
    /\ Screens \cap Channels = {} /\ Screens \cap Users = {} /\ Channels \cap Users = {}

VARIABLES
    screens, channels,  \* those that still exist
    sub,        \* sub[s, c]: the user who created the subscription of s to c, or None
    owner,      \* owner[s][u]: rows of the join table that make u an owner of s
    authorized, \* authorized[c]: users who may subscribe to c when it is not public
    public,     \* channels whose subscription_right is 'public'
    active,     \* plugin channels whose plugin is activated
    pc, form,   \* of a thread: its next step, and the form it was sent
    todo,       \* the entries not yet treated
    cur,        \* the entry under way
    found,      \* whether its row was "none", a "row", or a row that is "gone" since
    applied,    \* history: an entry has been applied
    disturbed   \* history: something the request is about was changed by another one

tables == <<screens, channels, sub, owner, authorized, public, active>>
vars == <<tables, pc, form, todo, cur, found, applied, disturbed>>

Init ==
    /\ screens = Screens /\ channels = Channels
    /\ sub = [p \in Screens \X Channels |-> None]
    /\ owner = [s \in Screens |-> [u \in Users |-> 0]]
    /\ authorized = [c \in Channels |-> {}]
    /\ public = {}
    /\ active = Channels \ Bundles
    /\ pc = [t \in Threads |-> "idle"]
    /\ form = [t \in Threads |-> None]
    /\ todo = [t \in Threads |-> {}] /\ cur = [t \in Threads |-> None]
    /\ found = [t \in Threads |-> "unread"]
    /\ applied = [t \in Threads |-> FALSE] /\ disturbed = [t \in Threads |-> FALSE]

-----------------------------------------------------------------------------
(* Rights. *)

Owns(u, s) == s \in screens /\ owner[s][u] > 0

\* channel.can_subscribe(u)
CanSubscribe(u, c) == c \in public \/ u \in Admins \/ u \in authorized[c]

\* What the gate of a page and its first lines require of its user.
Gate(f) ==
    LET u == f.user IN
    CASE f.page = "screen"  -> u \in Admins \/ Owns(u, f.target)
      [] f.page = "channel" -> u \in Admins
      [] f.page = "authorize" -> u \in Admins \/ <<u, f.target>> \in HasAdmin
      [] f.page \in {"delete_screen", "delete_channel"} -> u \in SuperAdmins
      [] OTHER -> u \in Admins \/ \E s \in screens : Owns(u, s)

\* The screen and the channel of an entry.
ScreenOf(f, e) == IF f.page = "channel" THEN e.key ELSE f.target
ChannelOf(f, e) == IF f.page = "channel" THEN f.target ELSE e.key

IsSubscription(f) == f.page \in {"screen", "screens", "channel"}

\* What the entry names is still there; the page of a screen does not read it again.
Exists(f, e) ==
    CASE IsSubscription(f) -> /\ ChannelOf(f, e) \in channels
                              /\ f.page # "screen" => ScreenOf(f, e) \in screens
      [] f.page = "chown" -> f.target \in screens
      [] OTHER -> TRUE

Disabled(c) == c \notin Bundles \cup active

\* Mutant of Allowed: ScreensPage asks who owns the screen only.
AllowedToOwners(f, e) ==
    LET u == f.user  s == ScreenOf(f, e)  c == ChannelOf(f, e)
    IN  CASE f.page = "screens" -> /\ u \in Admins \/ Owns(u, s)
                                   /\ e.add => ~Disabled(c)
          [] f.page = "screen"  -> e.add => ~Disabled(c) /\ CanSubscribe(u, c)
          [] f.page = "channel" -> CanSubscribe(u, c) /\ (Owns(u, s) \/ u \in SuperAdmins)
          [] f.page = "chown"   -> u \in Admins \/ Owns(u, s)
          [] OTHER -> TRUE

\* What each page asks before it treats an entry.  The page of a screen has asked who owns
\* it at its gate, and lets its owners unsubscribe it from anything; that of a channel does
\* not look at the plugin; ScreensPage lets administrators do all but show a plugin that is
\* not activated.
Allowed(f, e) ==
    LET u == f.user  s == ScreenOf(f, e)  c == ChannelOf(f, e)
    IN  CASE f.page = "screens" -> /\ u \in Admins \/ (CanSubscribe(u, c) /\ Owns(u, s))
                                   /\ e.add => ~Disabled(c)
          [] f.page = "screen"  -> e.add => ~Disabled(c) /\ CanSubscribe(u, c)
          [] f.page = "channel" -> CanSubscribe(u, c) /\ (Owns(u, s) \/ u \in SuperAdmins)
          [] f.page = "chown"   -> u \in Admins \/ Owns(u, s)
          [] OTHER -> TRUE

Passes(t, e) == Exists(form[t], e) /\ Allowed(form[t], e)

-----------------------------------------------------------------------------
(* History: what a change disturbs. *)

\* What the request of t depends on.  A deletion looks at every subscription.
Named(t) ==
    {form[t].user, form[t].target} \cup {e.key : e \in form[t].diff}
        \cup (IF form[t].page = "delete_channel" THEN Screens ELSE {})

Disturb(t, objects) ==
    disturbed' = [v \in Threads |->
        disturbed[v] \/ (v # t /\ pc[v] # "idle" /\ objects \subseteq Named(v))]

-----------------------------------------------------------------------------
(* Requests. *)

At(t, from, to) == pc[t] = from /\ pc' = [pc EXCEPT ![t] = to]

Open(t, f) ==
    /\ At(t, "idle", IF Keys[f.page] = {} THEN "delete" ELSE "check")
    /\ f.target \in screens \cup channels
    /\ \A e \in f.diff : e.key \in screens \cup channels \cup Users
    /\ Gate(f)
    /\ form' = [form EXCEPT ![t] = f]
    /\ todo' = [todo EXCEPT ![t] = f.diff]
    /\ UNCHANGED <<tables, cur, found, applied, disturbed>>

Answer(t, answer) ==
    /\ pc' = [pc EXCEPT ![t] = answer]
    /\ cur' = [cur EXCEPT ![t] = None]
    /\ found' = [found EXCEPT ![t] = "unread"]

\* How an entry is refused.  The page of a screen asks for the plugin of what may be a
\* bundle, and that of a channel says what does not exist by an exception nobody handles.
Refusal(f, e) ==
    IF \/ f.page = "screen" /\ Exists(f, e) /\ e.key \in Bundles
       \/ f.page = "channel" /\ ~Exists(f, e)
    THEN "error" ELSE "refused"

\* Mutant of ChecksFirst: no page does.
ChecksInTurn(f) == FALSE

\* The page of a screen checks all its entries before it applies one, the others each in turn.
ChecksFirst(f) == f.page = "screen"

Check(t, e) ==
    /\ pc[t] = "check" /\ e \in todo[t]
    /\ IF ~Passes(t, e)
       THEN Answer(t, Refusal(form[t], e)) /\ UNCHANGED todo
       ELSE IF ChecksFirst(form[t])
       THEN /\ pc' = [pc EXCEPT ![t] = IF todo[t] = {e} THEN "select" ELSE "check"]
            /\ todo' = [todo EXCEPT ![t] = IF @ = {e} THEN form[t].diff ELSE @ \ {e}]
            /\ UNCHANGED <<cur, found>>
       ELSE /\ todo' = [todo EXCEPT ![t] = @ \ {e}]
            /\ pc' = [pc EXCEPT ![t] = "select"]
            /\ cur' = [cur EXCEPT ![t] = e]
            /\ UNCHANGED found
    /\ UNCHANGED <<tables, form, applied, disturbed>>

HasRow(f, e) ==
    \/ IsSubscription(f) /\ sub[<<ScreenOf(f, e), ChannelOf(f, e)>>] # None
    \/ f.page = "chown" /\ Owns(e.key, f.target)
    \/ f.page = "authorize" /\ e.key \in authorized[f.target]

\* subscribe_to, unsubscribe_from, safe_add_user and the form of the authorized subscribers
\* look for the row ...
Select(t, e) ==
    /\ pc[t] = "select" /\ e \in (IF cur[t] = None THEN todo[t] ELSE {cur[t]})
    /\ pc' = [pc EXCEPT ![t] = "write"]
    /\ cur' = [cur EXCEPT ![t] = e]
    /\ todo' = [todo EXCEPT ![t] = @ \ {e}]
    /\ found' = [found EXCEPT ![t] = IF HasRow(form[t], e) THEN "row" ELSE "none"]
    /\ UNCHANGED <<tables, form, applied, disturbed>>

\* The thread goes on with the next entry.
Continue(t) ==
    /\ pc' = [pc EXCEPT ![t] = IF todo[t] = {} THEN "ok"
                               ELSE IF ChecksFirst(form[t]) THEN "select" ELSE "check"]
    /\ cur' = [cur EXCEPT ![t] = None]
    /\ applied' = [applied EXCEPT ![t] = TRUE]

\* The rows found by the others that are deleted under them.
Forget(t, gone(_)) ==
    found' = [v \in Threads |->
                 CASE v = t -> "unread"
                   [] v # t /\ found[v] = "row" /\ IsSubscription(form[v])
                            /\ gone(<<ScreenOf(form[v], cur[v]), ChannelOf(form[v], cur[v])>>)
                       -> "gone"
                   [] OTHER -> found[v]]

Writes(t) == pc[t] = "write" /\ UNCHANGED <<screens, channels, public, active, form, todo>>
Pair(t) == <<ScreenOf(form[t], cur[t]), ChannelOf(form[t], cur[t])>>
Subscribes(t) == IsSubscription(form[t]) /\ cur[t].add

\* ... then insert it,
InsertSubscription(t) ==
    /\ Writes(t) /\ Subscribes(t) /\ found[t] = "none"
    /\ Pair(t) \in screens \X channels /\ sub[Pair(t)] = None
    /\ sub' = [sub EXCEPT ![Pair(t)] = form[t].user]
    /\ found' = [found EXCEPT ![t] = "unread"]
    /\ Disturb(t, {Pair(t)[1], Pair(t)[2]})
    /\ Continue(t)
    /\ UNCHANGED <<owner, authorized>>

\* unless it is there since, which two of the pages ignore, or its screen or its channel is
\* not any more,
InsertFails(t) ==
    /\ Writes(t) /\ Subscribes(t) /\ found[t] = "none"
    /\ Pair(t) \in screens \X channels => sub[Pair(t)] # None
    /\ IF Pair(t) \in screens \X channels /\ form[t].page # "screen"
       THEN Continue(t) /\ found' = [found EXCEPT ![t] = "unread"]
       ELSE Answer(t, "error") /\ UNCHANGED applied
    /\ UNCHANGED <<sub, owner, authorized, disturbed>>

\* put another user in it,
UpdateSubscription(t) ==
    /\ Writes(t) /\ Subscribes(t) /\ found[t] \in {"row", "gone"}
    /\ sub' = IF found[t] = "row" THEN [sub EXCEPT ![Pair(t)] = form[t].user] ELSE sub
    /\ found' = [found EXCEPT ![t] = "unread"]
    /\ Continue(t)
    /\ UNCHANGED <<owner, authorized, disturbed>>

\* or delete it.
DeleteSubscription(t) ==
    /\ Writes(t) /\ IsSubscription(form[t]) /\ ~cur[t].add
    /\ IF found[t] = "row"
       THEN /\ sub' = [sub EXCEPT ![Pair(t)] = None]
            /\ Forget(t, LAMBDA p : p = Pair(t))
            /\ Disturb(t, {Pair(t)[1], Pair(t)[2]})
       ELSE /\ found' = [found EXCEPT ![t] = "unread"]
            /\ UNCHANGED <<sub, disturbed>>
    /\ Continue(t)
    /\ UNCHANGED <<owner, authorized>>

\* Mutant of ChangeOwner: addUser without a look at the owners.
AddOwner(t) ==
    /\ Writes(t) /\ form[t].page = "chown"
    /\ owner' = [owner EXCEPT ![form[t].target][cur[t].key] = IF ~cur[t].add THEN 0 ELSE @ + 1]
    /\ found' = [found EXCEPT ![t] = "unread"]
    /\ Disturb(t, {form[t].target, cur[t].key})
    /\ Continue(t)
    /\ UNCHANGED <<sub, authorized>>

\* The table of owners has no index: an insertion can be repeated, a removal deletes all.
ChangeOwner(t) ==
    /\ Writes(t) /\ form[t].page = "chown"
    /\ owner' = [owner EXCEPT ![form[t].target][cur[t].key] =
                    CASE ~cur[t].add -> 0
                      [] cur[t].add /\ found[t] = "none" /\ form[t].target \in screens -> @ + 1
                      [] OTHER -> @]
    /\ found' = [found EXCEPT ![t] = "unread"]
    /\ Disturb(t, {form[t].target, cur[t].key})
    /\ Continue(t)
    /\ UNCHANGED <<sub, authorized>>

\* The authorized subscribers of a channel (the same, but nothing shows how often).
Authorize(t) ==
    /\ Writes(t) /\ form[t].page = "authorize"
    /\ authorized' = [authorized EXCEPT ![form[t].target] =
                         IF cur[t].add THEN @ \cup {cur[t].key} ELSE @ \ {cur[t].key}]
    /\ found' = [found EXCEPT ![t] = "unread"]
    /\ Disturb(t, {form[t].target, cur[t].key})
    /\ Continue(t)
    /\ UNCHANGED <<sub, owner>>

Close(t) ==
    /\ pc[t] \in {"ok", "refused", "error"}
    /\ pc' = [pc EXCEPT ![t] = "idle"]
    /\ form' = [form EXCEPT ![t] = None]
    /\ todo' = [todo EXCEPT ![t] = {}]
    /\ applied' = [applied EXCEPT ![t] = FALSE] /\ disturbed' = [disturbed EXCEPT ![t] = FALSE]
    /\ UNCHANGED <<tables, cur, found>>

-----------------------------------------------------------------------------
(* Deletions, and the other forms that change a right. *)

\* A row is deleted with the rows that refer to it.
Cascade(t, object) ==
    /\ sub' = [p \in Screens \X Channels |-> IF object \in {p[1], p[2]} THEN None ELSE sub[p]]
    /\ Forget(t, LAMBDA p : object \in {p[1], p[2]})
    /\ Disturb(t, {object})
    /\ UNCHANGED <<authorized, public, active, form, todo, cur, applied>>

DeleteScreen(t) ==
    /\ form[t] # None /\ form[t].page = "delete_screen"
    /\ At(t, "delete", "ok")
    /\ screens' = screens \ {form[t].target}
    /\ owner' = [owner EXCEPT ![form[t].target] = [u \in Users |-> 0]]
    /\ Cascade(t, form[t].target)
    /\ UNCHANGED channels

Subscriptions(c) == {s \in Screens : sub[s, c] # None}

\* Without a confirmation, a channel that screens are subscribed to is not deleted.
ConfirmDelete(t) ==
    /\ form[t] # None /\ form[t].page = "delete_channel"
    /\ At(t, "delete", IF form[t].target \notin channels \/ Subscriptions(form[t].target) # {}
                       THEN "refused" ELSE "destroy")
    /\ UNCHANGED <<tables, form, todo, cur, found, applied, disturbed>>

DeleteChannel(t) ==
    /\ At(t, "destroy", "ok")
    /\ channels' = channels \ {form[t].target}
    /\ Cascade(t, form[t].target)
    /\ UNCHANGED <<screens, owner>>

\* The edition of a channel, and the activation of its plugin.
EditSubscriptionRight(c) ==
    /\ c \in channels
    /\ public' = IF c \in public THEN public \ {c} ELSE public \cup {c}
    /\ Disturb(None, {c})
    /\ UNCHANGED <<screens, channels, sub, owner, authorized, active, pc, form, todo, cur, found, applied>>

TogglePlugin(c) ==
    /\ c \in channels /\ c \notin Bundles
    /\ active' = IF c \in active THEN active \ {c} ELSE active \cup {c}
    /\ Disturb(None, {c})
    /\ UNCHANGED <<screens, channels, sub, owner, authorized, public, pc, form, todo, cur, found, applied>>

-----------------------------------------------------------------------------

Next ==
    \/ \E t \in Threads :
        \/ \E f \in Forms : Open(t, f)
        \/ \E e \in todo[t] : Check(t, e)
        \/ \E e \in Entry : Select(t, e)
        \/ InsertSubscription(t) \/ InsertFails(t) \/ UpdateSubscription(t)
        \/ DeleteSubscription(t) \/ ChangeOwner(t) \/ Authorize(t) \/ Close(t)
        \/ DeleteScreen(t) \/ ConfirmDelete(t) \/ DeleteChannel(t)
    \/ \E c \in Edited : EditSubscriptionRight(c) \/ TogglePlugin(c)

Spec == Init /\ [][Next]_vars

-----------------------------------------------------------------------------
(* Properties. *)

TypeOK ==
    /\ screens \subseteq Screens /\ channels \subseteq Channels
    /\ sub \in [Screens \X Channels -> Users \cup {None}]
    /\ \A p \in Screens \X Channels : sub[p] # None => p \in screens \X channels
    /\ owner \in [Screens -> [Users -> Nat]]
    /\ authorized \in [Channels -> SUBSET Users]
    /\ public \subseteq Channels /\ active \subseteq Channels \ Bundles
    /\ pc \in [Threads -> {"idle", "check", "select", "write", "delete", "destroy",
                           "ok", "refused", "error"}]
    /\ form \in [Threads -> Form \cup {None}]
    /\ todo \in [Threads -> SUBSET Entry] /\ cur \in [Threads -> Entry \cup {None}]
    /\ found \in [Threads -> {"unread", "none", "row", "gone"}]
    /\ applied \in [Threads -> BOOLEAN] /\ disturbed \in [Threads -> BOOLEAN]

\* Whoever is about to subscribe a screen, whichever page he does it from, owns it or is an
\* administrator, and may subscribe to the channel, whose plugin is activated; a right that
\* was lost meanwhile is the only exception, with the plugin on the page of a channel.
SubscribesByRight ==
    \A t \in Threads :
        /\ pc[t] \in {"select", "write"} /\ cur[t] # None /\ Subscribes(t)
        /\ ~disturbed[t]
        => /\ form[t].user \in Admins \/ Owns(form[t].user, Pair(t)[1])
           /\ CanSubscribe(form[t].user, Pair(t)[2])
           /\ form[t].page = "channel" \/ ~Disabled(Pair(t)[2])

Holds(f, e) == HasRow(f, e) <=> e.add

\* What an answer means, when no other request touched what this one is about: `ok`, that
\* the whole diff holds; a refusal by the page of a screen, that nothing was written (the
\* others keep what they had written before, and an owner who removes himself is refused
\* the rest); and no exception but that of a refused bundle.
AnswerIsTrue ==
    \A t \in Threads :
        pc[t] # "idle" /\ form[t].diff # {} /\ ~disturbed[t] =>
            /\ pc[t] = "ok" => \A e \in form[t].diff : Holds(form[t], e)
            /\ pc[t] \in {"refused", "error"} /\ form[t].page = "screen" => ~applied[t]
            /\ pc[t] = "error" => /\ form[t].page = "screen"
                                  /\ \E e \in form[t].diff : e.key \in Bundles /\ e.add

\* A user is twice among the owners of a screen only if two requests added him at once.
OwnsOnceUnlessRace ==
    [][\A s \in Screens, u \in Users :
            owner'[s][u] > owner[s][u] /\ owner[s][u] > 0 =>
                \E t \in Threads : pc[t] = "write" /\ disturbed[t]]_vars
=============================================================================

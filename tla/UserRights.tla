----------------------------- MODULE UserRights -----------------------------
(***************************************************************************)
(* Who may do what: the administrators (ictv/pages/users_page.py), and the *)
(* roles of users on channels (the add-users-channel form of               *)
(* ictv/pages/channels_page.py), with ictv/models/user.py, role.py and     *)
(* channel.py.                                                             *)
(*                                                                         *)
(* A permission level is the set of its flags (FlagEnum); `in` is set      *)
(* inclusion.  A request reads its user once, when it passes its gate: the *)
(* columns of that row are those it acts upon to its end, while roles are  *)
(* read again whenever they are needed.  Requests interleave between SQL   *)
(* statements, each of which commits on its own.  The form of a channel    *)
(* also says who may subscribe a screen to it, which gives no right here.  *)
(***************************************************************************)
EXTENDS FiniteSets, Naturals

CONSTANTS
    Users,      \* those who have an account, or are given one
    Channels,   \* plugin channels
    Threads,    \* request threads
    None,       \* none of those
    MaxDiff     \* bound: entries in the form of a channel

NoPermission == {}
ChannelContributor == {"channel_contributor"}
ChannelAdministrator == {"channel_administrator"} \cup ChannelContributor
Administrator == {"administrator", "screen_administrator"} \cup ChannelAdministrator
SuperAdministrator == {"super_administrator"} \cup Administrator

Ranks == {NoPermission, Administrator, SuperAdministrator}
Levels == {NoPermission, ChannelContributor, ChannelAdministrator}

\* An entry of a form: on the users page, a user to create or to edit and the rank it is
\* to have; on the page of a channel, a user and the permission it is to have.
Entry == [action : {"create", "edit", "permission"}, user : Users, level : Ranks \cup Levels]

ASSUME RightsAssumption ==
    /\ None \notin Entry \cup Users \cup Channels
    /\ MaxDiff \in Nat

VARIABLES
    accounts,   \* users who have an account
    rank,       \* the columns super_admin and admin of each, as a level
    role,       \* role[c][u]: the level in the Role row of u for c
    pc,         \* what the request of a thread does next
    actor,      \* its user
    seen,       \* the rank of that user, as read at the gate
    channel,    \* the channel of its form, or None
    todo,       \* the entries of its form that are not started
    cur,        \* the role to "remove" or to "give" that is under way
    selected,   \* what it found: the Role row is "none", "row", or "gone" if deleted since
    overlapped  \* history: two edits of users, or two changes of the role of a user
                \* for a channel, were once under way together

requestVars == <<actor, seen, channel>>
vars == <<accounts, rank, role, pc, requestVars, todo, cur, selected, overlapped>>

Init ==
    /\ \E u \in Users :     \* create_database
        /\ accounts = {u}
        /\ rank = [v \in Users |-> IF v = u THEN SuperAdministrator ELSE NoPermission]
    /\ role = [c \in Channels |-> [u \in Users |-> NoPermission]]
    /\ pc = [t \in Threads |-> "idle"]
    /\ seen = [t \in Threads |-> NoPermission]
    /\ actor = [t \in Threads |-> None]
    /\ channel = [t \in Threads |-> None]
    /\ todo = [t \in Threads |-> {}]
    /\ cur = [t \in Threads |-> None]
    /\ selected = [t \in Threads |-> "unread"]
    /\ overlapped = FALSE

At(t, from, to) == pc[t] = from /\ pc' = [pc EXCEPT ![t] = to]

\* highest_permission_level of u, where r is the rank read in its row.
HighestPermissionLevel(u, r) == r \cup UNION {role[c][u] : c \in Channels}

HasAdmin(c, u) == ChannelAdministrator \subseteq role[c][u]

IsAdministrator(t) == Administrator \subseteq HighestPermissionLevel(actor[t], seen[t])

\* PermissionGate, for a request of u that requires a level.
Gate(t, u, level) ==
    /\ u \in accounts
    /\ level \subseteq HighestPermissionLevel(u, rank[u])
    /\ actor' = [actor EXCEPT ![t] = u]
    /\ seen' = [seen EXCEPT ![t] = rank[u]]

\* The request of t ends; what it read at the gate is forgotten.
End(t, from) ==
    /\ At(t, from, "idle")
    /\ seen' = [seen EXCEPT ![t] = NoPermission]
    /\ todo' = [todo EXCEPT ![t] = {}]
    /\ cur' = [cur EXCEPT ![t] = None]
    /\ selected' = [selected EXCEPT ![t] = "unread"]
    /\ actor' = [actor EXCEPT ![t] = None]
    /\ channel' = [channel EXCEPT ![t] = None]

Editing(t) == pc[t] = "users" /\ \E e \in todo[t] : e.action = "edit"

-----------------------------------------------------------------------------
(* The users page. *)

OpenUsers(t, u, e) ==
    /\ e.action \in {"create", "edit"} /\ e.level \in Ranks
    /\ e.action = "edit" => e.user \in accounts
    /\ At(t, "idle", "users")
    /\ Gate(t, u, Administrator)
    /\ todo' = [todo EXCEPT ![t] = {e}]
    /\ overlapped' = (overlapped \/ (e.action = "edit" /\ \E v \in Threads \ {t} : Editing(v)))
    /\ UNCHANGED <<accounts, rank, role, channel, cur, selected>>

\* 'create': whether the form says administrator is not kept, whether it says super
\* administrator is; the INSERT fails for a user who has an account.
CreateUser(t, e) ==
    /\ e.action = "create"
    /\ End(t, "users")
    /\ accounts' = accounts \cup {e.user}
    /\ rank' = IF e.user \notin accounts /\ e.level = SuperAdministrator
               THEN [rank EXCEPT ![e.user] = SuperAdministrator] ELSE rank
    /\ UNCHANGED <<role, overlapped>>

\* Mutant of EditUser: super administrators may edit themselves.
EditUserOrSelf(t, e) ==
    /\ e.action = "edit"
    /\ End(t, "users")
    /\ rank' = IF seen[t] = SuperAdministrator
               THEN [rank EXCEPT ![e.user] = e.level] ELSE rank
    /\ UNCHANGED <<accounts, role, overlapped>>

\* 'edit': only super administrators change the rank of users, and not their own.
EditUser(t, e) ==
    /\ e.action = "edit"
    /\ End(t, "users")
    /\ rank' = IF seen[t] = SuperAdministrator /\ e.user # actor[t]
               THEN [rank EXCEPT ![e.user] = e.level] ELSE rank
    /\ UNCHANGED <<accounts, role, overlapped>>

-----------------------------------------------------------------------------
(* The users of a channel. *)

OpenChannel(t, u, c, d) ==
    /\ At(t, "idle", "channel")
    /\ Gate(t, u, ChannelAdministrator)
    /\ HasAdmin(c, u) \/ Administrator \subseteq HighestPermissionLevel(u, rank[u])
    /\ \A e \in d : e.user \in accounts
    /\ channel' = [channel EXCEPT ![t] = c]
    /\ todo' = [todo EXCEPT ![t] = d]
    /\ UNCHANGED <<accounts, rank, role, cur, selected, overlapped>>

Take(t, e) == e \in todo[t] /\ todo' = [todo EXCEPT ![t] = @ \ {e}]

OldLevel(t, e) == role[channel[t]][e.user]

\* Mutant of Removes: any role on the channel can be removed.
RemovesAny(t, e) == e.level = NoPermission

\* What the form may remove: administrators any role, the others a contributor.
Removes(t, e) ==
    /\ e.level = NoPermission
    /\ IsAdministrator(t) \/ OldLevel(t, e) = ChannelContributor

\* What it may give: administrators a role of a channel, in place of the old one if there
\* is one; the administrators of the channel that of a contributor, to who has none.
Gives(t, e) ==
    /\ ~Removes(t, e)
    /\ \/ /\ e.level = ChannelContributor /\ HasAdmin(channel[t], actor[t])
          /\ OldLevel(t, e) = NoPermission
       \/ e.level \subseteq ChannelAdministrator /\ IsAdministrator(t)

Changing(v, c, u) == pc[v] \in {"remove", "give"} /\ channel[v] = c /\ cur[v].user = u

Decide(t, e, what) ==
    /\ At(t, "channel", what)
    /\ Take(t, e)
    /\ cur' = [cur EXCEPT ![t] = e]
    /\ overlapped' = (overlapped \/ \E v \in Threads \ {t} : Changing(v, channel[t], e.user))
    /\ UNCHANGED <<accounts, rank, role, requestVars, selected>>

DecideRemove(t, e) ==
    pc[t] = "channel" /\ Removes(t, e) /\ Decide(t, e, "remove")
DecideGive(t, e) ==
    pc[t] = "channel" /\ Gives(t, e) /\ Decide(t, e, "give")

Ignore(t, e) ==
    /\ pc[t] = "channel"
    /\ ~Removes(t, e) /\ ~Gives(t, e)
    /\ Take(t, e)
    /\ UNCHANGED <<accounts, rank, role, pc, requestVars, cur, selected, overlapped>>

\* give_permission_to_user and remove_permission_to_user look for the row ...
SelectRole(t) ==
    /\ pc[t] \in {"remove", "give"} /\ selected[t] = "unread"
    /\ selected' = [selected EXCEPT ![t] =
                        IF OldLevel(t, cur[t]) = NoPermission THEN "none" ELSE "row"]
    /\ UNCHANGED <<accounts, rank, role, pc, requestVars, todo, cur, overlapped>>

SetRole(t, level) == role' = [role EXCEPT ![channel[t]][cur[t].user] = level]

\* The thread goes on with the next entry.
Done(t) ==
    /\ pc' = [pc EXCEPT ![t] = "channel"]
    /\ cur' = [cur EXCEPT ![t] = None]

\* ... and delete it, if there is one,
RemoveRole(t) ==
    /\ pc[t] = "remove" /\ selected[t] # "unread"
    /\ Done(t)
    /\ IF selected[t] = "row" THEN SetRole(t, NoPermission) ELSE UNCHANGED role
    /\ selected' = [v \in Threads |->
            CASE v = t -> "unread"
              [] v # t /\ selected[t] = "row" /\ selected[v] = "row"
                       /\ Changing(v, channel[t], cur[t].user) -> "gone"
              [] OTHER -> selected[v]]
    /\ UNCHANGED <<accounts, rank, requestVars, todo, overlapped>>

\* update it, which does nothing if it has been deleted since,
UpdateRole(t) ==
    /\ pc[t] = "give" /\ selected[t] \in {"row", "gone"}
    /\ Done(t)
    /\ IF selected[t] = "row" THEN SetRole(t, cur[t].level) ELSE UNCHANGED role
    /\ selected' = [selected EXCEPT ![t] = "unread"]
    /\ UNCHANGED <<accounts, rank, requestVars, todo, overlapped>>

\* or insert it;
InsertRole(t) ==
    /\ pc[t] = "give" /\ selected[t] = "none"
    /\ OldLevel(t, cur[t]) = NoPermission
    /\ Done(t)
    /\ SetRole(t, cur[t].level)
    /\ selected' = [selected EXCEPT ![t] = "unread"]
    /\ UNCHANGED <<accounts, rank, requestVars, todo, overlapped>>

\* the index on the pair refuses a second row, and the exception ends the request with
\* the rest of its form.
InsertFails(t) ==
    /\ pc[t] = "give" /\ selected[t] = "none"
    /\ OldLevel(t, cur[t]) # NoPermission
    /\ End(t, "give")
    /\ UNCHANGED <<accounts, rank, role, overlapped>>

Answer(t) ==
    /\ todo[t] = {}
    /\ End(t, "channel")
    /\ UNCHANGED <<accounts, rank, role, overlapped>>

-----------------------------------------------------------------------------

\* The forms of a channel: an entry for each user.
Diffs ==
    {d \in SUBSET {e \in Entry : e.action = "permission"} :
        /\ Cardinality(d) \in 1..MaxDiff
        /\ \A e, f \in d : e.user = f.user => e = f}

Next ==
    \E t \in Threads :
        \/ \E u \in Users, e \in Entry : OpenUsers(t, u, e)
        \/ \E e \in todo[t] : CreateUser(t, e) \/ EditUser(t, e)
        \/ \E u \in Users, c \in Channels, d \in Diffs : OpenChannel(t, u, c, d)
        \/ \E e \in todo[t] :
              DecideRemove(t, e) \/ DecideGive(t, e) \/ Ignore(t, e)
        \/ SelectRole(t) \/ RemoveRole(t) \/ UpdateRole(t) \/ InsertRole(t) \/ InsertFails(t)
        \/ Answer(t)

Spec == Init /\ [][Next]_vars

-----------------------------------------------------------------------------
(* Properties. *)

TypeOK ==
    /\ accounts \subseteq Users
    /\ rank \in [Users -> Ranks]
    /\ role \in [Channels -> [Users -> Levels]]
    /\ pc \in [Threads -> {"idle", "users", "channel", "remove", "give"}]
    /\ actor \in [Threads -> Users \cup {None}]
    /\ seen \in [Threads -> Ranks]
    /\ channel \in [Threads -> Channels \cup {None}]
    /\ todo \in [Threads -> SUBSET Entry]
    /\ cur \in [Threads -> Entry \cup {None}]
    /\ selected \in [Threads -> {"unread", "none", "row", "gone"}]
    /\ overlapped \in BOOLEAN

\* There is always a super administrator left to give rights to others, although nothing
\* counts them: nobody edits himself.  Two who edit each other at once can leave none.
SuperAdministratorRemains ==
    ~overlapped => \E u \in accounts : rank[u] = SuperAdministrator

\* The channel administrators of a channel are made and unmade by administrators only;
\* the others change nothing but contributors.  The level that the form looks at and the
\* row that it writes are read apart, so that it takes two forms for the same user to
\* break this.
AdministratorsAreKept ==
    [][\A c \in Channels, u \in Users :
            role'[c][u] # role[c][u] =>
                \/ overlapped
                \/ {role[c][u], role'[c][u]} = {NoPermission, ChannelContributor}
                \/ \E t \in Threads :
                       /\ seen[t] # NoPermission
                       /\ channel[t] = c /\ cur[t] # None /\ cur'[t] = None
                       /\ cur[t].user = u]_vars
=============================================================================

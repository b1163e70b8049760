--------------------------- MODULE MCSubscriptions ---------------------------
(***************************************************************************)
(* Small instances of Subscriptions and ChannelConfig for TLC: who may     *)
(* subscribe a screen to a channel, and who may change its parameters.     *)
(* They share no state: each is explored from the initial state of the     *)
(* other, which stays there.                                               *)
(***************************************************************************)
EXTENDS Subscriptions, ChannelConfig, TLC

CONSTANTS root, u1, s1, c1, b1, size, title, short, long

MCHasAdmin == {<<u1, c1>>}

Add(k) == [key |-> k, add |-> TRUE]
Remove(k) == [key |-> k, add |-> FALSE]
On(user, p, target, diffs) == [user : {user}, page : {p}, target : {target}, diff : diffs]

\* Every page, about one screen and one channel that are also deleted, and a bundle.
MCForms ==
    UNION {On(u1, "screen", s1, {{Add(c1)}, {Add(c1), Add(b1)}}),
           On(u1, "screens", s1, {{Remove(c1)}, {Add(c1), Add(b1)}}),
           On(u1, "chown", s1, {{Remove(u1)}}),
           On(root, "screen", s1, {{Add(c1), Add(b1)}}),
           On(root, "channel", c1, {{Add(s1)}, {Remove(s1)}}),
           On(root, "chown", s1, {{Add(u1)}}),
           On(root, "authorize", c1, {{Add(u1)}, {Remove(u1)}}),
           On(root, "delete_screen", s1, {{}}), On(root, "delete_channel", c1, {{}})}

-----------------------------------------------------------------------------

MCOrder == <<size, title>>
MCDefault == size :> short @@ title :> Unset
MCConfigForms == {size :> long @@ title :> Ignored, size :> short @@ title :> Unparsable}

Opened == [DefaultRights EXCEPT ![size]["channel_administrator"].write = TRUE]
MCRightsForms == {DefaultRights, Opened}

-----------------------------------------------------------------------------

MCInit == Init /\ ConfigInit

MCNext ==
    \/ ConfigInit /\ Next /\ UNCHANGED configVars
    \/ Init /\ ConfigNext /\ UNCHANGED vars

MCSpec == MCInit /\ [][MCNext]_<<vars, configVars>>

\* The configuration gives editors the names of threads.
Symmetry == Permutations(Threads)
=============================================================================

----------------------------- MODULE BundleStore -----------------------------
(***************************************************************************)
(* What the tables of bundles promise (ictv/models/channel.py): the check  *)
(* and the insertion of add_channel are one step, which sees the content   *)
(* that it changes, until two requests race.  ChannelBundle implements it. *)
(***************************************************************************)
EXTENDS BundleGraph, Naturals

VARIABLES
    contents,   \* contents[b][c]: how many times channel c is in bundle b
    raced       \* two requests were once inside add_channel at the same time

StoreInit ==
    /\ contents = [b \in Bundles |-> [c \in Channels |-> 0]]
    /\ raced = FALSE

Pairs == {e \in Bundles \X Channels : contents[e[1]][e[2]] > 0}

\* A channel that is not in the bundle is, once, when flatten still ends from the bundle.
Add(b, c) ==
    /\ ~raced
    /\ contents[b][c] = 0
    /\ contents' = [contents EXCEPT ![b][c] = 1]
    /\ EndsFrom(Pairs', b)
    /\ UNCHANGED raced

Remove(b, c) ==
    /\ contents' = [contents EXCEPT ![b][c] = 0]
    /\ UNCHANGED raced

Race == raced' = TRUE /\ UNCHANGED contents

\* Nothing is promised then.
Broken ==
    /\ raced
    /\ UNCHANGED raced
    /\ contents' \in [Bundles -> [Channels -> Nat]]

StoreNext ==
    \/ Race \/ Broken
    \/ \E b \in Bundles, c \in Channels : Add(b, c) \/ Remove(b, c)

StoreSpec == StoreInit /\ [][StoreNext]_<<contents, raced>>
=============================================================================

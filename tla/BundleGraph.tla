---------------------------- MODULE BundleGraph ----------------------------
(***************************************************************************)
(* Bundles contain channels, and a bundle is itself a channel              *)
(* (ictv/models/channel.py).  This module has the operators on the graph   *)
(* "bundle contains channel", given as a set of pairs.                     *)
(***************************************************************************)
EXTENDS FiniteSets

CONSTANTS
    Bundles,            \* ids of the ChannelBundle rows
    PluginChannels      \* ids of the PluginChannel rows

\* They are rows of a table.
ASSUME BundlesAreFinite == IsFiniteSet(Bundles)

Channels == Bundles \cup PluginChannels

\* A set of bundles that holds the sub-bundles of each of its members.
Closed(E, S) == \A x \in S, y \in Bundles : <<x, y>> \in E => y \in S

\* The bundles a walk from b down the graph may visit, b included.
Reach(E, b) ==
    {x \in Bundles : \A S \in SUBSET Bundles : b \in S /\ Closed(E, S) => x \in S}

\* Every non-empty part of S has a member with no sub-bundle in that part: no
\* walk inside S is endless.
NoEndlessWalk(E, S) ==
    \A R \in SUBSET S : R # {} => \E x \in R : \A y \in R : <<x, y>> \notin E

\* No bundle contains itself, directly or through others: flatten terminates
\* from every bundle.
Acyclic(E) == NoEndlessWalk(E, Bundles)

\* flatten terminates from b.
EndsFrom(E, b) == NoEndlessWalk(E, Reach(E, b))

\* Mutant of Walk: only the sub-bundles are looked at, not theirs.
DirectWalk(E) ==
    [marked \in SUBSET Bundles |->
        {b \in Bundles \ marked : \A c \in Bundles : <<b, c>> \in E => c \notin marked \cup {b}}]

\* The calls of has_no_cycles on the content of a bundle, for each set of marked ids: the
\* bundles where none raises ValueError.
Walk(E) ==
    LET walk[marked \in SUBSET Bundles] ==
            {b \in Bundles \ marked :
                \A c \in Bundles : <<b, c>> \in E => c \in walk[marked \cup {b}]}
    IN  walk

\* Mutant of HasNoCycles: b itself is not marked.
HasNoCyclesBelow(E, b, c) ==
    \A d \in Bundles : <<b, d>> \in E \/ d = c => d \in Walk(E)[{}]

\* has_no_cycles, called on b with its content and the channel c to add to it.
HasNoCycles(E, b, c) ==
    \A d \in Bundles : <<b, d>> \in E \/ d = c => d \in Walk(E)[{b}]
=============================================================================

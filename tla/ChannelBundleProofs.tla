------------------------ MODULE ChannelBundleProofs ------------------------
(***************************************************************************)
(* Proofs about channels: ChannelBundle, for every set of bundles and of   *)
(* channels; Plugins, for the routes to the plugins of channels;           *)
(* Processors, for what runs around the requests for their web             *)
(* applications; ScreenContent, for which channels a screen shows; and     *)
(* SlideFilter, for which of their slides.  They share no state.           *)
(*                                                                         *)
(* The recursive methods and the loops are recursive functions here.  What *)
(* they compute is proved by a least counterexample: over the bundles of   *)
(* an acyclic graph, the turns of a loop (UpTo) or the sequences that      *)
(* appending builds (ByAppending).                                         *)
(***************************************************************************)
EXTENDS ChannelBundle, ScreenContent, Plugins, Processors, SlideFilter,
        FiniteSetTheorems, SequenceTheorems, WellFoundedInduction, TLAPS

\* The bundles reached from b include b and the sub-bundles of each of them.
LEMMA ReachClosed ==
    ASSUME NEW E, NEW b \in Bundles
    PROVE  /\ b \in Reach(E, b)
           /\ Reach(E, b) \subseteq Bundles
           /\ Closed(E, Reach(E, b))
BY DEF Reach, Closed

\* Removing pairs from an acyclic graph keeps it acyclic.
LEMMA FewerEdges ==
    ASSUME NEW E, NEW F, F \cap (Bundles \X Bundles) \subseteq E, Acyclic(E)
    PROVE  Acyclic(F)
BY DEF Acyclic, NoEndlessWalk

\* A check that passes would pass in a graph with fewer pairs.
LEMMA FewerChecked ==
    ASSUME NEW E, NEW F, F \subseteq E, NEW b \in Bundles, EndsFrom(E, b)
    PROVE  EndsFrom(F, b)
<1>1. Reach(F, b) \subseteq Reach(E, b)
    BY DEF Reach, Closed
<1>2. QED
    BY <1>1 DEF EndsFrom, NoEndlessWalk

\* A pair can be added when the check made at its first component passes.
LEMMA CheckedEdge ==
    ASSUME NEW E, NEW b \in Bundles, NEW c, Acyclic(E),
           EndsFrom(E \cup {<<b, c>>}, b)
    PROVE  Acyclic(E \cup {<<b, c>>})
<1> DEFINE F == E \cup {<<b, c>>}
<1> SUFFICES ASSUME NEW R \in SUBSET Bundles, R # {},
                    \A x \in R : \E y \in R : <<x, y>> \in F
             PROVE  FALSE
    BY DEF Acyclic, NoEndlessWalk
<1>1. CASE b \notin R
    <2>1. \A x \in R : \E y \in R : <<x, y>> \in E
        BY <1>1
    <2>2. QED
        BY <2>1 DEF Acyclic, NoEndlessWalk
<1>2. CASE b \in R
    <2> DEFINE Q == R \cap Reach(F, b)
    <2>1. b \in Q /\ Q \in SUBSET Reach(F, b)
        BY <1>2, ReachClosed
    <2>2. ASSUME NEW x \in Q PROVE \E y \in Q : <<x, y>> \in F
        <3>1. PICK y \in R : <<x, y>> \in F
            OBVIOUS
        <3>2. y \in Reach(F, b)
            BY <3>1, ReachClosed DEF Closed
        <3>3. QED
            BY <3>1, <3>2
    <2>3. QED
        BY <2>1, <2>2 DEF EndsFrom, NoEndlessWalk
<1>3. QED
    BY <1>1, <1>2

-----------------------------------------------------------------------------
(* The walk of has_no_cycles down a graph of bundles. *)

\* A set of naturals has a least element: < is well founded on them.
LEMMA LeastNat ==
    ASSUME NEW T \in SUBSET Nat, T # {}
    PROVE  \E x \in T : \A y \in T : x <= y
<1> DEFINE R == {p \in Nat \X Nat : p[1] < p[2]}
<1>1. IsWellFoundedOn(R, Nat)
    BY NatLessThanWellFounded DEF OpToRel
<1>2. \A x, y \in Nat : <<x, y>> \in R <=> x < y
    OBVIOUS
<1> HIDE DEF R
<1>3. PICK x \in T : \A y \in T : ~ (<<y, x>> \in R)
    BY WFMin, <1>1
<1>4. ASSUME NEW y \in T PROVE x <= y
    <2>1. x \in Nat /\ y \in Nat
        OBVIOUS
    <2>2. ~ (y < x)
        BY <1>2, <1>3, <2>1
    <2>3. QED
        BY <2>1, <2>2
<1>5. QED
    BY <1>4

\* Among sets of bundles, one is of greatest size; the others that hold it are itself.
LEMMA LargestSet ==
    ASSUME NEW T \in SUBSET SUBSET Bundles, T # {}
    PROVE  \E m \in T : \A n \in T : m \subseteq n => n = m
<1> DEFINE Left == {Cardinality(Bundles \ m) : m \in T}
<1>1. ASSUME NEW m \in SUBSET Bundles
      PROVE  IsFiniteSet(Bundles \ m) /\ Cardinality(Bundles \ m) \in Nat
    BY BundlesAreFinite, FS_Subset, FS_CardinalityType
<1>2. Left \in SUBSET Nat /\ Left # {}
    BY <1>1
<1>3. PICK k \in Left : \A y \in Left : k <= y
    BY <1>2, LeastNat
<1>4. PICK m \in T : k = Cardinality(Bundles \ m)
    BY <1>3
<1>5. ASSUME NEW n \in T, m \subseteq n PROVE n = m
    <2>1. (Bundles \ n) \in SUBSET (Bundles \ m)
        BY <1>5
    <2>2. Cardinality(Bundles \ m) <= Cardinality(Bundles \ n)
        BY <1>3, <1>4
    <2>3. Cardinality(Bundles \ n) <= Cardinality(Bundles \ m)
        BY <1>1, <2>1, FS_Subset
    <2>4. Cardinality(Bundles \ n) = Cardinality(Bundles \ m)
        <3>1. m \in SUBSET Bundles /\ n \in SUBSET Bundles
            OBVIOUS
        <3>2. Cardinality(Bundles \ n) \in Nat /\ Cardinality(Bundles \ m) \in Nat
            BY <1>1, <3>1
        <3>3. QED
            BY <2>2, <2>3, <3>2
    <2>5. Bundles \ m = Bundles \ n
        BY <1>1, <2>1, <2>4, FS_Subset
    <2>6. QED
        BY <1>5, <2>5
<1>6. QED
    BY <1>5

\* The equation of Walk.
IsWalk(E, w) ==
    w = [marked \in SUBSET Bundles |->
            {b \in Bundles \ marked :
                \A c \in Bundles : <<b, c>> \in E => c \in w[marked \cup {b}]}]

\* The bundles from which the walk meets no marked one and ends.
Ends(E) ==
    [marked \in SUBSET Bundles |->
        {b \in Bundles : Reach(E, b) \cap marked = {} /\ EndsFrom(E, b)}]

\* What is reached from b is b and what is reached from its sub-bundles.
LEMMA ReachStep ==
    ASSUME NEW E, NEW b \in Bundles
    PROVE  /\ \A c \in Bundles : <<b, c>> \in E => Reach(E, c) \subseteq Reach(E, b)
           /\ \A x \in Reach(E, b) : x = b \/ \E c \in Bundles : <<b, c>> \in E /\ x \in Reach(E, c)
<1>1. ASSUME NEW c \in Bundles, <<b, c>> \in E PROVE Reach(E, c) \subseteq Reach(E, b)
    <2>1. c \in Reach(E, b) /\ Closed(E, Reach(E, b)) /\ Reach(E, b) \in SUBSET Bundles
        BY <1>1, ReachClosed DEF Closed
    <2>2. QED
        BY <2>1 DEF Reach
<1>2. ASSUME NEW x \in Reach(E, b), x # b
      PROVE  \E c \in Bundles : <<b, c>> \in E /\ x \in Reach(E, c)
    <2> DEFINE S == {b} \cup UNION {Reach(E, c) : c \in {d \in Bundles : <<b, d>> \in E}}
    <2>1. S \in SUBSET Bundles
        BY ReachClosed
    <2>2. Closed(E, S)
        BY ReachClosed DEF Closed
    <2>3. x \in S
        BY <2>1, <2>2 DEF Reach
    <2>4. QED
        BY <1>2, <2>3
<1>3. QED
    BY <1>1, <1>2

\* The walk from a bundle ends exactly when it is not in a cycle and those from its sub-bundles end.
LEMMA EndsStep ==
    ASSUME NEW E, NEW b \in Bundles
    PROVE  EndsFrom(E, b) <=>
                \A c \in Bundles : <<b, c>> \in E => b \notin Reach(E, c) /\ EndsFrom(E, c)
<1>1. ASSUME EndsFrom(E, b), NEW c \in Bundles, <<b, c>> \in E
      PROVE  b \notin Reach(E, c) /\ EndsFrom(E, c)
    <2>1. Reach(E, c) \subseteq Reach(E, b)
        BY <1>1, ReachStep
    <2>2. EndsFrom(E, c)
        BY <1>1, <2>1 DEF EndsFrom, NoEndlessWalk
    <2>3. ASSUME b \in Reach(E, c) PROVE FALSE
        <3> DEFINE R == {x \in Reach(E, b) : b \in Reach(E, x)}
        <3>1. b \in R /\ c \in R
            BY <2>1, <2>3, ReachClosed
        <3>2. ASSUME NEW x \in R PROVE \E y \in R : <<x, y>> \in E
            <4>1. CASE x = b
                BY <1>1, <3>1, <4>1
            <4>2. CASE x # b
                <5>1. x \in Bundles
                    BY ReachClosed
                <5>2. PICK y \in Bundles : <<x, y>> \in E /\ b \in Reach(E, y)
                    BY <4>2, <5>1, ReachStep
                <5>3. y \in Reach(E, b)
                    BY <5>1, <5>2, ReachClosed DEF Closed
                <5>4. QED
                    BY <5>2, <5>3
            <4>3. QED
                BY <4>1, <4>2
        <3>3. QED
            BY <1>1, <3>1, <3>2 DEF EndsFrom, NoEndlessWalk
    <2>4. QED
        BY <2>2, <2>3
<1>2. ASSUME \A c \in Bundles : <<b, c>> \in E => b \notin Reach(E, c) /\ EndsFrom(E, c),
             ~EndsFrom(E, b)
      PROVE  FALSE
    <2>1. PICK R \in SUBSET Reach(E, b) : R # {} /\ \A x \in R : \E y \in R : <<x, y>> \in E
        BY <1>2 DEF EndsFrom, NoEndlessWalk
    <2>2. ASSUME NEW c \in Bundles, <<b, c>> \in E, NEW x \in R, x \in Reach(E, c) PROVE FALSE
        <3> DEFINE Q == R \cap Reach(E, c)
        <3>1. x \in Q /\ Q \in SUBSET Reach(E, c)
            BY <2>2
        <3>2. ASSUME NEW z \in Q PROVE \E y \in Q : <<z, y>> \in E
            BY <2>1, ReachClosed DEF Closed
        <3>3. QED
            BY <1>2, <2>2, <3>1, <3>2 DEF EndsFrom, NoEndlessWalk
    <2>3. ASSUME NEW x \in R PROVE x = b
        <3>1. x = b \/ \E c \in Bundles : <<b, c>> \in E /\ x \in Reach(E, c)
            BY <2>1, ReachStep
        <3>2. QED
            BY <2>2, <3>1
    <2>4. QED
        BY <1>2, <2>1, <2>3, ReachClosed
<1>3. QED
    BY <1>1, <1>2

LEMMA EndsIsWalk ==
    ASSUME NEW E
    PROVE  IsWalk(E, Ends(E))
<1>1. ASSUME NEW m \in SUBSET Bundles, NEW b \in Bundles
      PROVE  b \in Ends(E)[m] <=>
                b \notin m /\ \A c \in Bundles : <<b, c>> \in E => c \in Ends(E)[m \cup {b}]
    <2>1. m \cup {b} \in SUBSET Bundles
        OBVIOUS
    <2>2. b \in Reach(E, b)
        BY ReachClosed
    <2>3. (Reach(E, b) \cap m = {}) <=>
                b \notin m /\ \A c \in Bundles : <<b, c>> \in E => Reach(E, c) \cap m = {}
        <3>1. /\ \A c \in Bundles : <<b, c>> \in E => Reach(E, c) \subseteq Reach(E, b)
              /\ \A x \in Reach(E, b) :
                    x = b \/ \E c \in Bundles : <<b, c>> \in E /\ x \in Reach(E, c)
            BY ReachStep
        <3>2. QED
            BY <2>2, <3>1
    <2>4. \A c \in Bundles : c \in Ends(E)[m \cup {b}] <=>
                Reach(E, c) \cap m = {} /\ b \notin Reach(E, c) /\ EndsFrom(E, c)
        BY <2>1 DEF Ends
    <2>5. QED
        BY <2>3, <2>4, EndsStep DEF Ends
<1>2. ASSUME NEW m \in SUBSET Bundles
      PROVE  Ends(E)[m] = {b \in Bundles \ m :
                \A c \in Bundles : <<b, c>> \in E => c \in Ends(E)[m \cup {b}]}
    <2>1. Ends(E)[m] \subseteq Bundles
        BY DEF Ends
    <2>2. QED
        BY <1>1, <2>1
<1>3. Ends(E) = [m \in SUBSET Bundles |-> Ends(E)[m]]
    BY DEF Ends
<1>4. QED
    BY <1>2, <1>3 DEF IsWalk

LEMMA WalkAt ==
    ASSUME NEW E, NEW w, IsWalk(E, w), NEW m \in SUBSET Bundles
    PROVE  w[m] = {b \in Bundles \ m :
                        \A c \in Bundles : <<b, c>> \in E => c \in w[m \cup {b}]}
<1> DEFINE v == w
<1>1. w = [marked \in SUBSET Bundles |->
            {b \in Bundles \ marked :
                \A c \in Bundles : <<b, c>> \in E => c \in v[marked \cup {b}]}]
    BY DEF IsWalk
<1> HIDE DEF v
<1>2. w[m] = {b \in Bundles \ m : \A c \in Bundles : <<b, c>> \in E => c \in v[m \cup {b}]}
    BY <1>1
<1>3. QED
    BY <1>2 DEF v

\* The equation has one solution: a set of marked bundles where two differ, none of the
\* larger ones being such, cannot be.
LEMMA OneWalk ==
    ASSUME NEW E, NEW v, NEW w, IsWalk(E, v), IsWalk(E, w)
    PROVE  v = w
<1> DEFINE T == {m \in SUBSET Bundles : v[m] # w[m]}
<1>1. SUFFICES ASSUME T # {} PROVE FALSE
    BY DEF IsWalk
<1> HIDE DEF T
<1>0. T \in SUBSET SUBSET Bundles
    BY DEF T
<1>2. PICK m \in T : \A n \in T : m \subseteq n => n = m
    BY <1>0, <1>1, LargestSet
<1>3. ASSUME NEW b \in Bundles \ m PROVE v[m \cup {b}] = w[m \cup {b}]
    <2>1. m \cup {b} \in SUBSET Bundles /\ m \cup {b} # m
        BY <1>0
    <2>2. QED
        BY <1>2, <2>1 DEF T
<1>4. /\ v[m] = {b \in Bundles \ m : \A c \in Bundles : <<b, c>> \in E => c \in v[m \cup {b}]}
      /\ w[m] = {b \in Bundles \ m : \A c \in Bundles : <<b, c>> \in E => c \in w[m \cup {b}]}
    <2>1. m \in SUBSET Bundles
        BY <1>0
    <2>2. v[m] = {b \in Bundles \ m : \A c \in Bundles : <<b, c>> \in E => c \in v[m \cup {b}]}
        BY <2>1, WalkAt
    <2>3. w[m] = {b \in Bundles \ m : \A c \in Bundles : <<b, c>> \in E => c \in w[m \cup {b}]}
        BY <2>1, WalkAt
    <2>4. QED
        BY <2>2, <2>3
<1>5. v[m] = w[m]
    BY <1>3, <1>4
<1>6. QED
    BY <1>2, <1>5 DEF T

\* What has_no_cycles computes by recursion, for every graph.
LEMMA WalkEnds ==
    ASSUME NEW E
    PROVE  Walk(E) = Ends(E)
<1>1. Walk(E) = CHOOSE w : IsWalk(E, w)
    BY DEF Walk, IsWalk
<1>2. IsWalk(E, Walk(E))
    BY <1>1, EndsIsWalk
<1>3. QED
    BY <1>2, EndsIsWalk, OneWalk

LEMMA WalkIsExact ==
    ASSUME NEW E, NEW b \in Bundles, NEW c
    PROVE  HasNoCycles(E, b, c) <=> EndsFrom(E \cup {<<b, c>>}, b)
<1> DEFINE F == E \cup {<<b, c>>}
<1>1. HasNoCycles(E, b, c) <=>
        \A d \in Bundles : <<b, d>> \in F => b \notin Reach(E, d) /\ EndsFrom(E, d)
    <2>1. {b} \in SUBSET Bundles
        OBVIOUS
    <2>2. \A d \in Bundles : d \in Walk(E)[{b}] <=> b \notin Reach(E, d) /\ EndsFrom(E, d)
        BY <2>1, WalkEnds DEF Ends
    <2>3. \A d \in Bundles : <<b, d>> \in F <=> <<b, d>> \in E \/ d = c
        OBVIOUS
    <2>4. QED
        BY <2>2, <2>3 DEF HasNoCycles
<1> HIDE DEF F
<1>2. EndsFrom(F, b) <=>
        \A d \in Bundles : <<b, d>> \in F => b \notin Reach(F, d) /\ EndsFrom(F, d)
    BY EndsStep
<1>3. ASSUME NEW d \in Bundles
      PROVE  (b \notin Reach(E, d) /\ EndsFrom(E, d)) <=> (b \notin Reach(F, d) /\ EndsFrom(F, d))
    <2>1. Reach(E, d) \subseteq Reach(F, d)
        BY DEF Reach, Closed, F
    <2>2. ASSUME b \notin Reach(E, d) PROVE Reach(F, d) = Reach(E, d)
        <3>1. /\ d \in Reach(E, d) /\ Reach(E, d) \in SUBSET Bundles
              /\ Closed(E, Reach(E, d))
            BY ReachClosed
        <3>2. Closed(F, Reach(E, d))
            BY <2>2, <3>1 DEF Closed, F
        <3>3. Reach(F, d) \subseteq Reach(E, d)
            BY <3>1, <3>2 DEF Reach
        <3>4. QED
            BY <2>1, <3>3
    <2>3. ASSUME b \notin Reach(E, d) PROVE EndsFrom(E, d) <=> EndsFrom(F, d)
        <3>1. \A x \in Reach(E, d) : \A y : <<x, y>> \in F <=> <<x, y>> \in E
            BY <2>3 DEF F
        <3>2. NoEndlessWalk(F, Reach(E, d)) <=> NoEndlessWalk(E, Reach(E, d))
            BY <3>1 DEF NoEndlessWalk
        <3>3. QED
            BY <2>2, <2>3, <3>2 DEF EndsFrom
    <2>4. QED
        BY <2>1, <2>2, <2>3
<1>4. QED
    BY <1>1, <1>2, <1>3 DEF F
-----------------------------------------------------------------------------
(* Changes of bundles. *)

LEMMA InitEstablishes == Init => IInv
<1> SUFFICES ASSUME Init PROVE IInv
    OBVIOUS
<1> USE BundleAssumption DEF Init
<1>1. TypeOK
    BY DEF TypeOK
<1>2. Edges = {}
    BY DEF Edges
<1>3. NoCycle
    BY <1>2 DEF NoCycle, Acyclic, NoEndlessWalk
<1>4. NoDuplicates /\ OneIsChecked /\ CheckStillHolds
    BY DEF NoDuplicates, OneIsChecked, CheckStillHolds
<1>5. QED
    BY <1>1, <1>3, <1>4 DEF IInv

\* The rows after the INSERT of an addition.
LEMMA InsertEdges ==
    ASSUME TypeOK, NEW t \in Threads, Insert(t)
    PROVE  /\ cur[t] \in Change
           /\ Edges' = WithEdge(cur[t])
           /\ \A b \in Bundles, c \in Channels :
                bundled'[b][c] = IF b = cur[t].bundle /\ c = cur[t].channel
                                 THEN bundled[b][c] + 1 ELSE bundled[b][c]
           /\ bundled' \in [Bundles -> [Channels -> Nat]]
<1>1. cur[t] \in Change
    BY DEF Insert, TypeOK
<1>2. cur[t].bundle \in Bundles /\ cur[t].channel \in Channels
    BY <1>1 DEF Change
<1>3. \A b \in Bundles, c \in Channels :
        bundled'[b][c] = IF b = cur[t].bundle /\ c = cur[t].channel
                         THEN bundled[b][c] + 1 ELSE bundled[b][c]
    BY <1>2 DEF Insert, TypeOK
<1>4. bundled' \in [Bundles -> [Channels -> Nat]]
    BY <1>2 DEF Insert, TypeOK
<1>5. Edges' = WithEdge(cur[t])
    <2>1. \A b \in Bundles, c \in Channels :
            bundled'[b][c] > 0 <=> bundled[b][c] > 0 \/ (b = cur[t].bundle /\ c = cur[t].channel)
        BY <1>2, <1>3 DEF TypeOK
    <2>2. \A e \in Bundles \X Channels :
            e \in Edges' <=> e \in Edges \/ e = <<cur[t].bundle, cur[t].channel>>
        BY <2>1 DEF Edges
    <2>3. QED
        BY <1>2, <2>2 DEF WithEdge, Edges
<1>6. QED
    BY <1>1, <1>3, <1>4, <1>5

\* The rows after the DELETE of a removal.
LEMMA RemoveEdges ==
    ASSUME TypeOK, NEW t \in Threads, NEW ch \in Change, Delete(t, ch)
    PROVE  /\ Edges' \subseteq Edges
           /\ \A b \in Bundles, c \in Channels :
                bundled'[b][c] = IF b = ch.bundle /\ c = ch.channel
                                 THEN 0 ELSE bundled[b][c]
           /\ bundled' \in [Bundles -> [Channels -> Nat]]
<1>1. ch.bundle \in Bundles /\ ch.channel \in Channels
    BY DEF Change
<1>2. \A b \in Bundles, c \in Channels :
        bundled'[b][c] = IF b = ch.bundle /\ c = ch.channel THEN 0 ELSE bundled[b][c]
    BY <1>1 DEF Delete, TypeOK
<1>3. bundled' \in [Bundles -> [Channels -> Nat]]
    BY <1>1 DEF Delete, TypeOK
<1>4. Edges' \subseteq Edges
    BY <1>2 DEF Edges
<1>5. QED
    BY <1>2, <1>3, <1>4

\* Whatever the threads do, every step keeps the variables in their types.
LEMMA TypeStep == TypeOK /\ [Next]_vars => TypeOK'
<1> SUFFICES ASSUME TypeOK, [Next]_vars PROVE TypeOK'
    OBVIOUS
<1> USE BundleAssumption
<1>1. ASSUME NEW t \in Threads, NEW d \in Diffs, Receive(t, d) PROVE TypeOK'
    BY <1>1 DEF Receive, Diffs, TypeOK
<1>2. ASSUME NEW t \in Threads, NEW ch \in todo[t],
             AlreadyThere(t, ch) \/ CycleFound(t, ch) \/ CheckPasses(t, ch)
      PROVE  TypeOK'
    <2>1. ch \in Change
        BY DEF TypeOK
    <2>2. CASE AlreadyThere(t, ch) \/ CycleFound(t, ch)
        BY <2>1, <2>2 DEF AlreadyThere, CycleFound, Take, TypeOK
    <2>3. CASE CheckPasses(t, ch)
        <3>1. overlapped' \in BOOLEAN
            BY <2>3 DEF CheckPasses, TypeOK
        <3>2. cur' \in [Threads -> Change \cup {NoChange}]
            BY <2>1, <2>3 DEF CheckPasses, TypeOK
        <3>3. todo' \in [Threads -> SUBSET Change]
            BY <2>3 DEF CheckPasses, Take, TypeOK
        <3>4. QED
            BY <2>3, <3>1, <3>2, <3>3 DEF CheckPasses, TypeOK
    <2>4. QED
        BY <1>2, <2>2, <2>3
<1>3. ASSUME NEW t \in Threads, NEW ch \in todo[t], Delete(t, ch) PROVE TypeOK'
    <2>1. ch \in Change
        BY DEF TypeOK
    <2>2. QED
        BY <1>3, <2>1, RemoveEdges DEF TypeOK, Delete, Take, Changes
<1>4. ASSUME NEW t \in Threads, Insert(t) PROVE TypeOK'
    BY <1>4, InsertEdges DEF TypeOK, Insert, Changes
<1>5. ASSUME NEW t \in Threads, Finish(t) PROVE TypeOK'
    BY <1>5 DEF Finish, TypeOK
<1>6. CASE (\E c \in PluginChannels : TogglePlugin(c)) \/ UNCHANGED vars
    BY <1>6 DEF TogglePlugin, vars, TypeOK
<1>7. QED
    BY <1>1, <1>2, <1>3, <1>4, <1>5, <1>6 DEF Next

\* Whatever the threads do, the rows and the requests all their shape.
THEOREM TypeCorrect == Spec => []TypeOK
<1>1. Init => TypeOK
    BY InitEstablishes DEF IInv
<1>2. TypeOK /\ [Next]_vars => TypeOK'
    BY TypeStep
<1>3. QED
    BY <1>1, <1>2, PTL DEF Spec

-----------------------------------------------------------------------------
(* Concurrent requests: the direct cycle is excluded all the same. *)

\* The check refuses to add a bundle to itself.
LEMMA SelfRefused ==
    ASSUME NEW E, NEW b \in Bundles
    PROVE  ~HasNoCycles(E, b, b)
<1>1. b \in Reach(E \cup {<<b, b>>}, b)
    BY ReachClosed
<1>2. {b} \in SUBSET Reach(E \cup {<<b, b>>}, b) /\ {b} # {}
    BY <1>1
<1>3. ~EndsFrom(E \cup {<<b, b>>}, b)
    BY <1>2 DEF EndsFrom, NoEndlessWalk
<1>4. QED
    BY <1>3, WalkIsExact

\* No addition of a bundle to itself is ever about to be inserted.
NoSelfInsert == \A t \in Threads : cur[t] # NoChange => cur[t].bundle # cur[t].channel

LEMMA SelfStep == TypeOK /\ NotInItself /\ NoSelfInsert /\ [Next]_vars
                    => NotInItself' /\ NoSelfInsert'
<1> SUFFICES ASSUME TypeOK, NotInItself, NoSelfInsert, [Next]_vars
             PROVE  NotInItself' /\ NoSelfInsert'
    OBVIOUS
<1> USE BundleAssumption DEF Channels
<1>1. ASSUME NEW t \in Threads, NEW ch \in todo[t], CheckPasses(t, ch)
      PROVE  NotInItself' /\ NoSelfInsert'
    <2>1. ch.bundle \in Bundles
        BY DEF TypeOK, Change
    <2>2. ch.bundle # ch.channel
        BY <1>1, <2>1, SelfRefused DEF CheckPasses, WithEdge
    <2>3. QED
        BY <1>1, <2>2 DEF CheckPasses, NotInItself, NoSelfInsert, TypeOK
<1>2. ASSUME NEW t \in Threads, NEW ch \in todo[t], Delete(t, ch)
      PROVE  NotInItself' /\ NoSelfInsert'
    <2>1. ch \in Change
        BY DEF TypeOK
    <2>2. QED
        BY <1>2, <2>1, RemoveEdges DEF Delete, NotInItself, NoSelfInsert
<1>3. ASSUME NEW t \in Threads, Insert(t) PROVE NotInItself' /\ NoSelfInsert'
    <2>1. NotInItself'
        BY <1>3, InsertEdges DEF Insert, NotInItself, NoSelfInsert
    <2>2. NoSelfInsert'
        BY <1>3 DEF Insert, NoSelfInsert, TypeOK
    <2>3. QED
        BY <2>1, <2>2
<1>4. CASE UNCHANGED <<bundled, cur>>
    BY <1>4 DEF NotInItself, NoSelfInsert
<1>5. QED
    BY <1>1, <1>2, <1>3, <1>4 DEF Next, Receive, AlreadyThere, CycleFound, Finish,
        TogglePlugin, vars

\* However many requests run at once, no bundle directly contains itself.
THEOREM NeverInItself == Spec => []NotInItself
<1>1. Init => NotInItself /\ NoSelfInsert
    BY DEF Init, NotInItself, NoSelfInsert, Channels
<1>2. TypeOK /\ NotInItself /\ NoSelfInsert /\ [Next]_vars => NotInItself' /\ NoSelfInsert'
    BY SelfStep
<1>3. QED
    BY <1>1, <1>2, TypeCorrect, PTL DEF Spec

-----------------------------------------------------------------------------
(* Requests whose additions do not overlap. *)

\* Every step preserves the invariant.
LEMMA StepPreserves == IInv /\ [Next]_vars => IInv'
<1> SUFFICES ASSUME IInv, [Next]_vars, ~overlapped'
             PROVE  NoCycle' /\ NoDuplicates' /\ OneIsChecked' /\ CheckStillHolds'
    BY TypeStep DEF IInv
<1> DEFINE Goal == NoCycle' /\ NoDuplicates' /\ OneIsChecked' /\ CheckStillHolds'
<1> USE BundleAssumption
<1>0. TypeOK /\ NoCycle /\ NoDuplicates /\ OneIsChecked /\ CheckStillHolds
    BY DEF IInv, TypeOK, Next, Receive, AlreadyThere, CheckPasses, CycleFound, Insert,
        Delete, Finish, TogglePlugin, vars
<1>1. ASSUME NEW t \in Threads, NEW ch \in todo[t], CheckPasses(t, ch) PROVE Goal
    <2> USE <1>1 DEF CheckPasses, Take
    <2>1. ch \in Change /\ ch # NoChange
        BY <1>0 DEF TypeOK
    <2>2. NoCycle' /\ NoDuplicates'
        BY <1>0 DEF NoCycle, NoDuplicates, Edges
    <2>3. \A u \in Threads : cur'[u] = IF u = t THEN ch ELSE NoChange
        BY <1>0 DEF TypeOK
    <2>4. OneIsChecked'
        BY <2>1, <2>3 DEF OneIsChecked
    <2>5. Edges' = Edges /\ bundled' = bundled
        BY DEF Edges
    <2>6. CheckStillHolds'
        <3>1. ch.bundle \in Bundles
            BY <2>1 DEF Change
        <3>2. ch.add /\ ~Bundled(ch) /\ EndsFrom(WithEdge(ch), ch.bundle)
            BY <3>1, WalkIsExact DEF WithEdge
        <3>3. WithEdge(ch)' = WithEdge(ch) /\ Bundled(ch)' = Bundled(ch)
            BY <2>5 DEF WithEdge, Bundled
        <3>4. QED
            BY <2>3, <3>2, <3>3 DEF CheckStillHolds, WithEdge, Bundled
    <2>7. QED
        BY <2>2, <2>4, <2>6
<1>2. ASSUME NEW t \in Threads, NEW ch \in todo[t], Delete(t, ch) PROVE Goal
    <2> USE <1>2
    <2>1. ch \in Change
        BY <1>0 DEF TypeOK
    <2>2. NoCycle'
        BY <1>0, <2>1, RemoveEdges, FewerEdges DEF NoCycle
    <2>3. NoDuplicates'
        BY <1>0, <2>1, RemoveEdges DEF NoDuplicates
    <2>4. OneIsChecked' /\ cur' = cur
        BY <1>0 DEF Delete, OneIsChecked
    <2>5. CheckStillHolds'
        <3> SUFFICES ASSUME NEW u \in Threads, cur[u] # NoChange
                     PROVE  /\ cur[u].add /\ ~Bundled(cur[u])'
                            /\ EndsFrom(WithEdge(cur[u]), cur[u].bundle)'
            BY <2>4 DEF CheckStillHolds
        <3>1. cur[u] \in Change /\ cur[u].bundle \in Bundles /\ cur[u].channel \in Channels
            BY <1>0 DEF TypeOK, Change
        <3>2. /\ cur[u].add /\ ~Bundled(cur[u])
              /\ EndsFrom(WithEdge(cur[u]), cur[u].bundle)
            BY <1>0 DEF CheckStillHolds
        <3>3. ~Bundled(cur[u])'
            BY <1>0, <2>1, <2>4, <3>1, <3>2, RemoveEdges DEF Bundled, TypeOK
        <3>4. WithEdge(cur[u])' \subseteq WithEdge(cur[u])
            BY <1>0, <2>1, <2>4, RemoveEdges DEF WithEdge
        <3>5. EndsFrom(WithEdge(cur[u])', cur[u].bundle)
            BY <3>1, <3>2, <3>4, FewerChecked
        <3>6. QED
            BY <2>4, <3>2, <3>3, <3>5 DEF EndsFrom, Reach, NoEndlessWalk, Closed
    <2>6. QED
        BY <2>2, <2>3, <2>4, <2>5
<1>3. ASSUME NEW t \in Threads, Insert(t) PROVE Goal
    <2> USE <1>3
    <2>1. /\ bundled[cur[t].bundle][cur[t].channel] \in Nat
          /\ ~Bundled(cur[t])
          /\ EndsFrom(WithEdge(cur[t]), cur[t].bundle)
        BY <1>0, InsertEdges DEF CheckStillHolds, Insert, Change, TypeOK
    <2>2. NoCycle'
        <3>1. cur[t].bundle \in Bundles
            BY <1>0, InsertEdges DEF Change
        <3>2. Acyclic(WithEdge(cur[t]))
            BY <1>0, <2>1, <3>1, CheckedEdge DEF NoCycle, WithEdge
        <3>3. QED
            BY <1>0, <3>2, InsertEdges DEF NoCycle
    <2>3. NoDuplicates'
        BY <1>0, <2>1, InsertEdges DEF NoDuplicates, Bundled
    <2>4. \A u \in Threads : cur'[u] = NoChange
        BY <1>0 DEF Insert, OneIsChecked, TypeOK
    <2>5. OneIsChecked' /\ CheckStillHolds'
        BY <2>4 DEF OneIsChecked, CheckStillHolds
    <2>6. QED
        BY <2>2, <2>3, <2>5
<1>4. CASE UNCHANGED <<bundled, cur>>
    BY <1>0, <1>4 DEF NoCycle, NoDuplicates, OneIsChecked, CheckStillHolds, Edges, WithEdge,
        Bundled
<1>5. QED
    BY <1>1, <1>2, <1>3, <1>4 DEF Next, Receive, AlreadyThere, CycleFound, Finish,
        TogglePlugin, vars

\* The inductive invariant holds in every reachable state.
THEOREM BundleInvariant == Spec => []IInv
<1>1. Init => IInv
    BY InitEstablishes
<1>2. IInv /\ [Next]_vars => IInv'
    BY StepPreserves
<1>3. QED
    BY <1>1, <1>2, PTL DEF Spec

\* As long as no two requests are between the check and the insertion of add_channel at
\* the same time, no bundle contains itself, flatten terminates, and a channel is in a
\* bundle at most once, however many bundles, channels and requests there are.
THEOREM Sound == Spec => []SoundUnlessOverlap
<1>1. IInv => SoundUnlessOverlap
    BY DEF IInv, SoundUnlessOverlap
<1>2. QED
    BY <1>1, BundleInvariant, PTL

-----------------------------------------------------------------------------
(* Each step of the requests is a step of BundleStore, or a stutter. *)

LEMMA StoreInitMaps == Init => Store!StoreInit
    BY DEF Init, Store!StoreInit, Store!Channels, Channels

LEMMA StoreStepMaps ==
    IInv /\ [Next]_vars => [Store!StoreNext]_<<bundled, overlapped>>
<1> SUFFICES ASSUME IInv, [Next]_vars PROVE [Store!StoreNext]_<<bundled, overlapped>>
    OBVIOUS
<1> USE BundleAssumption
<1>0. TypeOK
    BY DEF IInv
<1>1. ASSUME NEW t \in Threads, NEW ch \in todo[t], CheckPasses(t, ch)
      PROVE  [Store!StoreNext]_<<bundled, overlapped>>
    <2>1. bundled' = bundled /\ overlapped' \in BOOLEAN /\ (overlapped' # overlapped => overlapped')
        BY <1>0, <1>1 DEF CheckPasses, TypeOK
    <2>2. CASE overlapped' = overlapped
        BY <2>1, <2>2
    <2>3. CASE overlapped' # overlapped
        BY <2>1, <2>3 DEF Store!Race, Store!StoreNext
    <2>4. QED
        BY <2>2, <2>3
<1>2. ASSUME NEW t \in Threads, Insert(t)
      PROVE  [Store!StoreNext]_<<bundled, overlapped>>
    <2>1. PICK b, c : b = cur[t].bundle /\ c = cur[t].channel
        OBVIOUS
    <2>2. /\ b \in Bundles /\ c \in Channels
          /\ Edges' = Edges \cup {<<b, c>>} /\ overlapped' = overlapped
        BY <1>0, <1>2, <2>1, InsertEdges DEF Insert, Change, WithEdge
    <2>3. CASE overlapped
        <3>1. bundled' \in [Bundles -> [Channels -> Nat]]
            BY <1>0, <1>2, <2>1, <2>2 DEF Insert, TypeOK
        <3>2. Store!Broken
            BY <2>2, <2>3, <3>1 DEF Store!Broken, Store!Channels, Channels
        <3>3. QED
            BY <3>2 DEF Store!StoreNext
    <2>4. CASE ~overlapped
        <3>1. ~Bundled(cur[t]) /\ EndsFrom(WithEdge(cur[t]), cur[t].bundle)
            BY <1>2, <2>4 DEF IInv, CheckStillHolds, Insert
        <3>2. bundled[b][c] = 0 /\ bundled' = [bundled EXCEPT ![b][c] = 1]
            <4>1. bundled[b][c] = 0
                BY <1>0, <2>1, <2>2, <3>1 DEF Bundled, TypeOK
            <4>2. bundled' = [bundled EXCEPT ![b][c] = 0 + 1]
                BY <1>2, <2>1, <4>1 DEF Insert
            <4>3. QED
                BY <4>1, <4>2
        <3>3. EndsFrom(Edges', b)
            BY <2>1, <2>2, <3>1 DEF WithEdge
        <3>4. Store!EndsFrom(Store!Pairs', b)
            BY <3>3 DEF Edges, EndsFrom, Reach, Closed, NoEndlessWalk, Channels, Store!EndsFrom,
                Store!Reach, Store!Closed, Store!NoEndlessWalk, Store!Pairs, Store!Channels
        <3>5. Store!Add(b, c)
            BY <2>2, <2>4, <3>2, <3>4 DEF Store!Add
        <3>6. QED
            BY <2>2, <3>5 DEF Store!StoreNext, Store!Channels, Channels
    <2>5. QED
        BY <2>3, <2>4
<1>3. ASSUME NEW t \in Threads, NEW ch \in todo[t], Delete(t, ch)
      PROVE  [Store!StoreNext]_<<bundled, overlapped>>
    <2>1. ch.bundle \in Bundles /\ ch.channel \in Channels
        BY <1>0 DEF TypeOK, Change
    <2>2. Store!Remove(ch.bundle, ch.channel)
        BY <1>3 DEF Delete, Store!Remove
    <2>3. QED
        BY <2>1, <2>2 DEF Store!StoreNext, Store!Channels, Channels
<1>4. CASE UNCHANGED <<bundled, overlapped>>
    BY <1>4
<1>5. QED
    BY <1>1, <1>2, <1>3, <1>4 DEF Next, Receive, AlreadyThere, CycleFound, Finish,
        TogglePlugin, vars

\* The requests that change bundles implement BundleStore: what one request checks still
\* holds when it inserts, as long as two additions do not overlap.
THEOREM StoreRefined == Spec => StoreIsAtomic
<1>1. Init => Store!StoreInit
    BY StoreInitMaps
<1>2. IInv /\ [Next]_vars => [Store!StoreNext]_<<bundled, overlapped>>
    BY StoreStepMaps
<1>3. QED
    BY <1>1, <1>2, BundleInvariant, PTL DEF Spec, StoreIsAtomic, Store!StoreSpec

-----------------------------------------------------------------------------
(* What requests have applied. *)

\* The changes that a request has made, makes or will make are about different places.
Asked(t) == diff[t] \cup todo[t] \cup ({cur[t]} \ {NoChange})
AskedOnce ==
    \A t \in Threads :
        /\ Functional(Asked(t))
        /\ cur[t] # NoChange => cur[t].add /\ answer[t] = "working"
        /\ todo[t] # {} => answer[t] = "working"

LEMMA AskedStep == TypeOK /\ AskedOnce /\ [Next]_vars => AskedOnce'
<1> SUFFICES ASSUME TypeOK, AskedOnce, [Next]_vars PROVE AskedOnce'
    OBVIOUS
<1> USE BundleAssumption DEF AskedOnce
<1>1. ASSUME NEW t \in Threads, NEW d \in Diffs, Receive(t, d) PROVE AskedOnce'
    <2>1. cur[t] = NoChange /\ cur' = cur
        BY <1>1 DEF Receive
    <2>2. \A u \in Threads : Asked(u)' = IF u = t THEN d ELSE Asked(u)
        BY <1>1, <2>1 DEF Receive, Asked, TypeOK
    <2>3. \A u \in Threads : Functional(Asked(u)')
        BY <2>2 DEF Diffs, Functional
    <2>4. \A u \in Threads : Functional(Asked(u))'
        BY <2>3 DEF Functional
    <2>5. \A u \in Threads : /\ (cur[u] # NoChange => cur[u].add /\ answer[u] = "working")'
                              /\ (todo[u] # {} => answer[u] = "working")'
        BY <1>1, <2>1 DEF Receive, TypeOK
    <2>6. QED
        BY <2>4, <2>5
<1>2. ASSUME NEW t \in Threads, NEW ch \in todo[t],
             \/ AlreadyThere(t, ch) \/ CheckPasses(t, ch) \/ CycleFound(t, ch) \/ Delete(t, ch)
      PROVE  AskedOnce'
    <2>1. \A u \in Threads : Asked(u)' \subseteq Asked(u)
        BY <1>2 DEF AlreadyThere, CheckPasses, CycleFound, Delete, Changes, Take, Asked, TypeOK
    <2>2. \A u \in Threads : /\ (cur[u] # NoChange => cur[u].add /\ answer[u] = "working")'
                              /\ (todo[u] # {} => answer[u] = "working")'
        BY <1>2 DEF AlreadyThere, CheckPasses, CycleFound, Delete, Take, TypeOK
    <2>3. QED
        BY <2>1, <2>2 DEF Functional
<1>3. ASSUME NEW t \in Threads, Insert(t) PROVE AskedOnce'
    <2>1. \A u \in Threads : Asked(u)' \subseteq Asked(u) /\ cur'[u] \in {cur[u], NoChange}
        BY <1>3 DEF Insert, Changes, Asked, TypeOK
    <2>2. todo' = todo /\ answer' = answer
        BY <1>3 DEF Insert
    <2>3. QED
        BY <2>1, <2>2 DEF Functional
<1>4. ASSUME NEW t \in Threads, Finish(t) PROVE AskedOnce'
    <2>1. todo' = todo /\ cur' = cur /\ diff' = diff
        BY <1>4 DEF Finish
    <2>2. \A u \in Threads : Asked(u)' = Asked(u)
        BY <2>1 DEF Asked
    <2>3. \A u \in Threads : Functional(Asked(u))'
        BY <2>2 DEF Functional
    <2>4. \A u \in Threads : /\ (cur[u] # NoChange => cur[u].add /\ answer[u] = "working")'
                              /\ (todo[u] # {} => answer[u] = "working")'
        BY <1>4, <2>1 DEF Finish, TypeOK
    <2>5. QED
        BY <2>3, <2>4
<1>5. CASE UNCHANGED <<diff, todo, cur, answer>>
    BY <1>5 DEF Asked, Functional
<1>6. QED
    BY <1>1, <1>2, <1>3, <1>4, <1>5 DEF Next, TogglePlugin, vars

LEMMA AppliedStep == TypeOK /\ AskedOnce /\ DiffIsApplied /\ [Next]_vars => DiffIsApplied'
<1> SUFFICES ASSUME TypeOK, AskedOnce, DiffIsApplied, [Next]_vars,
                    NEW u \in Threads, NEW x \in diff'[u] \ (todo'[u] \cup {cur'[u]})
             PROVE  Bundled(x)' <=> x.add
    BY DEF DiffIsApplied
<1> USE BundleAssumption
<1>1. ASSUME NEW t \in Threads, NEW d \in Diffs, Receive(t, d)
      PROVE  Bundled(x)' <=> x.add
    BY <1>1 DEF Receive, DiffIsApplied, Bundled, TypeOK
<1>2. ASSUME NEW t \in Threads, NEW ch \in todo[t],
             AlreadyThere(t, ch) \/ CheckPasses(t, ch) \/ CycleFound(t, ch)
      PROVE  Bundled(x)' <=> x.add
    <2>1. bundled' = bundled /\ x \in diff[u] /\ x # NoChange
        BY <1>2 DEF AlreadyThere, CheckPasses, CycleFound, TypeOK
    <2>2. CASE x \notin todo[u] \cup {cur[u]}
        BY <2>1, <2>2 DEF DiffIsApplied, Bundled
    <2>3. CASE x \in todo[u]
        <3>1. u = t
            BY <1>2, <2>3 DEF AlreadyThere, CheckPasses, CycleFound, Take, TypeOK
        <3>2. x = ch /\ AlreadyThere(t, ch)
            BY <1>2, <2>3, <3>1 DEF AlreadyThere, CheckPasses, CycleFound, Take, TypeOK
        <3>3. QED
            BY <2>1, <3>2 DEF AlreadyThere, Bundled
    <2>4. CASE x = cur[u]
        BY <1>2, <2>1, <2>4 DEF AlreadyThere, CheckPasses, CycleFound, Take, TypeOK
    <2>5. QED
        BY <2>2, <2>3, <2>4
<1>3. ASSUME NEW t \in Threads, NEW ch \in todo[t], Delete(t, ch)
      PROVE  Bundled(x)' <=> x.add
    <2>1. ch \in Change /\ x \in Change /\ x \in diff[u] /\ cur' = cur
        BY <1>3 DEF Delete, Changes, TypeOK
    <2>2. CASE ~SamePlace(x, ch)
        <3>1. x \notin todo[u] \cup {cur[u]}
            BY <1>3, <2>1, <2>2 DEF Delete, Take, SamePlace, TypeOK
        <3>2. Bundled(x)' <=> Bundled(x)
            BY <1>3, <2>1, <2>2, RemoveEdges DEF Bundled, SamePlace, Change
        <3>3. QED
            BY <2>1, <3>1, <3>2 DEF DiffIsApplied
    <2>3. CASE SamePlace(x, ch)
        <3>1. u = t
            BY <1>3, <2>3 DEF Delete, Changes
        <3>2. x = ch
            BY <2>1, <2>3, <3>1 DEF AskedOnce, Asked, Functional
        <3>3. ch.bundle \in Bundles /\ ch.channel \in Channels
            BY <2>1 DEF Change
        <3>4. bundled'[ch.bundle][ch.channel] = 0 /\ ~ch.add
            BY <1>3, <2>1, <3>3, RemoveEdges DEF Delete
        <3>5. ~Bundled(x)'
            BY <3>2, <3>4 DEF Bundled
        <3>6. QED
            BY <3>2, <3>4, <3>5
    <2>4. QED
        BY <2>2, <2>3
<1>4. ASSUME NEW t \in Threads, Insert(t)
      PROVE  Bundled(x)' <=> x.add
    <2>1. /\ cur[t] \in Change /\ x \in Change /\ x \in diff[u] /\ todo' = todo
          /\ cur'[u] = IF u = t THEN NoChange ELSE cur[u]
        BY <1>4, InsertEdges DEF Insert, Changes, TypeOK
    <2>2. CASE ~SamePlace(x, cur[t])
        <3>1. x \notin todo[u] \cup {cur[u]}
            BY <1>4, <2>1, <2>2 DEF SamePlace
        <3>2. Bundled(x)' <=> Bundled(x)
            BY <1>4, <2>1, <2>2, InsertEdges DEF Bundled, SamePlace, Change
        <3>3. QED
            BY <2>1, <3>1, <3>2 DEF DiffIsApplied
    <2>3. CASE SamePlace(x, cur[t])
        <3>1. u = t
            BY <1>4, <2>3 DEF Insert, Changes
        <3>2. x = cur[t] /\ x.add
            BY <1>4, <2>1, <2>3, <3>1 DEF AskedOnce, Asked, Functional, Insert
        <3>3. x.bundle \in Bundles /\ x.channel \in Channels
            BY <2>1 DEF Change
        <3>4. bundled'[x.bundle][x.channel] = bundled[x.bundle][x.channel] + 1
            BY <1>4, <3>2, <3>3, InsertEdges
        <3>5. bundled[x.bundle][x.channel] \in Nat
            BY <3>3 DEF TypeOK
        <3>6. bundled'[x.bundle][x.channel] > 0
            BY <3>4, <3>5
        <3>7. Bundled(x)'
            BY <1>4, <3>1, <3>6 DEF Bundled
        <3>8. QED
            BY <3>2, <3>7
    <2>4. QED
        BY <2>2, <2>3
<1>5. CASE UNCHANGED <<bundled, diff, todo, cur>>
    BY <1>5 DEF DiffIsApplied, Bundled
<1>6. QED
    BY <1>1, <1>2, <1>3, <1>4, <1>5 DEF Next, Finish, TogglePlugin, vars

\* What a request has applied stays until another request changes the same channel of
\* the same bundle, however their statements interleave.
THEOREM Applied == Spec => []DiffIsApplied
<1>1. Init => AskedOnce /\ DiffIsApplied
    BY DEF Init, AskedOnce, Asked, Functional, DiffIsApplied
<1>2. TypeOK /\ AskedOnce /\ DiffIsApplied /\ [Next]_vars => AskedOnce' /\ DiffIsApplied'
    BY AskedStep, AppliedStep
<1>3. QED
    BY <1>1, <1>2, TypeCorrect, PTL DEF Spec

-----------------------------------------------------------------------------
(* The routes to the web applications of plugins. *)

States == {"yes", "no", "notfound", "none"}

PluginsTypeOK ==
    /\ package \in [PluginNames -> Packages]
    /\ state \in [PluginNames -> States]
    /\ webapp \subseteq PluginNames
    /\ plugin \in [ChannelIds -> PluginNames \cup {NoPlugin}]
    /\ created \subseteq ChannelIds
    /\ route \in [ChannelIds -> PluginNames \cup {NoPlugin}]
    /\ doing \in [Workers -> {"idle", "activate", "map", "create", "edit"}]
    /\ about \in [Workers -> [plugin : PluginNames \cup {NoPlugin},
                              channels : SUBSET ChannelIds, webapp : BOOLEAN]]
    /\ excused \subseteq ChannelIds

\* Only channels that were created have plugins, routes and requests.
CreatedInv ==
    /\ \A c \in ChannelIds \ created : plugin[c] = NoPlugin /\ route[c] = NoPlugin
    /\ \A t \in Workers :
        /\ about[t].channels \subseteq created
        /\ doing[t] = "idle" => about[t] = NoWork
        /\ doing[t] # "idle" => about[t].plugin # NoPlugin
        /\ doing[t] = "activate" => about[t].channels = {}

\* A request of t that is to give c a route to p.
Routing(t, c, p) ==
    /\ about[t].plugin = p /\ about[t].webapp
    /\ doing[t] = "activate" \/ c \in about[t].channels

Wanted(c) == plugin[c] # NoPlugin /\ c \notin excused

\* The requests about a channel are about its plugin; its route is that of its plugin, if
\* it has one, or a request is about to replace it; and it has one if its plugin is
\* activated, or a request is about to make it.
RouteInv ==
    \A c \in ChannelIds : Wanted(c) =>
        /\ \A t \in Workers : c \in about[t].channels => about[t].plugin = plugin[c]
        /\ \/ route[c] \in {NoPlugin, plugin[c]}
           \/ \E t \in Workers : doing[t] = "edit" /\ c \in about[t].channels
        /\ state[plugin[c]] = "yes" /\ plugin[c] \in webapp =>
              route[c] = plugin[c] \/ \E t \in Workers : Routing(t, c, plugin[c])

PluginsInv == PluginsTypeOK /\ CreatedInv /\ RouteInv

LEMMA PluginsInvInit == PluginsInit => PluginsInv
  BY DEF PluginsInit, Idle, PluginsInv, PluginsTypeOK, CreatedInv, RouteInv, Wanted, NoWork,
         States, Packages

\* What showing the page does to the rows of plugins: none gets activated, and the channels
\* of an activated one whose web application is new are excused.
LEMMA ShownRows ==
    ASSUME PluginsTypeOK, NEW st \in [PluginNames -> States], Shows(st)
    PROVE  /\ state' \in [PluginNames -> States] /\ webapp' \subseteq PluginNames
           /\ excused' \subseteq ChannelIds /\ excused \subseteq excused'
           /\ \A p \in PluginNames : state'[p] = "yes" => st[p] = "yes"
           /\ \A c \in ChannelIds : /\ c \notin excused' /\ plugin[c] \in webapp'
                                    /\ st[plugin[c]] = "yes"
                                    => plugin[c] \in webapp
  <1>1. state' = [p \in PluginNames |->
                    IF package[p] = "absent" THEN IF st[p] = "none" THEN "none" ELSE "notfound"
                    ELSE IF st[p] = "yes" THEN "yes" ELSE "no"]
    BY DEF Shows, Updated
  <1>2. state' \in [PluginNames -> States] /\ \A p \in PluginNames : state'[p] = "yes" => st[p] = "yes"
    BY <1>1 DEF States
  <1>3. webapp' \subseteq PluginNames
    BY DEF Shows, Seen
  <1>4. /\ excused' \subseteq ChannelIds /\ excused \subseteq excused'
        /\ \A p \in webapp' \ webapp : st[p] = "yes" => ChannelsOf(p) \subseteq excused'
    BY DEF Shows, ChannelsOf, PluginsTypeOK
  <1>5. \A c \in ChannelIds : c \in ChannelsOf(plugin[c])
    BY DEF ChannelsOf
  <1> QED BY <1>2, <1>3, <1>4, <1>5

\* A step that changes no request and no route, and lets no plugin in, keeps the routes.
LEMMA RoutesStay ==
    ASSUME PluginsInv, excused \subseteq excused',
           UNCHANGED <<route, doing, about>>,
           \A c \in ChannelIds : plugin'[c] \in {plugin[c], NoPlugin},
           \A c \in ChannelIds : /\ Wanted(c) /\ c \notin excused'
                                 /\ state'[plugin[c]] = "yes" /\ plugin[c] \in webapp'
                                 => state[plugin[c]] = "yes" /\ plugin[c] \in webapp
    PROVE  RouteInv'
  <1> SUFFICES ASSUME NEW c \in ChannelIds, Wanted(c)'
               PROVE  /\ \A t \in Workers : c \in about[t].channels => about[t].plugin = plugin'[c]
                      /\ \/ route[c] \in {NoPlugin, plugin'[c]}
                         \/ \E t \in Workers : doing[t] = "edit" /\ c \in about[t].channels
                      /\ state'[plugin'[c]] = "yes" /\ plugin'[c] \in webapp' =>
                            route[c] = plugin'[c] \/ \E t \in Workers : Routing(t, c, plugin'[c])
    BY DEF RouteInv, Routing
  <1>1. plugin'[c] = plugin[c] /\ Wanted(c) /\ c \notin excused'
    BY DEF Wanted
  <1> QED BY <1>1 DEF PluginsInv, RouteInv

LEMMA PageKeepsRoutes ==
    ASSUME PluginsInv,
           ViewPlugins \/ \E p \in PluginNames : Deactivate(p) \/ DeletePlugin(p)
    PROVE  PluginsInv'
  <1>1. PICK st \in [PluginNames -> States] :
            /\ Shows(st) /\ \A p \in PluginNames : st[p] = "yes" => state[p] = "yes"
            /\ UNCHANGED <<package, created, route, doing, about>>
            /\ plugin' \in [ChannelIds -> PluginNames \cup {NoPlugin}]
            /\ \A c \in ChannelIds : plugin'[c] \in {plugin[c], NoPlugin}
    <2>1. CASE ViewPlugins
      BY <2>1 DEF ViewPlugins, workVars, PluginsInv, PluginsTypeOK
    <2>2. ASSUME NEW p \in PluginNames, Deactivate(p)
          PROVE  /\ [state EXCEPT ![p] = "no"] \in [PluginNames -> States]
                 /\ Shows([state EXCEPT ![p] = "no"])
                 /\ \A q \in PluginNames : [state EXCEPT ![p] = "no"][q] = "yes" => state[q] = "yes"
                 /\ UNCHANGED <<package, created, route, doing, about, plugin>>
      BY <2>2 DEF Deactivate, workVars, PluginsInv, PluginsTypeOK, States
    <2>3. ASSUME NEW p \in PluginNames, DeletePlugin(p)
          PROVE  /\ [state EXCEPT ![p] = "none"] \in [PluginNames -> States]
                 /\ Shows([state EXCEPT ![p] = "none"])
                 /\ \A q \in PluginNames : [state EXCEPT ![p] = "none"][q] = "yes" => state[q] = "yes"
                 /\ UNCHANGED <<package, created, route, doing, about>>
                 /\ plugin' \in [ChannelIds -> PluginNames \cup {NoPlugin}]
                 /\ \A c \in ChannelIds : plugin'[c] \in {plugin[c], NoPlugin}
      BY <2>3 DEF DeletePlugin, workVars, PluginsInv, PluginsTypeOK, States
    <2>4. plugin \in [ChannelIds -> PluginNames \cup {NoPlugin}]
      BY DEF PluginsInv, PluginsTypeOK
    <2> QED BY <2>1, <2>2, <2>3, <2>4
  <1>2. PluginsTypeOK'
    BY <1>1, ShownRows DEF PluginsInv, PluginsTypeOK
  <1>3. CreatedInv'
    BY <1>1 DEF PluginsInv, CreatedInv
  <1>4. RouteInv'
    <2>1. \A c \in ChannelIds : Wanted(c) => plugin[c] \in PluginNames
      BY DEF PluginsInv, PluginsTypeOK, Wanted
    <2>2. \A c \in ChannelIds : /\ Wanted(c) /\ c \notin excused'
                                /\ state'[plugin[c]] = "yes" /\ plugin[c] \in webapp'
                                => state[plugin[c]] = "yes" /\ plugin[c] \in webapp
      BY <1>1, <2>1, ShownRows DEF PluginsInv
    <2>3. excused \subseteq excused'
      BY <1>1, ShownRows DEF PluginsInv
    <2> QED BY <1>1, <2>2, <2>3, RoutesStay
  <1> QED BY <1>2, <1>3, <1>4 DEF PluginsInv

\* The application starts: there are no requests, and every route is made again.
LEMMA StartMakesRoutes ==
    ASSUME PluginsInv, NEW pk \in [PluginNames -> Packages], Start(pk)
    PROVE  PluginsInv'
  <1>1. /\ UNCHANGED <<plugin, created>> /\ excused' = {} /\ package' = pk
        /\ route' = [c \in ChannelIds |-> IF plugin[c] \in webapp' /\ state'[plugin[c]] = "yes"
                                          THEN plugin[c] ELSE NoPlugin]
        /\ doing' = [t \in Workers |-> "idle"] /\ about' = [t \in Workers |-> NoWork]
    BY DEF Start
  <1>2. Updated(state, pk) \in [PluginNames -> States]
    <2>1. Updated(state, pk) = [p \in PluginNames |->
                IF pk[p] = "absent" THEN IF state[p] = "none" THEN "none" ELSE "notfound"
                ELSE IF state[p] = "yes" THEN "yes" ELSE "no"]
      BY DEF Updated
    <2> QED BY <2>1 DEF States
  <1>3. state' \in [PluginNames -> States] /\ webapp' \subseteq PluginNames
    BY <1>2 DEF Start, Started, Seen, States
  <1>4. PluginsTypeOK'
    BY <1>1, <1>3 DEF PluginsInv, PluginsTypeOK, NoWork
  <1>5. CreatedInv'
    BY <1>1, <1>3, PluginsAssumption DEF PluginsInv, CreatedInv, PluginsTypeOK, NoWork
  <1>6. RouteInv'
    BY <1>1 DEF RouteInv, Wanted, NoWork
  <1> QED BY <1>4, <1>5, <1>6 DEF PluginsInv

LEMMA ActivateKeepsRoutes ==
    ASSUME PluginsInv, NEW t \in Workers, NEW p \in PluginNames, Activate(t, p)
    PROVE  PluginsInv'
  <1>1. /\ doing[t] = "idle" /\ doing' = [doing EXCEPT ![t] = "activate"]
        /\ about' = [about EXCEPT ![t] = [plugin |-> p, channels |-> {}, webapp |-> p \in webapp]]
        /\ state' = [state EXCEPT ![p] = "yes"]
        /\ UNCHANGED <<package, webapp, plugin, created, route, excused>>
    BY DEF Activate, Works
  <1>2. (p \in webapp) \in BOOLEAN
    OBVIOUS
  <1>3. PluginsTypeOK'
    BY <1>1, <1>2 DEF PluginsInv, PluginsTypeOK, States
  <1>4. CreatedInv'
    BY <1>1, PluginsAssumption DEF PluginsInv, CreatedInv, PluginsTypeOK
  <1>5. about[t] = NoWork
    BY <1>1 DEF PluginsInv, CreatedInv
  <1>6. RouteInv'
    <2> SUFFICES ASSUME NEW c \in ChannelIds, Wanted(c)
                 PROVE  /\ \A u \in Workers : c \in about'[u].channels => about'[u].plugin = plugin[c]
                        /\ \/ route[c] \in {NoPlugin, plugin[c]}
                           \/ \E u \in Workers : doing'[u] = "edit" /\ c \in about'[u].channels
                        /\ state'[plugin[c]] = "yes" /\ plugin[c] \in webapp =>
                              route[c] = plugin[c] \/ \E u \in Workers : Routing(u, c, plugin[c])'
      BY <1>1 DEF RouteInv, Wanted
    <2>1. \A u \in Workers : u # t => doing'[u] = doing[u] /\ about'[u] = about[u]
      BY <1>1 DEF PluginsInv, PluginsTypeOK
    <2>2. about'[t].channels = {} /\ about'[t].plugin = p /\ (about'[t].webapp <=> p \in webapp)
          /\ doing'[t] = "activate"
      BY <1>1 DEF PluginsInv, PluginsTypeOK
    <2>3. \A u \in Workers : c \in about'[u].channels => about'[u].plugin = plugin[c]
      BY <2>1, <2>2 DEF PluginsInv, RouteInv
    <2>4. \/ route[c] \in {NoPlugin, plugin[c]}
          \/ \E u \in Workers : doing'[u] = "edit" /\ c \in about'[u].channels
      BY <1>1, <2>1 DEF PluginsInv, RouteInv
    <2>5. ASSUME state'[plugin[c]] = "yes", plugin[c] \in webapp, route[c] # plugin[c]
          PROVE  \E u \in Workers : Routing(u, c, plugin[c])'
      <3>1. CASE plugin[c] = p
        <4>1. Routing(t, c, plugin[c])'
          BY <1>1, <2>2, <2>5, <3>1 DEF Routing
        <4> QED BY <4>1
      <3>2. CASE plugin[c] # p
        <4>1. state[plugin[c]] = "yes"
          BY <1>1, <2>5, <3>2 DEF PluginsInv, PluginsTypeOK
        <4>2. PICK u \in Workers : Routing(u, c, plugin[c])
          BY <2>5, <4>1 DEF PluginsInv, RouteInv
        <4>3. u # t
          BY <1>5, <4>2 DEF Routing, NoWork
        <4>4. Routing(u, c, plugin[c])'
          BY <1>1, <2>1, <4>2, <4>3 DEF Routing
        <4> QED BY <1>1, <4>4
      <3> QED BY <3>1, <3>2
    <2> QED BY <2>3, <2>4, <2>5
  <1> QED BY <1>3, <1>4, <1>6 DEF PluginsInv

\* A request that ends without a route, for a plugin that is not activated any more.
LEMMA FailureKeepsRoutes ==
    ASSUME PluginsInv, NEW t \in Workers, InstantiateFails(t)
    PROVE  PluginsInv'
  <1> PICK p \in {about[t].plugin} : TRUE
    OBVIOUS
  <1>1. PICK st \in {[state EXCEPT ![p] = IF @ = "none" THEN @ ELSE "no"]} : TRUE
    OBVIOUS
  <1>2. /\ doing[t] = "activate" /\ doing' = [doing EXCEPT ![t] = "idle"]
        /\ about' = [about EXCEPT ![t] = NoWork]
        /\ Shows(st)
        /\ UNCHANGED <<package, plugin, created, route>>
    BY <1>1 DEF InstantiateFails, Done, Works
  <1>3. p \in PluginNames /\ about[t].channels = {}
    BY <1>2 DEF PluginsInv, PluginsTypeOK, CreatedInv
  <1>4. /\ st \in [PluginNames -> States] /\ st[p] # "yes"
        /\ \A q \in PluginNames : st[q] = "yes" => state[q] = "yes" /\ q # p
    BY <1>1, <1>3 DEF PluginsInv, PluginsTypeOK, States
  <1>5. PluginsTypeOK'
    BY <1>2, <1>4, ShownRows DEF PluginsInv, PluginsTypeOK, NoWork
  <1>6. CreatedInv'
    BY <1>2 DEF PluginsInv, CreatedInv, PluginsTypeOK, NoWork
  <1>7. RouteInv'
    <2> SUFFICES ASSUME NEW c \in ChannelIds, Wanted(c)'
                 PROVE  /\ \A u \in Workers : c \in about'[u].channels => about'[u].plugin = plugin[c]
                        /\ \/ route[c] \in {NoPlugin, plugin[c]}
                           \/ \E u \in Workers : doing'[u] = "edit" /\ c \in about'[u].channels
                        /\ state'[plugin[c]] = "yes" /\ plugin[c] \in webapp' =>
                              route[c] = plugin[c] \/ \E u \in Workers : Routing(u, c, plugin[c])'
      BY <1>2 DEF RouteInv, Wanted
    <2>1. Wanted(c) /\ c \notin excused' /\ plugin[c] \in PluginNames
      BY <1>2, <1>4, ShownRows DEF Wanted, PluginsInv, PluginsTypeOK
    <2>2. \A u \in Workers : u # t => doing'[u] = doing[u] /\ about'[u] = about[u]
      BY <1>2 DEF PluginsInv, PluginsTypeOK
    <2>3. about'[t].channels = {}
      BY <1>2 DEF PluginsInv, PluginsTypeOK, NoWork
    <2>4. \A u \in Workers : c \in about'[u].channels => about'[u].plugin = plugin[c]
      BY <2>1, <2>2, <2>3 DEF PluginsInv, RouteInv
    <2>5. \/ route[c] \in {NoPlugin, plugin[c]}
          \/ \E u \in Workers : doing'[u] = "edit" /\ c \in about'[u].channels
      BY <1>2, <2>1, <2>2 DEF PluginsInv, RouteInv
    <2>6. ASSUME state'[plugin[c]] = "yes", plugin[c] \in webapp', route[c] # plugin[c]
          PROVE  \E u \in Workers : Routing(u, c, plugin[c])'
      <3>1. st[plugin[c]] = "yes" /\ plugin[c] \in webapp
        BY <1>2, <1>4, <2>1, <2>6, ShownRows DEF PluginsInv
      <3>2. state[plugin[c]] = "yes" /\ plugin[c] # p
        BY <1>4, <2>1, <3>1
      <3>3. PICK u \in Workers : Routing(u, c, plugin[c])
        BY <2>1, <2>6, <3>1, <3>2 DEF PluginsInv, RouteInv
      <3>4. u # t
        BY <3>2, <3>3 DEF Routing
      <3> QED BY <1>2, <2>2, <3>3, <3>4 DEF Routing
    <2> QED BY <2>4, <2>5, <2>6
  <1> QED BY <1>5, <1>6, <1>7 DEF PluginsInv

\* One whose plugin raises before it is given channels: they are excused.
LEMMA RaisingKeepsRoutes ==
    ASSUME PluginsInv, NEW t \in Workers, ActivationFails(t)
    PROVE  PluginsInv'
  <1> PICK p \in {about[t].plugin} : TRUE
    OBVIOUS
  <1>1. /\ doing[t] = "activate" /\ doing' = [doing EXCEPT ![t] = "idle"]
        /\ about' = [about EXCEPT ![t] = NoWork]
        /\ excused' = excused \cup ChannelsOf(p)
        /\ UNCHANGED <<package, state, webapp, plugin, created, route>>
    BY DEF ActivationFails, Done, Works
  <1>2. about[t].channels = {}
    BY <1>1 DEF PluginsInv, CreatedInv
  <1>3. PluginsTypeOK'
    BY <1>1 DEF PluginsInv, PluginsTypeOK, NoWork, ChannelsOf
  <1>4. CreatedInv'
    BY <1>1 DEF PluginsInv, CreatedInv, PluginsTypeOK, NoWork
  <1>5. RouteInv'
    <2> SUFFICES ASSUME NEW c \in ChannelIds, Wanted(c)'
                 PROVE  /\ \A u \in Workers : c \in about'[u].channels => about'[u].plugin = plugin[c]
                        /\ \/ route[c] \in {NoPlugin, plugin[c]}
                           \/ \E u \in Workers : doing'[u] = "edit" /\ c \in about'[u].channels
                        /\ state[plugin[c]] = "yes" /\ plugin[c] \in webapp =>
                              route[c] = plugin[c] \/ \E u \in Workers : Routing(u, c, plugin[c])'
      BY <1>1 DEF RouteInv, Wanted
    <2>1. Wanted(c) /\ plugin[c] # p
      BY <1>1 DEF Wanted, ChannelsOf
    <2>2. /\ \A u \in Workers : u # t => doing'[u] = doing[u] /\ about'[u] = about[u]
          /\ about'[t].channels = {}
      BY <1>1 DEF PluginsInv, PluginsTypeOK, NoWork
    <2>3. \A u \in Workers : c \in about'[u].channels => about'[u].plugin = plugin[c]
      BY <2>1, <2>2 DEF PluginsInv, RouteInv
    <2>4. \/ route[c] \in {NoPlugin, plugin[c]}
          \/ \E u \in Workers : doing'[u] = "edit" /\ c \in about'[u].channels
      BY <1>1, <2>1, <2>2 DEF PluginsInv, RouteInv
    <2>5. ASSUME NEW u \in Workers, Routing(u, c, plugin[c]) PROVE Routing(u, c, plugin[c])'
      <3>1. u # t
        BY <2>1, <2>5 DEF Routing
      <3> QED BY <1>1, <2>2, <2>5, <3>1 DEF Routing
    <2>6. state[plugin[c]] = "yes" /\ plugin[c] \in webapp =>
             route[c] = plugin[c] \/ \E u \in Workers : Routing(u, c, plugin[c])
      BY <2>1 DEF PluginsInv, RouteInv
    <2> QED BY <2>3, <2>4, <2>5, <2>6
  <1> QED BY <1>3, <1>4, <1>5 DEF PluginsInv

LEMMA InstantiateKeepsRoutes ==
    ASSUME PluginsInv, NEW t \in Workers, Instantiate(t)
    PROVE  PluginsInv'
  <1> PICK p \in {about[t].plugin} : TRUE
    OBVIOUS
  <1>1. /\ doing[t] = "activate" /\ doing' = [doing EXCEPT ![t] = "map"]
        /\ about' = [about EXCEPT ![t] = [about[t] EXCEPT !.channels = ChannelsOf(p)]]
        /\ excused' = excused \cup Busy(t, ChannelsOf(p))
        /\ UNCHANGED <<package, state, webapp, plugin, created, route>>
    BY DEF Instantiate, Works
  <1>2. p \in PluginNames /\ ChannelsOf(p) \subseteq ChannelIds
    BY <1>1 DEF PluginsInv, PluginsTypeOK, CreatedInv, ChannelsOf
  <1>3. ChannelsOf(p) \subseteq created
    BY <1>2, PluginsAssumption DEF PluginsInv, CreatedInv, ChannelsOf
  <1>4. PluginsTypeOK'
    BY <1>1, <1>2 DEF PluginsInv, PluginsTypeOK, Busy
  <1>5. /\ \A u \in Workers : u # t => doing'[u] = doing[u] /\ about'[u] = about[u]
        /\ about'[t].channels = ChannelsOf(p) /\ about'[t].plugin = p
        /\ about'[t].webapp = about[t].webapp /\ doing'[t] = "map"
    BY <1>1 DEF PluginsInv, PluginsTypeOK
  <1>6. CreatedInv'
    BY <1>1, <1>2, <1>3, <1>5, PluginsAssumption DEF PluginsInv, CreatedInv
  <1>7. RouteInv'
    <2> SUFFICES ASSUME NEW c \in ChannelIds, Wanted(c)'
                 PROVE  /\ \A u \in Workers : c \in about'[u].channels => about'[u].plugin = plugin[c]
                        /\ \/ route[c] \in {NoPlugin, plugin[c]}
                           \/ \E u \in Workers : doing'[u] = "edit" /\ c \in about'[u].channels
                        /\ state[plugin[c]] = "yes" /\ plugin[c] \in webapp =>
                              route[c] = plugin[c] \/ \E u \in Workers : Routing(u, c, plugin[c])'
      BY <1>1 DEF RouteInv, Wanted
    <2>1. Wanted(c)
      BY <1>1 DEF Wanted
    <2>2. \A u \in Workers : c \in about'[u].channels => about'[u].plugin = plugin[c]
      BY <1>5, <2>1 DEF PluginsInv, RouteInv, ChannelsOf
    <2>3. \/ route[c] \in {NoPlugin, plugin[c]}
          \/ \E u \in Workers : doing'[u] = "edit" /\ c \in about'[u].channels
      BY <1>1, <1>5, <2>1 DEF PluginsInv, RouteInv
    <2>4. ASSUME NEW u \in Workers, Routing(u, c, plugin[c]) PROVE Routing(u, c, plugin[c])'
      <3>1. CASE u = t
        <4>1. c \in ChannelsOf(p)
          BY <2>4, <3>1 DEF Routing, ChannelsOf
        <4> QED BY <1>1, <1>5, <2>4, <3>1, <4>1 DEF Routing
      <3>2. CASE u # t
        BY <1>1, <1>5, <2>4, <3>2 DEF Routing
      <3> QED BY <3>1, <3>2
    <2>5. state[plugin[c]] = "yes" /\ plugin[c] \in webapp =>
             route[c] = plugin[c] \/ \E u \in Workers : Routing(u, c, plugin[c])
      BY <2>1 DEF PluginsInv, RouteInv
    <2> QED BY <2>2, <2>3, <2>4, <2>5
  <1> QED BY <1>4, <1>6, <1>7 DEF PluginsInv

\* A request that gives its channels their routes, and ends.
LEMMA MappingKeepsRoutes ==
    ASSUME PluginsInv, NEW t \in Workers, NEW st \in [PluginNames -> States],
           doing[t] \in {"map", "create", "edit"},
           doing' = [doing EXCEPT ![t] = "idle"], about' = [about EXCEPT ![t] = NoWork],
           UNCHANGED <<package, plugin, created>>,
           \/ route' = Routed(about[t].channels, about[t].plugin)
           \/ /\ route' = route
              /\ about[t].channels \subseteq excused' \/ (doing[t] = "map" /\ ~about[t].webapp),
           state' \in [PluginNames -> States], webapp' \subseteq PluginNames,
           excused' \subseteq ChannelIds, excused \subseteq excused',
           \A c \in ChannelIds : /\ Wanted(c) /\ c \notin excused'
                                 /\ state'[plugin[c]] = "yes" /\ plugin[c] \in webapp'
                                 => state[plugin[c]] = "yes" /\ plugin[c] \in webapp
    PROVE  PluginsInv'
  <1> PICK p \in {about[t].plugin} : TRUE
    OBVIOUS
  <1> PICK C \in {about[t].channels} : TRUE
    OBVIOUS
  <1>1. p \in PluginNames /\ C \subseteq created
    BY DEF PluginsInv, PluginsTypeOK, CreatedInv
  <1>2. /\ \A c \in ChannelIds : route'[c] \in {route[c], p}
        /\ \A c \in ChannelIds \ C : route'[c] = route[c]
        /\ route' \in [ChannelIds -> PluginNames \cup {NoPlugin}]
        /\ \/ \A c \in ChannelIds \cap C : route'[c] = p
           \/ route' = route /\ (C \subseteq excused' \/ (doing[t] = "map" /\ ~about[t].webapp))
    BY <1>1 DEF PluginsInv, PluginsTypeOK, Routed
  <1>3. PluginsTypeOK'
    BY <1>2 DEF PluginsInv, PluginsTypeOK, NoWork
  <1>4. CreatedInv'
    BY <1>1, <1>2 DEF PluginsInv, CreatedInv, PluginsTypeOK, NoWork
  <1>5. RouteInv'
    <2> SUFFICES ASSUME NEW c \in ChannelIds, Wanted(c)'
                 PROVE  /\ \A u \in Workers : c \in about'[u].channels => about'[u].plugin = plugin[c]
                        /\ \/ route'[c] \in {NoPlugin, plugin[c]}
                           \/ \E u \in Workers : doing'[u] = "edit" /\ c \in about'[u].channels
                        /\ state'[plugin[c]] = "yes" /\ plugin[c] \in webapp' =>
                              route'[c] = plugin[c] \/ \E u \in Workers : Routing(u, c, plugin[c])'
      BY DEF RouteInv, Wanted
    <2>1. Wanted(c) /\ c \notin excused'
      BY DEF Wanted
    <2>2. /\ \A u \in Workers : u # t => doing'[u] = doing[u] /\ about'[u] = about[u]
          /\ about'[t].channels = {}
      BY DEF PluginsInv, PluginsTypeOK, NoWork
    <2>3. \A u \in Workers : c \in about'[u].channels => about'[u].plugin = plugin[c]
      BY <2>1, <2>2 DEF PluginsInv, RouteInv
    <2>4. c \in C => plugin[c] = p
      BY <2>1 DEF PluginsInv, RouteInv
    <2>5. c \in C => route'[c] = p \/ (route' = route /\ doing[t] = "map" /\ ~about[t].webapp)
      BY <1>2, <2>1
    <2>6. \/ route'[c] \in {NoPlugin, plugin[c]}
          \/ \E u \in Workers : doing'[u] = "edit" /\ c \in about'[u].channels
      <3>1. CASE route'[c] = p /\ c \in C
        BY <2>4, <3>1
      <3>2. CASE route'[c] = route[c] /\ (c \in C => doing[t] = "map")
        <4>1. CASE route[c] \in {NoPlugin, plugin[c]}
          BY <3>2, <4>1
        <4>2. CASE \E u \in Workers : doing[u] = "edit" /\ c \in about[u].channels
          BY <2>2, <3>2, <4>2
        <4> QED BY <2>1, <4>1, <4>2 DEF PluginsInv, RouteInv
      <3> QED BY <1>2, <2>5, <3>1, <3>2
    <2>7. ASSUME state'[plugin[c]] = "yes", plugin[c] \in webapp', route'[c] # plugin[c]
          PROVE  \E u \in Workers : Routing(u, c, plugin[c])'
      <3>1. c \in C => ~about[t].webapp
        BY <2>4, <2>5, <2>7
      <3>2. route'[c] = route[c]
        BY <1>2, <2>4, <2>5, <2>7
      <3>3. PICK u \in Workers : Routing(u, c, plugin[c])
        BY <2>1, <2>7, <3>2 DEF PluginsInv, RouteInv
      <3>4. u # t
        BY <3>1, <3>3 DEF Routing
      <3> QED BY <2>2, <3>3, <3>4 DEF Routing
    <2> QED BY <2>3, <2>6, <2>7
  <1> QED BY <1>3, <1>4, <1>5 DEF PluginsInv

LEMMA AddMappingsKeepRoutes ==
    ASSUME PluginsInv, NEW t \in Workers, AddMappings(t) \/ MappingsFail(t) \/ AddMapping(t)
    PROVE  PluginsInv'
  <1>1. CASE AddMappings(t)
    <2>1. /\ doing[t] = "map" /\ doing' = [doing EXCEPT ![t] = "idle"]
          /\ about' = [about EXCEPT ![t] = NoWork]
          /\ UNCHANGED <<package, plugin, created>> /\ Shows(state)
          /\ \/ route' = Routed(about[t].channels, about[t].plugin)
             \/ route' = route /\ ~about[t].webapp
      BY <1>1 DEF AddMappings, Done, Works
    <2>2. state \in [PluginNames -> States] /\ PluginsTypeOK
      BY DEF PluginsInv, PluginsTypeOK
    <2>3. \A c \in ChannelIds : Wanted(c) => plugin[c] \in PluginNames
      BY DEF PluginsInv, PluginsTypeOK, Wanted
    <2>4. \A c \in ChannelIds : /\ Wanted(c) /\ c \notin excused'
                                /\ state'[plugin[c]] = "yes" /\ plugin[c] \in webapp'
                                => state[plugin[c]] = "yes" /\ plugin[c] \in webapp
      BY <2>1, <2>2, <2>3, ShownRows
    <2>5. /\ state' \in [PluginNames -> States] /\ webapp' \subseteq PluginNames
          /\ excused' \subseteq ChannelIds /\ excused \subseteq excused'
      BY <2>1, <2>2, ShownRows
    <2> QED BY <2>1, <2>2, <2>4, <2>5, MappingKeepsRoutes
  <1>2. CASE AddMapping(t)
    <2>1. /\ doing[t] \in {"create", "edit"} /\ doing' = [doing EXCEPT ![t] = "idle"]
          /\ about' = [about EXCEPT ![t] = NoWork]
          /\ UNCHANGED <<package, state, webapp, plugin, created>>
          /\ \/ route' = Routed(about[t].channels, about[t].plugin) /\ excused' = excused
             \/ route' = route /\ excused' = excused \cup about[t].channels
      BY <1>2 DEF AddMapping, Done, Works
    <2>2. /\ state' \in [PluginNames -> States] /\ webapp' \subseteq PluginNames
          /\ excused' \subseteq ChannelIds /\ excused \subseteq excused'
      BY <2>1 DEF PluginsInv, PluginsTypeOK
    <2> QED BY <2>1, <2>2, MappingKeepsRoutes
  <1>3. CASE MappingsFail(t)
    <2>1. /\ doing[t] = "map" /\ doing' = [doing EXCEPT ![t] = "idle"]
          /\ about' = [about EXCEPT ![t] = NoWork]
          /\ UNCHANGED <<package, state, webapp, plugin, created, route>>
          /\ excused' = excused \cup about[t].channels
      BY <1>3 DEF MappingsFail, Done, Works
    <2>2. /\ state' \in [PluginNames -> States] /\ webapp' \subseteq PluginNames
          /\ excused' \subseteq ChannelIds /\ excused \subseteq excused'
      BY <2>1 DEF PluginsInv, PluginsTypeOK
    <2> QED BY <2>1, <2>2, MappingKeepsRoutes
  <1> QED BY <1>1, <1>2, <1>3

\* The row of a channel changes: it is new, or excused, or t is about to make its route.
LEMMA ChannelsKeepRoutes ==
    ASSUME PluginsInv, NEW t \in Workers, NEW c \in ChannelIds, NEW p \in PluginNames,
           NEW kind \in {"create", "edit"}, doing[t] = "idle",
           plugin' = [plugin EXCEPT ![c] = p], created' = created \cup {c},
           UNCHANGED <<package, state, webapp, route>>,
           excused \subseteq excused', excused' \subseteq ChannelIds,
           \/ /\ doing' = [doing EXCEPT ![t] = kind]
              /\ about' = [about EXCEPT ![t] =
                            [plugin |-> p, channels |-> {c}, webapp |-> TRUE]]
              /\ Busy(t, {c}) \subseteq excused'
              /\ kind = "edit" \/ route[c] = NoPlugin
           \/ /\ UNCHANGED <<doing, about>>
              /\ \/ plugin[c] = p
                 \/ c \in excused'
                 \/ /\ p \notin webapp /\ route[c] = NoPlugin
                    /\ \A u \in Workers : c \notin about[u].channels
    PROVE  PluginsInv'
  <1>1. about[t] = NoWork
    BY DEF PluginsInv, CreatedInv
  <1>2. PluginsTypeOK'
    <2>1. doing' \in [Workers -> {"idle", "activate", "map", "create", "edit"}]
      BY DEF PluginsInv, PluginsTypeOK
    <2>2. about' \in [Workers -> [plugin : PluginNames \cup {NoPlugin},
                                 channels : SUBSET ChannelIds, webapp : BOOLEAN]]
      <3>1. [plugin |-> p, channels |-> {c}, webapp |-> TRUE]
                \in [plugin : PluginNames \cup {NoPlugin}, channels : SUBSET ChannelIds, webapp : BOOLEAN]
        OBVIOUS
      <3> QED BY <3>1 DEF PluginsInv, PluginsTypeOK
    <2>3. plugin' \in [ChannelIds -> PluginNames \cup {NoPlugin}] /\ created' \subseteq ChannelIds
      BY DEF PluginsInv, PluginsTypeOK
    <2> QED BY <2>1, <2>2, <2>3 DEF PluginsInv, PluginsTypeOK
  <1>3. /\ \A u \in Workers : u # t => doing'[u] = doing[u] /\ about'[u] = about[u]
        /\ \/ about'[t] = about[t] /\ doing'[t] = "idle" /\ doing' = doing /\ about' = about
           \/ /\ about'[t] = [plugin |-> p, channels |-> {c}, webapp |-> TRUE] /\ doing'[t] = kind
              /\ Busy(t, {c}) \subseteq excused' /\ (kind = "edit" \/ route[c] = NoPlugin)
    BY DEF PluginsInv, PluginsTypeOK
  <1>4. CreatedInv'
    <2>1. \A d \in ChannelIds \ created' : plugin'[d] = NoPlugin /\ route'[d] = NoPlugin
      BY DEF PluginsInv, CreatedInv, PluginsTypeOK
    <2>2. ASSUME NEW u \in Workers, u # t
          PROVE  /\ about'[u].channels \subseteq created'
                 /\ doing'[u] = "idle" => about'[u] = NoWork
                 /\ doing'[u] # "idle" => about'[u].plugin # NoPlugin
                 /\ doing'[u] = "activate" => about'[u].channels = {}
      BY <1>3, <2>2 DEF PluginsInv, CreatedInv
    <2>3. /\ about'[t].channels \subseteq created'
          /\ doing'[t] = "idle" => about'[t] = NoWork
          /\ doing'[t] # "idle" => about'[t].plugin # NoPlugin
          /\ doing'[t] = "activate" => about'[t].channels = {}
      <3>1. CASE about'[t] = about[t] /\ doing'[t] = "idle"
        BY <1>1, <3>1 DEF NoWork
      <3>2. CASE about'[t] = [plugin |-> p, channels |-> {c}, webapp |-> TRUE] /\ doing'[t] = kind
        BY <3>2, PluginsAssumption
      <3> QED BY <1>3, <3>1, <3>2
    <2> QED BY <2>1, <2>2, <2>3 DEF CreatedInv
  <1>5. RouteInv'
    <2> SUFFICES ASSUME NEW d \in ChannelIds, Wanted(d)'
                 PROVE  /\ \A u \in Workers : d \in about'[u].channels => about'[u].plugin = plugin'[d]
                        /\ \/ route[d] \in {NoPlugin, plugin'[d]}
                           \/ \E u \in Workers : doing'[u] = "edit" /\ d \in about'[u].channels
                        /\ state[plugin'[d]] = "yes" /\ plugin'[d] \in webapp =>
                              route[d] = plugin'[d] \/ \E u \in Workers : Routing(u, d, plugin[d])'
      BY DEF RouteInv
    <2>1. d \notin excused' /\ plugin'[d] # NoPlugin
      BY DEF Wanted
    <2>2. CASE plugin'[d] = plugin[d] /\ (about' = about \/ d # c)
      <3>1. Wanted(d)
        BY <2>1, <2>2 DEF Wanted
      <3>2. \A u \in Workers : d \in about[u].channels <=> d \in about'[u].channels
        <4>1. d \notin about[t].channels
          BY <1>1 DEF NoWork
        <4> QED BY <1>3, <2>2, <4>1
      <3>3. \A u \in Workers : d \in about'[u].channels => about'[u].plugin = plugin'[d]
        <4>1. \A u \in Workers : d \in about[u].channels => u # t /\ about[u].plugin = plugin[d]
          BY <1>1, <3>1 DEF PluginsInv, RouteInv, NoWork
        <4> QED BY <1>3, <2>2, <3>2, <4>1
      <3>4. \/ route[d] \in {NoPlugin, plugin'[d]}
            \/ \E u \in Workers : doing'[u] = "edit" /\ d \in about'[u].channels
        <4>1. \/ route[d] \in {NoPlugin, plugin[d]}
              \/ \E u \in Workers : u # t /\ doing[u] = "edit" /\ d \in about[u].channels
          BY <3>1 DEF PluginsInv, RouteInv
        <4> QED BY <1>3, <2>2, <4>1
      <3>5. ASSUME NEW u \in Workers, Routing(u, d, plugin[d]) PROVE Routing(u, d, plugin[d])'
        <4>1. u # t
          BY <1>1, <3>5 DEF Routing, NoWork
        <4>2. about'[u] = about[u] /\ doing'[u] = doing[u]
          BY <1>3, <4>1
        <4>3. about'[u].plugin = plugin'[d]
          BY <2>2, <3>5, <4>2 DEF Routing
        <4> QED BY <3>5, <4>2, <4>3 DEF Routing
      <3>6. state[plugin[d]] = "yes" /\ plugin[d] \in webapp =>
               route[d] = plugin[d] \/ \E u \in Workers : Routing(u, d, plugin[d])
        BY <3>1 DEF PluginsInv, RouteInv
      <3> QED BY <2>2, <3>3, <3>4, <3>5, <3>6
    <2>3. CASE d = c /\ about' # about
      <3>1. /\ about'[t] = [plugin |-> p, channels |-> {c}, webapp |-> TRUE] /\ doing'[t] = kind
            /\ Busy(t, {c}) \subseteq excused' /\ (kind = "edit" \/ route[c] = NoPlugin)
        BY <1>3, <2>3
      <3>2. plugin'[c] = p
        BY DEF PluginsInv, PluginsTypeOK
      <3>3. \A u \in Workers : u # t => c \notin about'[u].channels
        BY <1>3, <2>1, <2>3, <3>1 DEF Busy
      <3>4. \A u \in Workers : d \in about'[u].channels => about'[u].plugin = plugin'[d]
        BY <2>3, <3>1, <3>2, <3>3
      <3>5. Routing(t, c, plugin[c])'
        BY <3>1, <3>2 DEF Routing
      <3>6. \/ route[d] \in {NoPlugin, plugin'[d]}
            \/ \E u \in Workers : doing'[u] = "edit" /\ d \in about'[u].channels
        BY <2>3, <3>1
      <3> QED BY <2>3, <3>4, <3>5, <3>6
    <2>4. CASE d = c /\ about' = about /\ plugin'[d] # plugin[d]
      <3>1. plugin'[c] = p
        BY DEF PluginsInv, PluginsTypeOK
      <3>2. ~(about' = [about EXCEPT ![t] = [plugin |-> p, channels |-> {c}, webapp |-> TRUE]])
        BY <1>1, <2>4 DEF NoWork, PluginsInv, PluginsTypeOK
      <3>3. p \notin webapp /\ route[c] = NoPlugin /\ \A u \in Workers : c \notin about[u].channels
        BY <2>1, <2>4, <3>1, <3>2
      <3> QED BY <2>4, <3>1, <3>3
    <2>5. d # c => plugin'[d] = plugin[d]
      BY DEF PluginsInv, PluginsTypeOK
    <2> QED BY <2>2, <2>3, <2>4, <2>5
  <1> QED BY <1>2, <1>4, <1>5 DEF PluginsInv

LEMMA RowsKeepRoutes ==
    ASSUME PluginsInv, NEW t \in Workers, NEW c \in ChannelIds, NEW p \in PluginNames,
           CreateChannel(t, c, p) \/ EditChannel(t, c, p)
    PROVE  PluginsInv'
  <1>1. CASE CreateChannel(t, c, p)
    <2>1. /\ c \notin created /\ doing[t] = "idle"
          /\ plugin' = [plugin EXCEPT ![c] = p] /\ created' = created \cup {c}
          /\ UNCHANGED <<package, state, webapp, route, excused>>
          /\ \/ /\ doing' = [doing EXCEPT ![t] = "create"]
                /\ about' = [about EXCEPT ![t] = [plugin |-> p, channels |-> {c}, webapp |-> TRUE]]
             \/ UNCHANGED <<doing, about>> /\ p \notin webapp
      BY <1>1 DEF CreateChannel, Works, workVars
    <2>2. route[c] = NoPlugin /\ \A u \in Workers : c \notin about[u].channels
      BY <2>1 DEF PluginsInv, CreatedInv
    <2>3. Busy(t, {c}) = {} /\ excused' \subseteq ChannelIds
      BY <2>1, <2>2 DEF Busy, PluginsInv, PluginsTypeOK
    <2> QED BY <2>1, <2>2, <2>3, ChannelsKeepRoutes
  <1>2. CASE EditChannel(t, c, p)
    <2>1. /\ plugin[c] # NoPlugin /\ doing[t] = "idle"
          /\ plugin' = [plugin EXCEPT ![c] = p]
          /\ UNCHANGED <<package, state, webapp, created, route>>
          /\ \/ /\ doing' = [doing EXCEPT ![t] = "edit"]
                /\ about' = [about EXCEPT ![t] = [plugin |-> p, channels |-> {c}, webapp |-> TRUE]]
                /\ excused' = excused \cup Busy(t, {c})
             \/ /\ UNCHANGED <<doing, about>>
                /\ excused' = IF plugin[c] = p THEN excused ELSE excused \cup {c}
      BY <1>2 DEF EditChannel, Works, workVars
    <2>2. created' = created \cup {c}
      BY <2>1 DEF PluginsInv, CreatedInv
    <2>3. excused \subseteq excused' /\ excused' \subseteq ChannelIds
      BY <2>1 DEF Busy, PluginsInv, PluginsTypeOK
    <2>4. CASE doing' = [doing EXCEPT ![t] = "edit"]
               /\ about' = [about EXCEPT ![t] = [plugin |-> p, channels |-> {c}, webapp |-> TRUE]]
               /\ excused' = excused \cup Busy(t, {c})
      BY <2>1, <2>2, <2>3, <2>4, ChannelsKeepRoutes
    <2>5. CASE UNCHANGED <<doing, about>> /\ (plugin[c] = p \/ c \in excused')
      BY <2>1, <2>2, <2>3, <2>5, ChannelsKeepRoutes
    <2> QED BY <2>1, <2>4, <2>5
  <1> QED BY <1>1, <1>2

LEMMA PluginsStep == PluginsInv /\ [PluginsNext]_pluginVars => PluginsInv'
  <1> SUFFICES ASSUME PluginsInv, [PluginsNext]_pluginVars PROVE PluginsInv'
    OBVIOUS
  <1>1. CASE UNCHANGED pluginVars
    <2>1. RouteInv'
      BY <1>1, RoutesStay DEF pluginVars, workVars, Wanted
    <2> QED BY <1>1, <2>1 DEF pluginVars, workVars, PluginsInv, PluginsTypeOK, CreatedInv
  <1>2. CASE PluginsNext
    BY <1>2, StartMakesRoutes, PageKeepsRoutes, ActivateKeepsRoutes, FailureKeepsRoutes,
       RaisingKeepsRoutes, InstantiateKeepsRoutes, AddMappingsKeepRoutes, RowsKeepRoutes DEF PluginsNext
  <1> QED BY <1>1, <1>2

\* A channel about which no request is under way is served by the web application of its
\* plugin, but for the exceptions that the code makes (Plugin.update_plugins,
\* instantiate_plugins, register_plugin) and for those that a plugin raises while it is
\* activated or given a route: a request that changes what the route should be is about the
\* channel, or its plugin, until it has made the route or failed.
THEOREM RoutesAreOfPlugins == PluginsSpec => []RoutesFollowPlugins
  <1>1. PluginsInv => RoutesFollowPlugins
    BY DEF PluginsInv, RouteInv, Wanted, Routing, RoutesFollowPlugins
  <1> QED BY <1>1, PluginsInvInit, PluginsStep, PTL DEF PluginsSpec

-----------------------------------------------------------------------------
(* The processors of web applications: once each, and in order. *)

ProcessorNames == {Given[i] : i \in DOMAIN Given}
Steps == {"idle", "get", "make", "register", "apply", "mount", "add"}

ProcessorsTypeOK ==
    /\ list \in [Apps -> Seq([name : ProcessorNames, applied : BOOLEAN])]
    /\ running \in [Apps -> Seq(ProcessorNames)]
    /\ dispatching \in BOOLEAN
    /\ instance \in Instances \cup {NoInstance}
    /\ appset \subseteq Instances
    /\ mounted \in [Routes -> Instances \cup {NoInstance}]
    /\ at \in [Mounters -> Steps]
    /\ job \in [Mounters -> [route : Routes \cup {NoInstance}, app : Instances \cup {NoInstance},
                             next : Nat]]

\* The processors of the core are those of main.
CoreInv ==
    /\ Len(list[Core]) = Len(Given) /\ \A i \in DOMAIN Given : list[Core][i].name = Given[i]
    /\ running[Core] = IF dispatching THEN Given ELSE <<>>

\* A thread has an instance from the step that reads it on.
HasInstance(t) ==
    /\ at[t] = "get" => instance # NoInstance
    /\ at[t] \in {"get", "make"} => job[t].next = 1
    /\ job[t].app = NoInstance <=> at[t] \in {"idle", "get", "make"}

\* What is registered for an instance.
Registry(a) == [i \in DOMAIN list[a] |-> list[a][i].name]

\* How far a thread is with the processors of its instance, when it is alone.
Progress(t) ==
    LET a == job[t].app  n == job[t].next IN
    /\ at[t] = "register" =>
           /\ n \in 1 .. Len(Given) + 1 /\ Selected(Registry(a), n - 1)
           /\ \A i \in DOMAIN list[a] : ~list[a][i].applied
           /\ running[a] = <<>>
    /\ at[t] = "apply" =>
           /\ n \in 1 .. Len(list[a]) + 1 /\ Selected(Registry(a), Len(Given))
           /\ \A i \in DOMAIN list[a] : list[a][i].applied <=> i < n
           /\ Len(running[a]) = n - 1 /\ \A i \in 1 .. n - 1 : running[a][i] = list[a][i].name
    /\ at[t] \in {"mount", "add"} => Selected(running[a], Len(Given))

InstanceInv(a) ==
    /\ a \in appset =>
           /\ Selected(running[a], Len(Given))
           /\ \A t \in Mounters : job[t].app = a => at[t] \in {"mount", "add"}
    /\ a \notin appset =>
           /\ \A t, u \in Mounters : job[t].app = a /\ job[u].app = a => t = u
           /\ \A t \in Mounters : job[t].app = a => Progress(t)
           /\ (\A t \in Mounters : job[t].app # a) => list[a] = <<>> /\ running[a] = <<>>

\* A route leads to an instance that is remembered, or that is about to be.
MountedInv ==
    \A r \in Routes : mounted[r] \in {NoInstance} \cup appset
                      \/ \E t \in Mounters : at[t] = "add" /\ job[t].app = mounted[r]

GuardInv ==
    /\ ProcessorsTypeOK /\ CoreInv /\ \A t \in Mounters : HasInstance(t)
    /\ \A a \in Instances \ together : InstanceInv(a)
    /\ MountedInv

LEMMA GivenFacts ==
    /\ Len(Given) \in Nat /\ DOMAIN Given = 1 .. Len(Given)
    /\ \A i \in 1 .. Len(Given) : Given[i] \in ProcessorNames
    /\ Given \in Seq(ProcessorNames)
  <1>1. Given \in Seq(ProcessorNames)
    BY ProcessorsAssumption DEF ProcessorNames
  <1> QED BY <1>1

LEMMA ElementIn ==
    ASSUME NEW S, NEW s \in Seq(S), NEW i \in 1 .. Len(s)
    PROVE  s[i] \in S
  OBVIOUS

LEMMA FunctionIsSeq ==
    ASSUME NEW S, NEW n \in Nat, NEW f \in [1 .. n -> S]
    PROVE  f \in Seq(S) /\ Len(f) = n
  OBVIOUS

LEMMA SelectedNone == Selected(<<>>, 0)
  <1> DEFINE place == [i \in DOMAIN <<>> |-> 0]
  <1>1. DOMAIN <<>> = {} /\ 1 .. 0 = {}
    OBVIOUS
  <1>2. place \in [DOMAIN <<>> -> 1 .. 0]
    BY <1>1
  <1>3. /\ \A i, j \in DOMAIN <<>> : i < j => place[i] < place[j]
        /\ \A i \in DOMAIN <<>> : <<>>[i] = Given[place[i]]
        /\ \A k \in 1 .. 0 : Given[k] \in Cascading <=> \E i \in DOMAIN <<>> : place[i] = k
    BY <1>1
  <1> HIDE DEF place
  <1> QED BY <1>2, <1>3, Zenon DEF Selected

\* A processor that does not cascade is passed over,
LEMMA SelectedSkip ==
    ASSUME NEW S, NEW s \in Seq(S), NEW n \in Nat, Selected(s, n), Given[n + 1] \notin Cascading
    PROVE  Selected(s, n + 1)
  <1>1. PICK place \in [DOMAIN s -> 1 .. n] :
            /\ \A i, j \in DOMAIN s : i < j => place[i] < place[j]
            /\ \A i \in DOMAIN s : s[i] = Given[place[i]]
            /\ \A k \in 1 .. n : Given[k] \in Cascading <=> \E i \in DOMAIN s : place[i] = k
    BY DEF Selected
  <1>2. place \in [DOMAIN s -> 1 .. n + 1]
    OBVIOUS
  <1>3. ASSUME NEW k \in 1 .. n + 1
        PROVE  Given[k] \in Cascading <=> \E i \in DOMAIN s : place[i] = k
    <2>1. CASE k \in 1 .. n
      BY <2>1, <1>1
    <2>2. CASE k = n + 1
      BY <2>2
    <2> QED BY <2>1, <2>2
  <1> QED BY <1>1, <1>2, <1>3 DEF Selected

\* and one that does is added at the end.
LEMMA SelectedAdd ==
    ASSUME NEW S, NEW s \in Seq(S), NEW n \in Nat, Selected(s, n), Given[n + 1] \in Cascading,
           NEW r \in Seq(S), Len(r) = Len(s) + 1,
           \A i \in 1 .. Len(s) : r[i] = s[i], r[Len(s) + 1] = Given[n + 1]
    PROVE  Selected(r, n + 1)
  <1>1. PICK place \in [DOMAIN s -> 1 .. n] :
            /\ \A i, j \in DOMAIN s : i < j => place[i] < place[j]
            /\ \A i \in DOMAIN s : s[i] = Given[place[i]]
            /\ \A k \in 1 .. n : Given[k] \in Cascading <=> \E i \in DOMAIN s : place[i] = k
    BY DEF Selected
  <1>2. DOMAIN s = 1 .. Len(s) /\ DOMAIN r = 1 .. Len(s) + 1 /\ Len(s) \in Nat
    OBVIOUS
  <1> DEFINE more == [i \in DOMAIN r |-> IF i \in DOMAIN s THEN place[i] ELSE n + 1]
  <1>3. /\ \A i \in DOMAIN s : more[i] = place[i] /\ more[i] \in 1 .. n
        /\ more[Len(s) + 1] = n + 1
        /\ more \in [DOMAIN r -> 1 .. n + 1]
    BY <1>2
  <1> HIDE DEF more
  <1>4. ASSUME NEW i \in DOMAIN r, NEW j \in DOMAIN r, i < j PROVE more[i] < more[j]
    <2>1. CASE j \in DOMAIN s
      BY <2>1, <1>1, <1>2, <1>3, <1>4
    <2>2. CASE j = Len(s) + 1
      BY <2>2, <1>2, <1>3, <1>4
    <2> QED BY <2>1, <2>2, <1>2
  <1>5. ASSUME NEW i \in DOMAIN r PROVE r[i] = Given[more[i]]
    BY <1>1, <1>2, <1>3
  <1>6. ASSUME NEW k \in 1 .. n + 1
        PROVE  Given[k] \in Cascading <=> \E i \in DOMAIN r : more[i] = k
    <2>1. CASE k \in 1 .. n
      <3>1. ASSUME NEW i \in DOMAIN r, more[i] = k PROVE i \in DOMAIN s /\ place[i] = k
        BY <2>1, <3>1, <1>2, <1>3
      <3>2. ASSUME NEW i \in DOMAIN s, place[i] = k PROVE i \in DOMAIN r /\ more[i] = k
        BY <3>2, <1>2, <1>3
      <3> QED BY <2>1, <3>1, <3>2, <1>1
    <2>2. CASE k = n + 1
      BY <2>2, <1>2, <1>3
    <2> QED BY <2>1, <2>2
  <1> QED BY <1>3, <1>4, <1>5, <1>6 DEF Selected

LEMMA GuardInvInit == ProcessorsInit => GuardInv
  <1> SUFFICES ASSUME ProcessorsInit PROVE GuardInv
    OBVIOUS
  <1>1. /\ list[Core] = [i \in DOMAIN Given |-> Registered(Given[i])]
        /\ \A a \in Instances : list[a] = <<>>
    BY ProcessorsAssumption DEF ProcessorsInit, Apps
  <1>2. /\ list[Core] \in Seq([name : ProcessorNames, applied : BOOLEAN])
        /\ Len(list[Core]) = Len(Given) /\ \A i \in DOMAIN Given : list[Core][i].name = Given[i]
    <2>1. \A i \in 1 .. Len(Given) :
              Registered(Given[i]) \in [name : ProcessorNames, applied : BOOLEAN]
      BY GivenFacts DEF Registered
    <2>2. /\ [i \in 1 .. Len(Given) |-> Registered(Given[i])]
                \in Seq([name : ProcessorNames, applied : BOOLEAN])
          /\ Len([i \in 1 .. Len(Given) |-> Registered(Given[i])]) = Len(Given)
      BY <2>1, GivenFacts
    <2>3. list[Core] = [i \in 1 .. Len(Given) |-> Registered(Given[i])]
      BY <1>1, GivenFacts
    <2>4. \A i \in 1 .. Len(Given) : list[Core][i] = Registered(Given[i])
      BY <2>3
    <2>5. ASSUME NEW i \in DOMAIN Given PROVE list[Core][i].name = Given[i]
      <3>1. list[Core][i] = Registered(Given[i])
        BY <2>4, GivenFacts
      <3>2. Registered(Given[i]).name = Given[i]
        BY DEF Registered
      <3> QED BY <3>1, <3>2
    <2>6. /\ list[Core] \in Seq([name : ProcessorNames, applied : BOOLEAN])
          /\ Len(list[Core]) = Len(Given)
      BY <2>2, <2>3, Zenon
    <2> QED BY <2>5, <2>6
  <1>3. list \in [Apps -> Seq([name : ProcessorNames, applied : BOOLEAN])]
    <2>1. \A a \in Apps : list[a] \in Seq([name : ProcessorNames, applied : BOOLEAN])
      <3>1. \A a \in Instances : list[a] \in Seq([name : ProcessorNames, applied : BOOLEAN])
        <4>1. \A S : <<>> \in Seq(S)
          OBVIOUS
        <4> QED BY <4>1, <1>1, Zenon
      <3> QED BY <3>1, <1>2 DEF Apps
    <2>2. list = [a \in Apps |-> list[a]]
      BY Zenon DEF ProcessorsInit
    <2> QED BY <2>1, <2>2
  <1>4. ProcessorsTypeOK
    <2>1. NoJob \in [route : Routes \cup {NoInstance}, app : Instances \cup {NoInstance}, next : Nat]
      BY DEF NoJob
    <2>2. /\ running \in [Apps -> Seq(ProcessorNames)] /\ dispatching \in BOOLEAN
          /\ instance \in Instances \cup {NoInstance} /\ appset \subseteq Instances
          /\ mounted \in [Routes -> Instances \cup {NoInstance}]
          /\ at \in [Mounters -> Steps]
      <3>1. \A S : <<>> \in Seq(S)
        OBVIOUS
      <3>2. running = [a \in Apps |-> <<>>] /\ dispatching = FALSE
        BY DEF ProcessorsInit
      <3>3. running \in [Apps -> Seq(ProcessorNames)]
        BY <3>1, <3>2
      <3> QED BY <3>2, <3>3 DEF ProcessorsInit, Steps
    <2>3. job \in [Mounters -> [route : Routes \cup {NoInstance}, app : Instances \cup {NoInstance},
                                next : Nat]]
      BY <2>1 DEF ProcessorsInit
    <2> QED BY <1>3, <2>2, <2>3 DEF ProcessorsTypeOK
  <1>5. CoreInv /\ \A t \in Mounters : HasInstance(t)
    BY <1>2 DEF CoreInv, HasInstance, ProcessorsInit, NoJob, Apps
  <1>6. ASSUME NEW a \in Instances PROVE InstanceInv(a)
    <2>1. a # NoInstance /\ a \in Apps
      BY ProcessorsAssumption DEF Apps
    <2>2. list[a] = <<>> /\ running[a] = <<>>
      <3>1. running[a] = <<>>
        BY <2>1 DEF ProcessorsInit
      <3> QED BY <3>1, <1>1
    <2>3. \A t \in Mounters : job[t].app # a
      BY <2>1 DEF ProcessorsInit, NoJob
    <2>4. a \notin appset
      BY DEF ProcessorsInit
    <2> QED BY <2>2, <2>3, <2>4 DEF InstanceInv
  <1>7. MountedInv
    BY DEF MountedInv, ProcessorsInit
  <1> QED BY <1>4, <1>5, <1>6, <1>7 DEF GuardInv

-----------------------------------------------------------------------------

\* A step that is not about the instance a.
LEMMA InstanceKept ==
    ASSUME NEW a \in Instances, InstanceInv(a),
           list'[a] = list[a], running'[a] = running[a], a \in appset' <=> a \in appset,
           \A u \in Mounters : /\ job'[u].app = a <=> job[u].app = a
                               /\ job[u].app = a => at'[u] = at[u] /\ job'[u].next = job[u].next
    PROVE  InstanceInv(a)'
  <1>1. Registry(a)' = Registry(a)
    BY DEF Registry
  <1>2. ASSUME NEW t \in Mounters, job[t].app = a, Progress(t) PROVE Progress(t)'
    <2>1. job'[t].app = a /\ at'[t] = at[t] /\ job'[t].next = job[t].next
      BY <1>2
    <2> QED BY <1>1, <1>2, <2>1 DEF Progress, Registry
  <1>3. CASE a \in appset
    BY <1>3 DEF InstanceInv
  <1>4. CASE a \notin appset
    BY <1>2, <1>4 DEF InstanceInv
  <1> QED BY <1>3, <1>4

\* A step of t, that is about the instance A or about none.
OnlyAbout(t, A) ==
    /\ \A u \in Mounters \ {t} : at'[u] = at[u] /\ job'[u] = job[u]
    /\ instance # NoInstance => instance' # NoInstance
    /\ together \subseteq together'
    /\ \A a \in Instances \ {A} :
           /\ list'[a] = list[a] /\ running'[a] = running[a]
           /\ a \in appset' <=> a \in appset
           /\ job[t].app # a /\ job'[t].app # a

LEMMA StepGuards ==
    ASSUME GuardInv, NEW t \in Mounters, NEW A, OnlyAbout(t, A),
           ProcessorsTypeOK', CoreInv', HasInstance(t)',
           A \in Instances \ together' => InstanceInv(A)', MountedInv'
    PROVE  GuardInv'
  <1>1. ASSUME NEW u \in Mounters \ {t} PROVE HasInstance(u)'
    BY DEF GuardInv, HasInstance, OnlyAbout
  <1>2. ASSUME NEW a \in Instances \ together' PROVE InstanceInv(a)'
    <2>1. CASE a = A
      BY <2>1, <1>2
    <2>2. CASE a # A
      <3>1. InstanceInv(a)
        BY <1>2 DEF GuardInv, OnlyAbout
      <3>2. /\ list'[a] = list[a] /\ running'[a] = running[a] /\ (a \in appset' <=> a \in appset)
            /\ \A u \in Mounters :
                   /\ job'[u].app = a <=> job[u].app = a
                   /\ job[u].app = a => at'[u] = at[u] /\ job'[u].next = job[u].next
        BY <2>2 DEF OnlyAbout
      <3> QED BY <3>1, <3>2, InstanceKept
    <2> QED BY <2>1, <2>2
  <1> QED BY <1>1, <1>2 DEF GuardInv

\* Routes are not touched, and no thread that has mounted one is.
LEMMA MountedKept ==
    ASSUME MountedInv, NEW t \in Mounters, at[t] # "add", mounted' = mounted, appset' = appset,
           \A u \in Mounters \ {t} : at'[u] = at[u] /\ job'[u] = job[u]
    PROVE  MountedInv'
  <1> SUFFICES ASSUME NEW r \in Routes
               PROVE  \/ mounted'[r] \in {NoInstance} \cup appset'
                      \/ \E u \in Mounters : at'[u] = "add" /\ job'[u].app = mounted'[r]
    BY DEF MountedInv
  <1>1. CASE mounted[r] \in {NoInstance} \cup appset
    BY <1>1
  <1>2. CASE \E u \in Mounters : at[u] = "add" /\ job[u].app = mounted[r]
    <2>1. PICK u \in Mounters : at[u] = "add" /\ job[u].app = mounted[r]
      BY <1>2
    <2>2. u \in Mounters \ {t}
      BY <2>1
    <2> QED BY <2>1, <2>2
  <1> QED BY <1>1, <1>2 DEF MountedInv

LEMMA InstanceFacts ==
    /\ NoInstance \notin Instances /\ Core \notin Instances /\ Core \in Apps
    /\ Instances \subseteq Apps /\ NoInstance # Core
  BY ProcessorsAssumption DEF Apps

LEMMA DispatchGuards ==
    ASSUME GuardInv, Dispatch
    PROVE  GuardInv'
  <1>1. ProcessorsTypeOK /\ CoreInv
    BY DEF GuardInv
  <1> DEFINE L == list[Core]
             names == [i \in DOMAIN L |-> L[i].name]
             new == [i \in DOMAIN L |-> [L[i] EXCEPT !.applied = TRUE]]
  <1>2. /\ L \in Seq([name : ProcessorNames, applied : BOOLEAN]) /\ running[Core] = <<>>
        /\ Len(L) = Len(Given) /\ \A i \in DOMAIN Given : L[i].name = Given[i]
    BY <1>1, InstanceFacts DEF ProcessorsTypeOK, CoreInv, Dispatch
  <1>3. DOMAIN L = 1 .. Len(L) /\ DOMAIN L = DOMAIN Given /\ Len(L) \in Nat
    BY <1>2, GivenFacts
  <1>4. names = Given
    BY <1>2, <1>3, GivenFacts
  <1>5. ASSUME NEW i \in 1 .. Len(L)
        PROVE  /\ [L[i] EXCEPT !.applied = TRUE] \in [name : ProcessorNames, applied : BOOLEAN]
               /\ [L[i] EXCEPT !.applied = TRUE].name = L[i].name
    <2>1. L[i] \in [name : ProcessorNames, applied : BOOLEAN]
      BY <1>2, ElementIn
    <2>2. \A x \in [name : ProcessorNames, applied : BOOLEAN] :
              /\ [x EXCEPT !.applied = TRUE] \in [name : ProcessorNames, applied : BOOLEAN]
              /\ [x EXCEPT !.applied = TRUE].name = x.name
      OBVIOUS
    <2> QED BY <2>1, <2>2
  <1>6. /\ new \in Seq([name : ProcessorNames, applied : BOOLEAN]) /\ Len(new) = Len(Given)
        /\ \A i \in DOMAIN Given : new[i].name = Given[i]
    <2>1. \A i \in 1 .. Len(L) : new[i] = [L[i] EXCEPT !.applied = TRUE]
      BY <1>3
    <2>2. new \in [1 .. Len(L) -> [name : ProcessorNames, applied : BOOLEAN]]
      BY <1>3, <1>5
    <2> HIDE DEF new
    <2>3. new \in Seq([name : ProcessorNames, applied : BOOLEAN]) /\ Len(new) = Len(L)
      BY <2>2, <1>3, FunctionIsSeq
    <2> QED BY <2>1, <2>3, <1>2, <1>3, <1>5
  <1>7. /\ running' = [running EXCEPT ![Core] = <<>> \o Given]
        /\ list' = [list EXCEPT ![Core] = new]
        /\ dispatching' = TRUE
        /\ UNCHANGED <<instance, appset, mounted, at, job, together>>
    BY <1>2, <1>4 DEF Dispatch, mounterVars
  <1>8. <<>> \o Given = Given
    BY GivenFacts
  <1> HIDE DEF names, new
  <1>9. /\ list'[Core] = new /\ running'[Core] = Given
        /\ \A a \in Instances : list'[a] = list[a] /\ running'[a] = running[a]
    BY <1>1, <1>7, <1>8, InstanceFacts DEF ProcessorsTypeOK
  <1>10. ProcessorsTypeOK'
    <2>1. list' \in [Apps -> Seq([name : ProcessorNames, applied : BOOLEAN])]
      BY <1>1, <1>6, <1>7 DEF ProcessorsTypeOK
    <2>2. running' \in [Apps -> Seq(ProcessorNames)]
      BY <1>1, <1>7, <1>8, GivenFacts DEF ProcessorsTypeOK
    <2> QED BY <1>1, <1>7, <2>1, <2>2 DEF ProcessorsTypeOK
  <1>11. CoreInv'
    BY <1>6, <1>7, <1>9 DEF CoreInv
  <1>12. ASSUME NEW t \in Mounters PROVE HasInstance(t)'
    BY <1>7 DEF GuardInv, HasInstance
  <1>13. ASSUME NEW a \in Instances \ together' PROVE InstanceInv(a)'
    <2>1. InstanceInv(a)
      BY <1>7 DEF GuardInv
    <2> QED BY <2>1, <1>7, <1>9, InstanceKept
  <1>14. MountedInv'
    BY <1>7 DEF GuardInv, MountedInv
  <1> QED BY <1>10, <1>11, <1>12, <1>13, <1>14 DEF GuardInv

LEMMA MapMakeGuards ==
    ASSUME GuardInv, NEW t \in Mounters,
           (\E r \in Routes : MapRoute(t, r)) \/ (\E a \in Instances : Make(t, a))
    PROVE  GuardInv'
  <1>1. ProcessorsTypeOK /\ CoreInv /\ HasInstance(t) /\ MountedInv
    BY DEF GuardInv
  <1>2. CASE \E r \in Routes : MapRoute(t, r)
    <2>1. PICK r \in Routes : MapRoute(t, r)
      BY <1>2
    <2> DEFINE to == IF instance = NoInstance THEN "make" ELSE "get"
    <2>2. /\ at[t] = "idle" /\ at' = [at EXCEPT ![t] = to]
          /\ job' = [job EXCEPT ![t] = [route |-> r, app |-> NoInstance, next |-> 1]]
          /\ UNCHANGED <<list, running, dispatching, instance, appset, mounted, together>>
      <3>1. [NoJob EXCEPT !.route = r] = [route |-> r, app |-> NoInstance, next |-> 1]
        BY DEF NoJob
      <3> QED BY <3>1, <2>1 DEF MapRoute, Moves
    <2>3. to \in Steps
      BY DEF Steps
    <2>4. /\ job'[t].app = NoInstance /\ job[t].app = NoInstance /\ job'[t].next = 1 /\ at'[t] = to
          /\ \A u \in Mounters \ {t} : at'[u] = at[u] /\ job'[u] = job[u]
      BY <1>1, <2>2 DEF ProcessorsTypeOK, HasInstance
    <2> HIDE DEF to
    <2>5. ProcessorsTypeOK'
      BY <1>1, <2>2, <2>3 DEF ProcessorsTypeOK
    <2>6. OnlyAbout(t, NoInstance)
      BY <2>2, <2>4, InstanceFacts DEF OnlyAbout
    <2>7. HasInstance(t)'
      BY <2>2, <2>4 DEF HasInstance, to
    <2>8. CoreInv' /\ MountedInv'
      BY <1>1, <2>2, <2>4, MountedKept DEF CoreInv
    <2> QED BY <2>5, <2>6, <2>7, <2>8, InstanceFacts, StepGuards
  <1>3. CASE \E a \in Instances : Make(t, a)
    <2>1. PICK a \in Instances : Make(t, a)
      BY <1>3
    <2>2. /\ at[t] = "make" /\ at' = [at EXCEPT ![t] = "get"] /\ instance' = a
          /\ UNCHANGED <<list, running, dispatching, appset, mounted, job, together>>
      BY <2>1 DEF Make, Moves
    <2>3. /\ job'[t].app = NoInstance /\ job[t].app = NoInstance /\ at'[t] = "get"
          /\ \A u \in Mounters \ {t} : at'[u] = at[u] /\ job'[u] = job[u]
      BY <1>1, <2>2 DEF ProcessorsTypeOK, HasInstance
    <2>4. ProcessorsTypeOK'
      BY <1>1, <2>2 DEF ProcessorsTypeOK, Steps
    <2>5. OnlyAbout(t, NoInstance)
      BY <2>2, <2>3, InstanceFacts DEF OnlyAbout
    <2>6. HasInstance(t)'
      BY <1>1, <2>2, <2>3, InstanceFacts DEF HasInstance
    <2>7. CoreInv' /\ MountedInv'
      BY <1>1, <2>2, <2>3, MountedKept DEF CoreInv
    <2> QED BY <2>4, <2>5, <2>6, <2>7, InstanceFacts, StepGuards
  <1> QED BY <1>2, <1>3

\* A thread that has its instance, alone.
LEMMA AloneFacts ==
    ASSUME GuardInv, NEW t \in Mounters, at[t] \in {"register", "apply", "mount", "add"}
    PROVE  LET a == job[t].app IN
           /\ a \in Instances
           /\ a \notin together => InstanceInv(a)
           /\ a \notin together /\ a \notin appset =>
                  Progress(t) /\ \A u \in Mounters : job[u].app = a => u = t
           /\ a \notin together /\ a \in appset => at[t] \in {"mount", "add"}
  <1>1. job[t].app \in Instances
    BY DEF GuardInv, ProcessorsTypeOK, HasInstance
  <1>2. job[t].app \notin together => InstanceInv(job[t].app)
    BY <1>1 DEF GuardInv
  <1> QED BY <1>1, <1>2 DEF InstanceInv

LEMMA EnterGuards ==
    ASSUME GuardInv, NEW t \in Mounters, Enter(t)
    PROVE  GuardInv'
  <1>1. ProcessorsTypeOK /\ CoreInv /\ HasInstance(t) /\ MountedInv
    BY DEF GuardInv
  <1>2. PICK a, to : a = instance /\ to = IF a \in appset THEN "mount" ELSE "register"
    OBVIOUS
  <1>3. /\ at[t] = "get" /\ at' = [at EXCEPT ![t] = to] /\ job' = [job EXCEPT ![t].app = a]
        /\ UNCHANGED <<list, running, dispatching, instance, appset, mounted>>
    BY <1>2 DEF Enter, Moves
  <1>4. /\ a \in Instances /\ job[t].app = NoInstance /\ job[t].next = 1
        /\ to \in Steps \ {"idle", "get", "make"}
    BY <1>1, <1>2, <1>3 DEF ProcessorsTypeOK, HasInstance, Steps
  <1>5. /\ together \subseteq together'
        /\ a \in together' \/ a \in appset \/ \A u \in Mounters \ {t} : job[u].app # a
    BY <1>2 DEF Enter, Together
  <1>6. job' \in [Mounters -> [route : Routes \cup {NoInstance}, app : Instances \cup {NoInstance},
                               next : Nat]]
    <2> DEFINE J == [route : Routes \cup {NoInstance}, app : Instances \cup {NoInstance}, next : Nat]
    <2>1. job[t] \in J /\ [job[t] EXCEPT !.app = a] \in J
      BY <1>1, <1>4 DEF ProcessorsTypeOK
    <2>2. job' = [job EXCEPT ![t] = [job[t] EXCEPT !.app = a]]
      BY <1>3
    <2> HIDE DEF J
    <2>3. job \in [Mounters -> J]
      BY <1>1 DEF ProcessorsTypeOK, J
    <2>4. job' \in [Mounters -> J]
      BY <2>1, <2>2, <2>3
    <2> QED BY <2>4 DEF J
  <1>7. /\ job'[t].app = a /\ job'[t].next = 1 /\ at'[t] = to
        /\ \A u \in Mounters \ {t} : at'[u] = at[u] /\ job'[u] = job[u]
    BY <1>1, <1>3, <1>4 DEF ProcessorsTypeOK
  <1>8. ProcessorsTypeOK'
    BY <1>1, <1>3, <1>4, <1>6 DEF ProcessorsTypeOK
  <1>9. HasInstance(t)' /\ OnlyAbout(t, a)
    BY <1>3, <1>4, <1>5, <1>7, InstanceFacts DEF HasInstance, OnlyAbout
  <1>10. CoreInv' /\ MountedInv'
    BY <1>1, <1>3, <1>7, MountedKept DEF CoreInv
  <1>11. ASSUME a \notin together' PROVE InstanceInv(a)'
    <2>1. InstanceInv(a)
      BY <1>4, <1>5, <1>11 DEF GuardInv
    <2>2. CASE a \in appset
      BY <2>1, <2>2, <1>2, <1>3, <1>7 DEF InstanceInv
    <2>3. CASE a \notin appset
      <3>1. \A u \in Mounters : job[u].app # a
        BY <2>3, <1>4, <1>5, <1>11, InstanceFacts
      <3>2. list[a] = <<>> /\ running[a] = <<>>
        BY <2>1, <2>3, <3>1 DEF InstanceInv
      <3>3. Registry(a)' = <<>>
        BY <3>2, <1>3 DEF Registry
      <3>4. /\ DOMAIN list'[a] = {} /\ 1 \in 1 .. Len(Given) + 1 /\ at'[t] = "register"
        BY <3>2, <1>2, <1>3, <1>7, <2>3, GivenFacts
      <3>5. Selected(Registry(a)', 0)
        BY <3>3, SelectedNone
      <3>6. Progress(t)'
        BY <3>2, <3>4, <3>5, <1>3, <1>7 DEF Progress, Registry
      <3>7. \A u \in Mounters : job'[u].app = a => u = t
        BY <3>1, <1>7
      <3> QED BY <3>6, <3>7, <1>3, <1>7, <2>3 DEF InstanceInv
    <2> QED BY <2>2, <2>3
  <1> QED BY <1>8, <1>9, <1>10, <1>11, StepGuards

\* The names of a list of processors.
LEMMA NamesOf ==
    ASSUME NEW L \in Seq([name : ProcessorNames, applied : BOOLEAN]),
           NEW q, q = [i \in DOMAIN L |-> L[i].name]
    PROVE  /\ Len(L) \in Nat /\ DOMAIN L = 1 .. Len(L)
           /\ q \in Seq(ProcessorNames) /\ Len(q) = Len(L)
           /\ \A i \in 1 .. Len(L) : q[i] = L[i].name /\ L[i].name \in ProcessorNames
  <1>1. Len(L) \in Nat /\ DOMAIN L = 1 .. Len(L)
    OBVIOUS
  <1>2. \A i \in 1 .. Len(L) : L[i] \in [name : ProcessorNames, applied : BOOLEAN]
    BY ElementIn
  <1>3. \A i \in 1 .. Len(L) : L[i].name \in ProcessorNames
    BY <1>2
  <1>4. q \in [1 .. Len(L) -> ProcessorNames]
    BY <1>1, <1>3
  <1>5. q \in Seq(ProcessorNames) /\ Len(q) = Len(L)
    BY <1>1, <1>4, FunctionIsSeq
  <1> QED BY <1>1, <1>3, <1>5

\* What is registered for an instance is a sequence of processors.
LEMMA RegistryIsSeq ==
    ASSUME ProcessorsTypeOK, NEW a \in Apps
    PROVE  /\ list[a] \in Seq([name : ProcessorNames, applied : BOOLEAN])
           /\ Len(list[a]) \in Nat /\ DOMAIN list[a] = 1 .. Len(list[a])
           /\ Registry(a) \in Seq(ProcessorNames) /\ Len(Registry(a)) = Len(list[a])
           /\ \A i \in 1 .. Len(list[a]) : Registry(a)[i] = list[a][i].name
                                           /\ list[a][i].name \in ProcessorNames
  <1>1. PICK L, q : L = list[a] /\ q = Registry(a)
    OBVIOUS
  <1>2. L \in Seq([name : ProcessorNames, applied : BOOLEAN])
    BY <1>1 DEF ProcessorsTypeOK
  <1>3. q = [i \in DOMAIN L |-> L[i].name]
    BY <1>1 DEF Registry
  <1>4. /\ Len(L) \in Nat /\ DOMAIN L = 1 .. Len(L)
        /\ q \in Seq(ProcessorNames) /\ Len(q) = Len(L)
        /\ \A i \in 1 .. Len(L) : q[i] = L[i].name /\ L[i].name \in ProcessorNames
    BY <1>2, <1>3, NamesOf
  <1> QED BY <1>1, <1>2, <1>4

\* The counter of a thread is set.
LEMMA NextIsSet ==
    ASSUME ProcessorsTypeOK, NEW t \in Mounters, NEW n \in Nat,
           job' = [job EXCEPT ![t].next = n]
    PROVE  /\ job' \in [Mounters -> [route : Routes \cup {NoInstance},
                                     app : Instances \cup {NoInstance}, next : Nat]]
           /\ job'[t].app = job[t].app /\ job'[t].route = job[t].route /\ job'[t].next = n
           /\ \A u \in Mounters \ {t} : job'[u] = job[u]
  <1> DEFINE J == [route : Routes \cup {NoInstance}, app : Instances \cup {NoInstance}, next : Nat]
  <1>1. job \in [Mounters -> J] /\ job[t] \in J
    BY DEF ProcessorsTypeOK
  <1>2. \A j \in J : /\ [j EXCEPT !.next = n] \in J /\ [j EXCEPT !.next = n].app = j.app
                     /\ [j EXCEPT !.next = n].route = j.route /\ [j EXCEPT !.next = n].next = n
    OBVIOUS
  <1>3. job' = [job EXCEPT ![t] = [job[t] EXCEPT !.next = n]]
    OBVIOUS
  <1> HIDE DEF J
  <1>4. /\ job' \in [Mounters -> J] /\ job'[t] = [job[t] EXCEPT !.next = n]
        /\ \A u \in Mounters \ {t} : job'[u] = job[u]
    BY <1>1, <1>2, <1>3
  <1>5. job' \in [Mounters -> [route : Routes \cup {NoInstance},
                              app : Instances \cup {NoInstance}, next : Nat]]
    BY <1>4 DEF J
  <1> QED BY <1>1, <1>2, <1>4, <1>5

LEMMA RegisterGuards ==
    ASSUME GuardInv, NEW t \in Mounters, Register(t)
    PROVE  GuardInv'
  <1>1. ProcessorsTypeOK /\ CoreInv /\ HasInstance(t) /\ MountedInv
    BY DEF GuardInv
  <1>2. PICK a, n, p, e : /\ a = job[t].app /\ n = job[t].next /\ p = Given[n]
                          /\ e = [name |-> p, applied |-> FALSE]
    OBVIOUS
  <1>3. /\ at[t] = "register" /\ n \in DOMAIN list[Core]
        /\ UNCHANGED <<running, dispatching, instance, appset, mounted, at, together>>
        /\ job' = [job EXCEPT ![t].next = n + 1]
    BY <1>2 DEF Register, Advance
  <1>4. a \in Instances /\ a \in Apps /\ a # Core /\ a # NoInstance
    BY <1>2, <1>3, AloneFacts, InstanceFacts
  <1>5. n \in 1 .. Len(Given) /\ n \in Nat /\ list[Core][n].name = p /\ p \in ProcessorNames
    BY <1>1, <1>2, <1>3, GivenFacts, InstanceFacts, RegistryIsSeq DEF CoreInv
  <1>6. list' = IF p \in Cascading THEN [list EXCEPT ![a] = Append(list[a], e)] ELSE list
    BY <1>2, <1>5 DEF Register, Registered
  <1>7. /\ job' \in [Mounters -> [route : Routes \cup {NoInstance},
                                  app : Instances \cup {NoInstance}, next : Nat]]
        /\ job'[t].app = a /\ job'[t].next = n + 1
        /\ \A u \in Mounters \ {t} : job'[u] = job[u]
    <2>1. PICK m \in Nat : m = n + 1
      BY <1>5
    <2>2. job' = [job EXCEPT ![t].next = m]
      BY <1>3, <2>1
    <2> QED BY <1>1, <1>2, <2>1, <2>2, NextIsSet
  <1>8. /\ job'[t].app = a /\ job'[t].next = n + 1
        /\ \A u \in Mounters \ {t} : at'[u] = at[u] /\ job'[u] = job[u]
    BY <1>3, <1>7
  <1>9. /\ e \in [name : ProcessorNames, applied : BOOLEAN] /\ e.name = p /\ e.applied = FALSE
        /\ list[a] \in Seq([name : ProcessorNames, applied : BOOLEAN])
    BY <1>1, <1>2, <1>4, <1>5, RegistryIsSeq
  <1>10. list' \in [Apps -> Seq([name : ProcessorNames, applied : BOOLEAN])]
    <2>1. Append(list[a], e) \in Seq([name : ProcessorNames, applied : BOOLEAN])
      BY <1>9
    <2> QED BY <1>1, <1>6, <2>1 DEF ProcessorsTypeOK
  <1>11. ProcessorsTypeOK'
    BY <1>1, <1>3, <1>7, <1>10 DEF ProcessorsTypeOK
  <1>12. \A b \in Apps \ {a} : list'[b] = list[b]
    BY <1>1, <1>6 DEF ProcessorsTypeOK
  <1>13. HasInstance(t)' /\ OnlyAbout(t, a)
    BY <1>2, <1>3, <1>4, <1>8, <1>12, InstanceFacts DEF HasInstance, OnlyAbout
  <1>14. CoreInv' /\ MountedInv'
    BY <1>1, <1>3, <1>4, <1>8, <1>12, InstanceFacts, MountedKept DEF CoreInv
  <1>15. ASSUME a \notin together' PROVE InstanceInv(a)'
    <2>1. /\ a \notin appset /\ Progress(t) /\ \A u \in Mounters : job[u].app = a => u = t
      BY <1>2, <1>3, <1>15, AloneFacts
    <2>2. /\ Selected(Registry(a), n - 1) /\ running[a] = <<>>
          /\ \A i \in DOMAIN list[a] : ~list[a][i].applied
      BY <2>1, <1>2, <1>3 DEF Progress
    <2>3. /\ Registry(a) \in Seq(ProcessorNames) /\ Len(Registry(a)) = Len(list[a])
          /\ Len(list[a]) \in Nat /\ DOMAIN list[a] = 1 .. Len(list[a])
          /\ \A i \in 1 .. Len(list[a]) : Registry(a)[i] = list[a][i].name
      BY <1>1, <1>4, RegistryIsSeq
    <2>4. /\ Registry(a)' \in Seq(ProcessorNames) /\ Len(Registry(a)') = Len(list'[a])
          /\ \A i \in 1 .. Len(list'[a]) : Registry(a)'[i] = list'[a][i].name
      <3>1. PICK L, q : L = list'[a] /\ q = Registry(a)'
        OBVIOUS
      <3>2. L \in Seq([name : ProcessorNames, applied : BOOLEAN])
        BY <3>1, <1>4, <1>10
      <3>3. q = [i \in DOMAIN L |-> L[i].name]
        BY <3>1 DEF Registry
      <3>4. /\ q \in Seq(ProcessorNames) /\ Len(q) = Len(L)
            /\ \A i \in 1 .. Len(L) : q[i] = L[i].name
        BY <3>2, <3>3, NamesOf
      <3> QED BY <3>1, <3>4
    <2>5. n - 1 \in Nat /\ (n - 1) + 1 = n
      BY <1>5
    <2>6. /\ Selected(Registry(a)', n)
          /\ \A i \in DOMAIN list'[a] : ~list'[a][i].applied
      <3>1. CASE p \notin Cascading
        <4>1. list'[a] = list[a] /\ Registry(a)' = Registry(a)
          BY <3>1, <1>6 DEF Registry
        <4>2. Given[(n - 1) + 1] \notin Cascading
          BY <3>1, <2>5, <1>2
        <4>3. Selected(Registry(a), (n - 1) + 1)
          BY <4>2, <2>2, <2>3, <2>5, SelectedSkip
        <4> QED BY <4>1, <4>3, <2>2, <2>5
      <3>2. CASE p \in Cascading
        <4>1. list'[a] = Append(list[a], e)
          BY <3>2, <1>1, <1>4, <1>6 DEF ProcessorsTypeOK
        <4>2. /\ DOMAIN list'[a] = 1 .. Len(list[a]) + 1 /\ Len(list'[a]) = Len(list[a]) + 1
              /\ \A i \in 1 .. Len(list[a]) : list'[a][i] = list[a][i]
              /\ list'[a][Len(list[a]) + 1] = e
          BY <4>1, <1>9
        <4>3. PICK s, q : s = Registry(a) /\ q = Registry(a)'
          OBVIOUS
        <4>4. /\ s \in Seq(ProcessorNames) /\ q \in Seq(ProcessorNames) /\ Len(q) = Len(s) + 1
              /\ \A i \in 1 .. Len(s) : q[i] = s[i]
              /\ q[Len(s) + 1] = p
          <5>1. /\ s \in Seq(ProcessorNames) /\ q \in Seq(ProcessorNames)
                /\ Len(s) = Len(list[a]) /\ Len(s) \in Nat /\ Len(q) = Len(s) + 1
            BY <4>2, <4>3, <2>3, <2>4
          <5>2. ASSUME NEW i \in 1 .. Len(s) PROVE q[i] = s[i]
            <6>1. i \in 1 .. Len(list[a]) /\ i \in 1 .. Len(list'[a])
              BY <5>1, <4>2
            <6>2. list'[a][i] = list[a][i]
              BY <6>1, <4>2
            <6>3. q[i] = list'[a][i].name /\ s[i] = list[a][i].name
              BY <6>1, <4>3, <2>3, <2>4
            <6> QED BY <6>2, <6>3
          <5>3. Len(s) + 1 \in 1 .. Len(list'[a]) /\ list'[a][Len(s) + 1] = e
            BY <5>1, <4>2
          <5>4. q[Len(s) + 1] = p
            BY <5>3, <4>3, <2>4, <1>9
          <5> QED BY <5>1, <5>2, <5>4
        <4>5. Given[(n - 1) + 1] \in Cascading /\ p = Given[(n - 1) + 1]
          BY <3>2, <2>5, <1>2
        <4>6. Selected(q, (n - 1) + 1)
          BY <4>3, <4>4, <4>5, <2>2, <2>5, SelectedAdd
        <4>7. \A i \in DOMAIN list'[a] : ~list'[a][i].applied
          BY <4>2, <2>2, <2>3, <1>9
        <4> QED BY <4>3, <4>6, <4>7, <2>5
      <3> QED BY <3>1, <3>2
    <2>7. /\ (n + 1) - 1 = n /\ n + 1 \in 1 .. Len(Given) + 1
          /\ at'[t] = "register" /\ running'[a] = <<>>
      BY <2>2, <1>3, <1>5, GivenFacts
    <2>8. Progress(t)'
      BY <2>6, <2>7, <1>8 DEF Progress, Registry
    <2>9. \A u \in Mounters : job'[u].app = a => u = t
      BY <2>1, <1>8
    <2> QED BY <2>1, <2>8, <2>9, <1>3, <1>8 DEF InstanceInv
  <1> QED BY <1>11, <1>13, <1>14, <1>15, StepGuards

LEMMA AllRegisteredGuards ==
    ASSUME GuardInv, NEW t \in Mounters, AllRegistered(t)
    PROVE  GuardInv'
  <1>1. ProcessorsTypeOK /\ CoreInv /\ HasInstance(t) /\ MountedInv
    BY DEF GuardInv
  <1>2. PICK a, n : a = job[t].app /\ n = job[t].next
    OBVIOUS
  <1>3. /\ at[t] = "register" /\ at' = [at EXCEPT ![t] = "apply"] /\ n \notin DOMAIN list[Core]
        /\ UNCHANGED <<list, running, dispatching, instance, appset, mounted, together>>
        /\ job' = [job EXCEPT ![t].next = 1]
    BY <1>2 DEF AllRegistered, Moves
  <1>4. a \in Instances /\ a \in Apps /\ a # NoInstance /\ DOMAIN list[Core] = 1 .. Len(Given)
    BY <1>1, <1>2, <1>3, AloneFacts, InstanceFacts, RegistryIsSeq DEF CoreInv
  <1>5. /\ job' \in [Mounters -> [route : Routes \cup {NoInstance},
                                  app : Instances \cup {NoInstance}, next : Nat]]
        /\ job'[t].app = a /\ job'[t].next = 1 /\ at'[t] = "apply"
        /\ \A u \in Mounters \ {t} : at'[u] = at[u] /\ job'[u] = job[u]
    <2>1. PICK m \in Nat : m = 1
      OBVIOUS
    <2>2. job' = [job EXCEPT ![t].next = m]
      BY <1>3, <2>1
    <2>3. /\ job' \in [Mounters -> [route : Routes \cup {NoInstance},
                                    app : Instances \cup {NoInstance}, next : Nat]]
          /\ job'[t].app = a /\ job'[t].next = 1
          /\ \A u \in Mounters \ {t} : job'[u] = job[u]
      BY <1>1, <1>2, <2>1, <2>2, NextIsSet
    <2> QED BY <2>3, <1>1, <1>3 DEF ProcessorsTypeOK
  <1>6. ProcessorsTypeOK'
    BY <1>1, <1>3, <1>5 DEF ProcessorsTypeOK, Steps
  <1>7. HasInstance(t)' /\ OnlyAbout(t, a)
    BY <1>2, <1>3, <1>4, <1>5 DEF HasInstance, OnlyAbout
  <1>8. CoreInv' /\ MountedInv'
    BY <1>1, <1>3, <1>5, MountedKept DEF CoreInv
  <1>9. ASSUME a \notin together' PROVE InstanceInv(a)'
    <2>1. /\ a \notin appset /\ Progress(t) /\ \A u \in Mounters : job[u].app = a => u = t
      BY <1>2, <1>3, <1>9, AloneFacts
    <2>2. /\ n \in 1 .. Len(Given) + 1 /\ Selected(Registry(a), n - 1) /\ running[a] = <<>>
          /\ \A i \in DOMAIN list[a] : ~list[a][i].applied
      BY <2>1, <1>2, <1>3 DEF Progress
    <2>3. n - 1 = Len(Given)
      BY <2>2, <1>3, <1>4, GivenFacts
    <2>4. Selected(Registry(a)', Len(Given))
      BY <2>2, <2>3, <1>3 DEF Registry
    <2>5. /\ 1 \in 1 .. Len(list'[a]) + 1
          /\ \A i \in DOMAIN list'[a] : list'[a][i].applied <=> i < 1
          /\ Len(running'[a]) = 1 - 1
          /\ \A i \in 1 .. 1 - 1 : running'[a][i] = list'[a][i].name
      BY <2>2, <1>1, <1>3, <1>4, RegistryIsSeq
    <2>6. Progress(t)'
      BY <2>4, <2>5, <1>5 DEF Progress, Registry
    <2>7. \A u \in Mounters : job'[u].app = a => u = t
      BY <2>1, <1>5
    <2> QED BY <2>1, <2>6, <2>7, <1>3, <1>5 DEF InstanceInv
  <1> QED BY <1>6, <1>7, <1>8, <1>9, StepGuards

LEMMA AllAppliedGuards ==
    ASSUME GuardInv, NEW t \in Mounters, AllApplied(t)
    PROVE  GuardInv'
  <1>1. ProcessorsTypeOK /\ CoreInv /\ HasInstance(t) /\ MountedInv
    BY DEF GuardInv
  <1>2. PICK a, n : a = job[t].app /\ n = job[t].next
    OBVIOUS
  <1>3. /\ at[t] = "apply" /\ at' = [at EXCEPT ![t] = "mount"] /\ n \notin DOMAIN list[a]
        /\ UNCHANGED <<list, running, dispatching, instance, appset, mounted, job, together>>
    BY <1>2 DEF AllApplied, Moves
  <1>4. a \in Instances /\ a \in Apps /\ a # NoInstance
    BY <1>1, <1>2, <1>3, AloneFacts, InstanceFacts
  <1>5. /\ job'[t].app = a /\ at'[t] = "mount"
        /\ \A u \in Mounters \ {t} : at'[u] = at[u] /\ job'[u] = job[u]
    BY <1>1, <1>2, <1>3 DEF ProcessorsTypeOK
  <1>6. ProcessorsTypeOK'
    BY <1>1, <1>3 DEF ProcessorsTypeOK, Steps
  <1>7. HasInstance(t)' /\ OnlyAbout(t, a)
    BY <1>2, <1>3, <1>4, <1>5 DEF HasInstance, OnlyAbout
  <1>8. CoreInv' /\ MountedInv'
    BY <1>1, <1>3, <1>5, MountedKept DEF CoreInv
  <1>9. ASSUME a \notin together' PROVE InstanceInv(a)'
    <2>1. /\ a \notin appset /\ Progress(t) /\ \A u \in Mounters : job[u].app = a => u = t
      BY <1>2, <1>3, <1>9, AloneFacts
    <2>2. /\ n \in 1 .. Len(list[a]) + 1 /\ Selected(Registry(a), Len(Given))
          /\ Len(running[a]) = n - 1 /\ \A i \in 1 .. n - 1 : running[a][i] = list[a][i].name
      BY <2>1, <1>2, <1>3 DEF Progress
    <2>3. /\ Registry(a) \in Seq(ProcessorNames) /\ Len(Registry(a)) = Len(list[a])
          /\ Len(list[a]) \in Nat /\ DOMAIN list[a] = 1 .. Len(list[a])
          /\ \A i \in 1 .. Len(list[a]) : Registry(a)[i] = list[a][i].name
      BY <1>1, <1>4, RegistryIsSeq
    <2>4. n - 1 = Len(list[a])
      BY <2>2, <2>3, <1>3
    <2>5. PICK s, q : s = running[a] /\ q = Registry(a)
      OBVIOUS
    <2>6. /\ s \in Seq(ProcessorNames) /\ q \in Seq(ProcessorNames) /\ Len(s) = Len(q)
          /\ \A i \in 1 .. Len(q) : s[i] = q[i]
      <3>1. s \in Seq(ProcessorNames)
        BY <2>5, <1>1, <1>4 DEF ProcessorsTypeOK
      <3> QED BY <3>1, <2>2, <2>3, <2>4, <2>5
    <2>7. s = q
      BY <2>6
    <2>8. Selected(running'[a], Len(Given))
      BY <2>2, <2>5, <2>7, <1>3
    <2>9. Progress(t)'
      BY <2>8, <1>5 DEF Progress
    <2>10. \A u \in Mounters : job'[u].app = a => u = t
      BY <2>1, <1>5
    <2> QED BY <2>1, <2>9, <2>10, <1>3, <1>5 DEF InstanceInv
  <1> QED BY <1>6, <1>7, <1>8, <1>9, StepGuards

LEMMA ApplyGuards ==
    ASSUME GuardInv, NEW t \in Mounters, Apply(t)
    PROVE  GuardInv'
  <1>1. ProcessorsTypeOK /\ CoreInv /\ HasInstance(t) /\ MountedInv
    BY DEF GuardInv
  <1>2. PICK a, n, L, M, e, f :
            /\ a = job[t].app /\ n = job[t].next /\ L = list[a]
            /\ e = L[n] /\ f = [e EXCEPT !.applied = TRUE] /\ M = [L EXCEPT ![n] = f]
    BY ZenonT(40)
  <1>3. /\ at[t] = "apply" /\ n \in DOMAIN L
        /\ list' = [list EXCEPT ![a] = M]
        /\ running' = IF e.applied THEN running
                      ELSE [running EXCEPT ![a] = Append(running[a], e.name)]
        /\ job' = [job EXCEPT ![t].next = n + 1]
        /\ UNCHANGED <<dispatching, instance, appset, mounted, at, together>>
    BY <1>2 DEF Apply, Advance
  <1>4. a \in Instances /\ a \in Apps /\ a # Core /\ a # NoInstance
    BY <1>1, <1>2, <1>3, AloneFacts, InstanceFacts
  <1>5. /\ L \in Seq([name : ProcessorNames, applied : BOOLEAN]) /\ Len(L) \in Nat
        /\ DOMAIN L = 1 .. Len(L) /\ n \in 1 .. Len(L)
        /\ \A i \in 1 .. Len(L) : Registry(a)[i] = L[i].name
        /\ Registry(a) \in Seq(ProcessorNames) /\ Len(Registry(a)) = Len(L)
    <2>1. /\ list[a] \in Seq([name : ProcessorNames, applied : BOOLEAN])
          /\ Len(list[a]) \in Nat /\ DOMAIN list[a] = 1 .. Len(list[a])
          /\ \A i \in 1 .. Len(list[a]) : Registry(a)[i] = list[a][i].name
          /\ Registry(a) \in Seq(ProcessorNames) /\ Len(Registry(a)) = Len(list[a])
      <3>1. ProcessorsTypeOK /\ a \in Apps
        BY <1>1, <1>4
      <3> QED BY <3>1, RegistryIsSeq, Zenon
    <2>2. L = list[a] /\ n \in DOMAIN L
      BY <1>2, <1>3, Zenon
    <2> QED BY <2>1, <2>2
  <1>6. e \in [name : ProcessorNames, applied : BOOLEAN]
    BY <1>2, <1>5, ElementIn
  <1>7. /\ f \in [name : ProcessorNames, applied : BOOLEAN]
        /\ f.name = e.name /\ f.applied = TRUE
    BY <1>2, <1>6
  <1>8. /\ M \in Seq([name : ProcessorNames, applied : BOOLEAN]) /\ Len(M) = Len(L)
        /\ DOMAIN M = 1 .. Len(L) /\ M[n] = f /\ \A i \in 1 .. Len(L) : i # n => M[i] = L[i]
    <2>1. PICK S : S = [name : ProcessorNames, applied : BOOLEAN]
      OBVIOUS
    <2>2. L \in Seq(S) /\ f \in S
      BY <2>1, <1>5, <1>7
    <2>3. /\ M \in Seq(S) /\ Len(M) = Len(L) /\ DOMAIN M = 1 .. Len(L)
          /\ M[n] = f /\ \A i \in 1 .. Len(L) : i # n => M[i] = L[i]
      BY <2>2, <1>2, <1>5
    <2> QED BY <2>1, <2>3
  <1>9. /\ list' \in [Apps -> Seq([name : ProcessorNames, applied : BOOLEAN])]
        /\ list'[a] = M /\ \A b \in Apps \ {a} : list'[b] = list[b]
    <2>1. PICK S : S = Seq([name : ProcessorNames, applied : BOOLEAN])
      OBVIOUS
    <2>2. list \in [Apps -> S] /\ M \in S
      BY <2>1, <1>1, <1>8 DEF ProcessorsTypeOK
    <2>3. list' \in [Apps -> S] /\ list'[a] = M /\ \A b \in Apps \ {a} : list'[b] = list[b]
      BY <2>2, <1>3, <1>4
    <2> QED BY <2>1, <2>3
  <1>10. /\ running' \in [Apps -> Seq(ProcessorNames)]
         /\ \A b \in Apps \ {a} : running'[b] = running[b]
         /\ running[a] \in Seq(ProcessorNames) /\ e.name \in ProcessorNames
         /\ ~e.applied => running'[a] = Append(running[a], e.name)
    <2>1. running \in [Apps -> Seq(ProcessorNames)] /\ running[a] \in Seq(ProcessorNames)
      BY <1>1, <1>4 DEF ProcessorsTypeOK
    <2>2. e.name \in ProcessorNames /\ Append(running[a], e.name) \in Seq(ProcessorNames)
      BY <2>1, <1>6
    <2> QED BY <2>1, <2>2, <1>3, <1>4
  <1>11. /\ job' \in [Mounters -> [route : Routes \cup {NoInstance},
                                   app : Instances \cup {NoInstance}, next : Nat]]
         /\ job'[t].app = a /\ job'[t].next = n + 1 /\ at'[t] = "apply"
         /\ \A u \in Mounters \ {t} : at'[u] = at[u] /\ job'[u] = job[u]
    <2>1. PICK m \in Nat : m = n + 1
      BY <1>5
    <2>2. job' = [job EXCEPT ![t].next = m]
      BY <1>3, <2>1, SMTT(30)
    <2>3. /\ job' \in [Mounters -> [route : Routes \cup {NoInstance},
                                    app : Instances \cup {NoInstance}, next : Nat]]
          /\ job'[t].app = a /\ job'[t].next = n + 1
          /\ \A u \in Mounters \ {t} : job'[u] = job[u]
      BY <1>1, <1>2, <2>1, <2>2, NextIsSet
    <2> QED BY <2>3, <1>3
  <1>12. ProcessorsTypeOK'
    BY <1>1, <1>3, <1>9, <1>10, <1>11 DEF ProcessorsTypeOK
  <1>13. HasInstance(t)' /\ OnlyAbout(t, a)
    <2>1. HasInstance(t)'
      BY <1>4, <1>11 DEF HasInstance
    <2>2. \A b \in Instances \ {a} :
              /\ list'[b] = list[b] /\ running'[b] = running[b]
              /\ b \in appset' <=> b \in appset
              /\ job[t].app # b /\ job'[t].app # b
      <3>1. \A b \in Instances \ {a} : b \in Apps \ {a}
        BY InstanceFacts
      <3>2. job[t].app = a /\ job'[t].app = a /\ appset' = appset
        BY <1>2, <1>3, <1>11
      <3> QED BY <3>1, <3>2, <1>9, <1>10
    <2>3. instance' = instance /\ together' = together
      BY <1>3, Zenon
    <2>4. \A u \in Mounters \ {t} : at'[u] = at[u] /\ job'[u] = job[u]
      BY <1>11
    <2>5. (instance # NoInstance => instance' # NoInstance) /\ together \subseteq together'
      BY <2>3
    <2>6. OnlyAbout(t, a)
      BY <2>2, <2>4, <2>5 DEF OnlyAbout
    <2> QED BY <2>1, <2>6
  <1>14. CoreInv' /\ MountedInv'
    BY <1>1, <1>3, <1>4, <1>9, <1>10, <1>11, InstanceFacts, MountedKept DEF CoreInv
  <1>15. ASSUME a \notin together' PROVE InstanceInv(a)'
    <2>1. /\ a \notin appset /\ Progress(t) /\ \A u \in Mounters : job[u].app = a => u = t
      <3>1. job[t].app = a /\ at[t] = "apply" /\ job[t].app \notin together
        BY <1>2, <1>3, <1>15, Zenon
      <3>2. /\ job[t].app \notin appset /\ Progress(t)
            /\ \A u \in Mounters : job[u].app = job[t].app => u = t
        BY <3>1, AloneFacts
      <3> QED BY <3>1, <3>2
    <2>2. /\ Selected(Registry(a), Len(Given))
          /\ \A i \in 1 .. Len(L) : L[i].applied <=> i < n
          /\ Len(running[a]) = n - 1 /\ \A i \in 1 .. n - 1 : running[a][i] = L[i].name
      <3>1. job[t].app = a /\ at[t] = "apply" /\ job[t].next = n /\ list[a] = L
        BY <1>2, <1>3, Zenon
      <3>2. /\ Selected(Registry(a), Len(Given))
            /\ \A i \in DOMAIN list[a] : list[a][i].applied <=> i < n
            /\ Len(running[a]) = n - 1
            /\ \A i \in 1 .. n - 1 : running[a][i] = list[a][i].name
        BY <2>1, <3>1 DEF Progress
      <3> QED BY <3>1, <3>2, <1>5, SMTT(30)
    <2>3. ~e.applied
      <3>1. n \in 1 .. Len(L) /\ ~(n < n)
        BY <1>5
      <3>2. L[n].applied <=> n < n
        BY <2>2, <3>1, Zenon
      <3>3. L[n] = e
        BY <1>2
      <3> QED BY <3>1, <3>2, <3>3, Zenon
    <2>4. PICK s, x : s = running[a] /\ x = e.name
      OBVIOUS
    <2>5. /\ s \in Seq(ProcessorNames) /\ x \in ProcessorNames /\ Len(s) = n - 1
          /\ running'[a] = Append(s, x)
      BY <2>2, <2>3, <2>4, <1>10
    <2>6. /\ Len(running'[a]) = n /\ running'[a][n] = x
          /\ \A i \in 1 .. n - 1 : running'[a][i] = s[i]
      BY <2>5, <1>5
    <2>7. ASSUME NEW i \in 1 .. Len(L)
          PROVE  /\ M[i].name = L[i].name
                 /\ M[i].applied <=> i < n + 1
      <3>1. CASE i = n
        <4>1. M[i] = f /\ L[i] = e
          BY <3>1, <1>2, <1>8
        <4>2. i < n + 1
          BY <3>1, <1>5
        <4> QED BY <4>1, <4>2, <1>7
      <3>2. CASE i # n
        <4>1. M[i] = L[i] /\ (i < n + 1 <=> i < n)
          BY <3>2, <1>5, <1>8
        <4> QED BY <4>1, <2>2
      <3> QED BY <3>1, <3>2
    <2>8. ASSUME NEW i \in 1 .. n PROVE running'[a][i] = M[i].name
      <3>1. M[i].name = L[i].name
        BY <2>7, <1>5
      <3>2. CASE i = n
        <4>1. L[i] = e
          BY <3>2, <1>2
        <4> QED BY <4>1, <3>1, <3>2, <2>4, <2>6
      <3>3. CASE i # n
        <4>1. i \in 1 .. n - 1
          BY <3>3, <1>5
        <4> QED BY <4>1, <3>1, <2>2, <2>4, <2>6
      <3> QED BY <3>2, <3>3
    <2>9. Registry(a)' = Registry(a)
      <3>1. PICK q, r : q = Registry(a)' /\ r = Registry(a)
        OBVIOUS
      <3>2. q = [i \in DOMAIN M |-> M[i].name]
        BY <3>1, <1>9 DEF Registry
      <3>3. r = [i \in DOMAIN L |-> L[i].name]
        BY <3>1, <1>2 DEF Registry
      <3>4. q = r
        BY <3>2, <3>3, <2>7, <1>5, <1>8
      <3> QED BY <3>1, <3>4
    <2>10. (n + 1) - 1 = n /\ n + 1 \in 1 .. Len(M) + 1
      BY <1>5, <1>8
    <2>11. Progress(t)'
      <3>1. Selected(Registry(a)', Len(Given))
        BY <2>2, <2>9
      <3>2. \A i \in DOMAIN list'[a] : list'[a][i].applied <=> i < n + 1
        BY <2>7, <1>8, <1>9
      <3>3. /\ Len(running'[a]) = (n + 1) - 1
            /\ \A i \in 1 .. (n + 1) - 1 : running'[a][i] = list'[a][i].name
        BY <2>6, <2>8, <2>10, <1>9
      <3>4. n + 1 \in 1 .. Len(list'[a]) + 1
        BY <2>10, <1>9
      <3> QED BY <3>1, <3>2, <3>3, <3>4, <1>11 DEF Progress, Registry
    <2>12. \A u \in Mounters : job'[u].app = a => u = t
      BY <2>1, <1>11
    <2> QED BY <2>1, <2>11, <2>12, <1>3, <1>11 DEF InstanceInv
  <1> QED BY <1>12, <1>13, <1>14, <1>15, StepGuards

LEMMA MountGuards ==
    ASSUME GuardInv, NEW t \in Mounters, Mount(t)
    PROVE  GuardInv'
  <1>1. ProcessorsTypeOK /\ CoreInv /\ HasInstance(t) /\ MountedInv
    BY DEF GuardInv
  <1>2. PICK a, r : a = job[t].app /\ r = job[t].route
    OBVIOUS
  <1>3. /\ at[t] = "mount" /\ at' = [at EXCEPT ![t] = "add"]
        /\ mounted' = [mounted EXCEPT ![r] = a]
        /\ UNCHANGED <<list, running, dispatching, instance, appset, job, together>>
    BY <1>2 DEF Mount, Moves
  <1>4. a \in Instances /\ a # NoInstance
    BY <1>1, <1>2, <1>3, AloneFacts, InstanceFacts
  <1>5. /\ job'[t].app = a /\ at'[t] = "add"
        /\ \A u \in Mounters \ {t} : at'[u] = at[u] /\ job'[u] = job[u]
    BY <1>1, <1>2, <1>3 DEF ProcessorsTypeOK
  <1>6. ProcessorsTypeOK'
    BY <1>1, <1>3, <1>4 DEF ProcessorsTypeOK, Steps
  <1>7. HasInstance(t)' /\ OnlyAbout(t, a)
    BY <1>2, <1>3, <1>4, <1>5 DEF HasInstance, OnlyAbout
  <1>8. CoreInv'
    BY <1>1, <1>3 DEF CoreInv
  <1>9. MountedInv'
    <2> SUFFICES ASSUME NEW q \in Routes
                 PROVE  \/ mounted'[q] \in {NoInstance} \cup appset'
                        \/ \E u \in Mounters : at'[u] = "add" /\ job'[u].app = mounted'[q]
      BY DEF MountedInv
    <2>1. mounted'[q] = IF q = r THEN a ELSE mounted[q]
      BY <1>1, <1>3 DEF ProcessorsTypeOK
    <2>2. CASE q = r
      BY <2>1, <2>2, <1>5
    <2>3. CASE q # r /\ mounted[q] \in {NoInstance} \cup appset
      BY <2>1, <2>3, <1>3
    <2>4. CASE q # r /\ \E u \in Mounters : at[u] = "add" /\ job[u].app = mounted[q]
      <3>1. PICK u \in Mounters : at[u] = "add" /\ job[u].app = mounted[q]
        BY <2>4
      <3>2. u \in Mounters \ {t}
        BY <3>1, <1>3
      <3> QED BY <3>1, <3>2, <2>1, <2>4, <1>5
    <2> QED BY <2>2, <2>3, <2>4, <1>1 DEF MountedInv
  <1>10. ASSUME a \notin together' PROVE InstanceInv(a)'
    <2>1. InstanceInv(a)
      BY <1>3, <1>4, <1>10 DEF GuardInv
    <2>2. CASE a \in appset
      BY <2>1, <2>2, <1>3, <1>5 DEF InstanceInv
    <2>3. CASE a \notin appset
      <3>1. Progress(t) /\ \A u \in Mounters : job[u].app = a => u = t
        BY <2>3, <1>2, <1>3, <1>10, AloneFacts
      <3>2. Selected(running'[a], Len(Given))
        BY <3>1, <1>2, <1>3 DEF Progress
      <3>3. Progress(t)'
        BY <3>2, <1>5 DEF Progress
      <3> QED BY <3>1, <3>3, <2>3, <1>3, <1>5 DEF InstanceInv
    <2> QED BY <2>2, <2>3
  <1> QED BY <1>6, <1>7, <1>8, <1>9, <1>10, StepGuards

LEMMA RememberGuards ==
    ASSUME GuardInv, NEW t \in Mounters, Remember(t)
    PROVE  GuardInv'
  <1>1. ProcessorsTypeOK /\ CoreInv /\ HasInstance(t) /\ MountedInv
    BY DEF GuardInv
  <1>2. PICK a : a = job[t].app
    OBVIOUS
  <1>3. /\ at[t] = "add" /\ at' = [at EXCEPT ![t] = "idle"]
        /\ appset' = appset \cup {a}
        /\ job' = [job EXCEPT ![t] = [route |-> NoInstance, app |-> NoInstance, next |-> 1]]
        /\ UNCHANGED <<list, running, dispatching, instance, mounted, together>>
    BY <1>2 DEF Remember, Moves, NoJob
  <1>4. a \in Instances /\ a # NoInstance
    BY <1>1, <1>2, <1>3, AloneFacts, InstanceFacts
  <1>5. /\ job'[t].app = NoInstance /\ at'[t] = "idle"
        /\ \A u \in Mounters \ {t} : at'[u] = at[u] /\ job'[u] = job[u]
    BY <1>1, <1>3 DEF ProcessorsTypeOK
  <1>6. ProcessorsTypeOK'
    BY <1>1, <1>3, <1>4 DEF ProcessorsTypeOK, Steps
  <1>7. HasInstance(t)' /\ OnlyAbout(t, a)
    BY <1>2, <1>3, <1>4, <1>5, InstanceFacts DEF HasInstance, OnlyAbout
  <1>8. CoreInv'
    BY <1>1, <1>3 DEF CoreInv
  <1>9. MountedInv'
    <2> SUFFICES ASSUME NEW q \in Routes
                 PROVE  \/ mounted'[q] \in {NoInstance} \cup appset'
                        \/ \E u \in Mounters : at'[u] = "add" /\ job'[u].app = mounted'[q]
      BY DEF MountedInv
    <2>1. CASE mounted[q] \in {NoInstance} \cup appset
      BY <2>1, <1>3
    <2>2. CASE \E u \in Mounters : at[u] = "add" /\ job[u].app = mounted[q]
      <3>1. PICK u \in Mounters : at[u] = "add" /\ job[u].app = mounted[q]
        BY <2>2
      <3> QED BY <3>1, <1>2, <1>3, <1>5
    <2> QED BY <2>1, <2>2, <1>1 DEF MountedInv
  <1>10. ASSUME a \notin together' PROVE InstanceInv(a)'
    <2>1. InstanceInv(a)
      BY <1>3, <1>4, <1>10 DEF GuardInv
    <2>2. Selected(running[a], Len(Given))
      <3>1. CASE a \in appset
        BY <3>1, <2>1 DEF InstanceInv
      <3>2. CASE a \notin appset
        <4>1. Progress(t)
          BY <3>2, <1>2, <1>3, <1>10, AloneFacts
        <4> QED BY <4>1, <1>2, <1>3 DEF Progress
      <3> QED BY <3>1, <3>2
    <2>3. ASSUME NEW u \in Mounters, job'[u].app = a PROVE at'[u] \in {"mount", "add"}
      <3>1. u \in Mounters \ {t} /\ job[u].app = a /\ at'[u] = at[u]
        BY <2>3, <1>4, <1>5
      <3>2. a \in appset
        <4> SUFFICES ASSUME a \notin appset PROVE FALSE
          OBVIOUS
        <4>1. \A v \in Mounters : job[v].app = a => v = t
          BY <1>2, <1>3, <1>10, AloneFacts
        <4> QED BY <4>1, <3>1
      <3> QED BY <3>1, <3>2, <2>1 DEF InstanceInv
    <2> QED BY <2>2, <2>3, <1>3 DEF InstanceInv
  <1> QED BY <1>6, <1>7, <1>8, <1>9, <1>10, StepGuards

LEMMA GuardStep ==
    ASSUME GuardInv, [ProcessorsNext]_processorVars
    PROVE  GuardInv'
  <1>1. CASE Dispatch
    BY <1>1, DispatchGuards
  <1>2. CASE \E t \in Mounters :
                 \/ \E r \in Routes : MapRoute(t, r)
                 \/ \E a \in Instances : Make(t, a)
                 \/ Enter(t) \/ Register(t) \/ AllRegistered(t) \/ Apply(t) \/ AllApplied(t)
                 \/ Mount(t) \/ Remember(t)
    BY <1>2, MapMakeGuards, EnterGuards, RegisterGuards, AllRegisteredGuards, ApplyGuards,
       AllAppliedGuards, MountGuards, RememberGuards
  <1>3. CASE UNCHANGED processorVars
    <2>1. /\ UNCHANGED <<list, running, dispatching, instance, appset, mounted, at, job, together>>
      BY <1>3 DEF processorVars, mounterVars
    <2>2. ProcessorsTypeOK' /\ CoreInv' /\ MountedInv' /\ \A t \in Mounters : HasInstance(t)'
      BY <2>1 DEF GuardInv, ProcessorsTypeOK, CoreInv, MountedInv, HasInstance
    <2>3. ASSUME NEW a \in Instances \ together' PROVE InstanceInv(a)'
      <3>1. InstanceInv(a)
        BY <2>1 DEF GuardInv
      <3> QED BY <3>1, <2>1, InstanceKept
    <2> QED BY <2>2, <2>3 DEF GuardInv
  <1> QED BY <1>1, <1>2, <1>3 DEF ProcessorsNext

\* In every reachable state, the core runs the processors of main, and a web application
\* that a route leads to runs those that cascade, once each and in the order of main, however
\* its mountings are interleaved: unless two threads gave it its processors at once.
THEOREM AppsGuarded == ProcessorsSpec => []MountedAppsAreGuarded
  <1>1. GuardInv => MountedAppsAreGuarded
    <2> SUFFICES ASSUME GuardInv PROVE MountedAppsAreGuarded
      OBVIOUS
    <2>1. dispatching => running[Core] = Given
      BY DEF GuardInv, CoreInv
    <2>2. ASSUME NEW r \in Routes, mounted[r] \notin together \cup {NoInstance}
          PROVE  Selected(running[mounted[r]], Len(Given))
      <3>1. mounted[r] \in Instances \ together
        BY <2>2 DEF GuardInv, ProcessorsTypeOK
      <3>2. CASE mounted[r] \in appset
        BY <3>1, <3>2 DEF GuardInv, InstanceInv
      <3>3. CASE mounted[r] \notin appset
        <4>1. PICK t \in Mounters : at[t] = "add" /\ job[t].app = mounted[r]
          BY <3>3, <2>2 DEF GuardInv, MountedInv
        <4>2. Progress(t)
          BY <4>1, <3>1, <3>3 DEF GuardInv, InstanceInv
        <4> QED BY <4>1, <4>2 DEF Progress
      <3> QED BY <3>2, <3>3
    <2> QED BY <2>1, <2>2 DEF MountedAppsAreGuarded
  <1> QED BY <1>1, GuardInvInit, GuardStep, PTL DEF ProcessorsSpec

-----------------------------------------------------------------------------
(* Loops. *)

\* What holds before a loop and is kept by each turn holds after every turn.
LEMMA UpTo ==
    ASSUME NEW N \in Nat, NEW T, 0 \in T, \A i \in 1 .. N : i - 1 \in T => i \in T
    PROVE  0 .. N \subseteq T
<1> DEFINE Bad == {i \in 0 .. N : i \notin T}
<1>1. SUFFICES ASSUME Bad # {} PROVE FALSE
    OBVIOUS
<1>2. Bad \in SUBSET Nat
    OBVIOUS
<1>3. PICK n \in Bad : \A i \in Bad : n <= i
    BY <1>1, <1>2, LeastNat
<1>4. n \in 1 .. N /\ n - 1 \in 0 .. N /\ n - 1 \notin Bad
    BY <1>3
<1>5. QED
    BY <1>4

\* A loop of N turns on values in V starts with e and computes G at each turn.
IsLoop(V, N, e, G) == N \in Nat /\ e \in V /\ G \in [(1 .. N) \X V -> V]

\* f[i] is the value after i turns.
Iterates(V, N, e, G, f) ==
    /\ f \in [0 .. N -> V]
    /\ f[0] = e
    /\ \A i \in 1 .. N : f[i] = G[<<i, f[i - 1]>>]

\* Every loop has such a function.
LEMMA LoopEnds ==
    ASSUME NEW V, NEW N, NEW e, NEW G, IsLoop(V, N, e, G)
    PROVE  \E f : Iterates(V, N, e, G, f)
<1> USE DEF IsLoop
<1> DEFINE Runs(n, f) == f[0] = e /\ \A i \in 1 .. n : f[i] = G[<<i, f[i - 1]>>]
           T == {n \in 0 .. N : \E f \in [0 .. n -> V] : Runs(n, f)}
<1>1. 0 \in T
    <2> DEFINE f == [i \in 0 .. 0 |-> e]
    <2>1. f \in [0 .. 0 -> V] /\ f[0] = e
        OBVIOUS
    <2> HIDE DEF f
    <2>2. \E g \in [0 .. 0 -> V] : Runs(0, g)
        BY <2>1
    <2>3. QED
        BY <2>2
<1>2. ASSUME NEW n \in 1 .. N, n - 1 \in T PROVE n \in T
    <2>1. PICK f \in [0 .. n - 1 -> V] : Runs(n - 1, f)
        BY <1>2
    <2> DEFINE g == [i \in 0 .. n |-> IF i = n THEN G[<<n, f[n - 1]>>] ELSE f[i]]
    <2>2. G[<<n, f[n - 1]>>] \in V
        OBVIOUS
    <2>3. g \in [0 .. n -> V]
        BY <2>2
    <2>4. \A i \in 0 .. n : g[i] = IF i = n THEN G[<<n, f[n - 1]>>] ELSE f[i]
        BY SMTT(60)
    <2> HIDE DEF g
    <2>5. g[0] = e
        BY <2>1, <2>4
    <2>6. ASSUME NEW i \in 1 .. n PROVE g[i] = G[<<i, g[i - 1]>>]
        <3>1. i - 1 \in 0 .. n /\ g[i - 1] = f[i - 1]
            BY <2>4
        <3>2. CASE i = n
            BY <2>4, <3>1, <3>2, SMTT(30)
        <3>3. CASE i # n
            <4>1. i \in 1 .. n - 1 /\ i \in 0 .. n
                BY <3>3
            <4>2. QED
                BY <2>1, <2>4, <3>1, <3>3, <4>1
        <3>4. QED
            BY <3>2, <3>3
    <2>7. \E h \in [0 .. n -> V] : Runs(n, h)
        BY <2>3, <2>5, <2>6
    <2>8. QED
        BY <2>7
<1> HIDE DEF T
<1>3. 0 .. N \subseteq T
    BY <1>1, <1>2, UpTo
<1>4. N \in T
    BY <1>3
<1>5. QED
    BY <1>4 DEF T, Iterates

\* The members of a sequence made of two.
LEMMA ConcatSet ==
    ASSUME NEW A, NEW s \in Seq(A), NEW t \in Seq(A)
    PROVE  s \o t \in Seq(A) /\ ToSet(s \o t) = ToSet(s) \cup ToSet(t)
<1>1. /\ s \o t \in Seq(A) /\ Len(s \o t) = Len(s) + Len(t)
      /\ \A i \in 1 .. Len(s) + Len(t) :
            (s \o t)[i] = IF i <= Len(s) THEN s[i] ELSE t[i - Len(s)]
    BY ConcatProperties
<1>2. /\ DOMAIN s = 1 .. Len(s) /\ DOMAIN t = 1 .. Len(t) /\ Len(s) \in Nat /\ Len(t) \in Nat
      /\ DOMAIN (s \o t) = 1 .. Len(s) + Len(t)
    BY <1>1, LenProperties
<1>3. ASSUME NEW j \in 1 .. Len(t)
      PROVE  j + Len(s) \in 1 .. Len(s) + Len(t) /\ (s \o t)[j + Len(s)] = t[j]
    BY <1>1, <1>2
<1>4. ASSUME NEW j \in 1 .. Len(s) PROVE j \in 1 .. Len(s) + Len(t) /\ (s \o t)[j] = s[j]
    BY <1>1, <1>2
<1>5. ASSUME NEW i \in 1 .. Len(s) + Len(t)
      PROVE  (s \o t)[i] \in ToSet(s) \cup ToSet(t)
    <2>1. CASE i <= Len(s)
        BY <1>1, <1>2, <2>1 DEF ToSet
    <2>2. CASE i > Len(s)
        <3>1. i - Len(s) \in 1 .. Len(t)
            BY <1>2, <2>2
        <3>2. QED
            BY <1>1, <1>2, <2>2, <3>1 DEF ToSet
    <2>3. QED
        BY <1>2, <2>1, <2>2
<1>6. ToSet(s) \subseteq ToSet(s \o t) /\ ToSet(t) \subseteq ToSet(s \o t)
    BY <1>2, <1>3, <1>4 DEF ToSet
<1>7. ToSet(s \o t) \subseteq ToSet(s) \cup ToSet(t)
    BY <1>2, <1>5 DEF ToSet
<1>8. QED
    BY <1>1, <1>6, <1>7

LEMMA AppendSet ==
    ASSUME NEW A, NEW s \in Seq(A), NEW x \in A
    PROVE  /\ Append(s, x) \in Seq(A)
           /\ ToSet(Append(s, x)) = ToSet(s) \cup {x}
           /\ IsInjective(s) /\ x \notin ToSet(s) => IsInjective(Append(s, x))
<1>1. /\ Append(s, x) \in Seq(A) /\ Len(Append(s, x)) = Len(s) + 1
      /\ \A i \in 1 .. Len(s) : Append(s, x)[i] = s[i]
      /\ Append(s, x)[Len(s) + 1] = x
    BY AppendProperties
<1>2. /\ DOMAIN s = 1 .. Len(s) /\ Len(s) \in Nat
      /\ DOMAIN Append(s, x) = 1 .. Len(s) + 1
    BY <1>1, LenProperties
<1>3. \A i \in 1 .. Len(s) + 1 : i \in 1 .. Len(s) \/ i = Len(s) + 1
    BY <1>2
<1>4. ToSet(Append(s, x)) = ToSet(s) \cup {x}
    BY <1>1, <1>2, <1>3 DEF ToSet
<1>5. ASSUME IsInjective(s), x \notin ToSet(s),
             NEW i \in 1 .. Len(s) + 1, NEW j \in 1 .. Len(s) + 1,
             Append(s, x)[i] = Append(s, x)[j]
      PROVE  i = j
    BY <1>1, <1>2, <1>3, <1>5 DEF ToSet, IsInjective
<1>6. QED
    BY <1>1, <1>2, <1>4, <1>5 DEF IsInjective

\* A sequence is built by appending.
LEMMA ByAppending ==
    ASSUME NEW A, NEW T, <<>> \in T,
           \A u \in Seq(A), x \in A : u \in T => Append(u, x) \in T
    PROVE  Seq(A) \subseteq T
<1> SUFFICES ASSUME NEW s \in Seq(A) PROVE s \in T
    OBVIOUS
<1>1. PICK N \in Nat : N = Len(s)
    BY LenProperties
<1> DEFINE P == {n \in 0 .. N : SubSeq(s, 1, n) \in T}
<1>2. \A n \in 0 .. N : SubSeq(s, 1, n) \in Seq(A)
    BY <1>1
<1>3. 0 \in P
    <2>1. ASSUME NEW n \in 0 .. N, n = 0 PROVE SubSeq(s, 1, n) = <<>>
        BY <2>1, SubSeqEmpty
    <2>2. ASSUME NEW n \in 0 .. N, n = 0 PROVE SubSeq(s, 1, n) \in T
        BY <2>1, <2>2, Zenon
    <2>3. 0 \in 0 .. N
        BY <1>1
    <2>4. QED
        BY <2>2, <2>3, Zenon
<1>4. ASSUME NEW n \in 1 .. N, n - 1 \in P PROVE n \in P
    <2>1. SubSeq(s, 1, n) = Append(SubSeq(s, 1, n - 1), s[n]) /\ s[n] \in A
        <3>1. n \in 1 .. Len(s) /\ s \in Seq(A)
            BY <1>1
        <3>2. SubSeq(s, 1, n) = Append(SubSeq(s, 1, n - 1), s[n])
            <4>1. PICK u : u = SubSeq(s, 1, n)
                OBVIOUS
            <4>2. /\ u \in Seq(A) /\ Len(u) = n
                  /\ \A i \in 1 .. n : u[i] = s[i]
                BY <3>1, <4>1, SubSeqProperties
            <4>3. PICK v : v = Append(SubSeq(s, 1, n - 1), s[n])
                OBVIOUS
            <4>4. /\ SubSeq(s, 1, n - 1) \in Seq(A) /\ Len(SubSeq(s, 1, n - 1)) = n - 1
                  /\ \A i \in 1 .. n - 1 : SubSeq(s, 1, n - 1)[i] = s[i]
                BY <3>1, SubSeqProperties
            <4>5. s[n] \in A
                BY <3>1
            <4>6. /\ v \in Seq(A) /\ Len(v) = n /\ v[n] = s[n]
                  /\ \A i \in 1 .. n - 1 : v[i] = s[i]
                BY <4>3, <4>4, <4>5, AppendProperties
            <4>7. \A i \in 1 .. n : u[i] = v[i]
                BY <4>2, <4>6
            <4>8. u = v
                BY <4>2, <4>6, <4>7, SeqEqual
            <4>9. QED
                BY <4>1, <4>3, <4>8
        <3>3. QED
            BY <3>1, <3>2
    <2>2. SubSeq(s, 1, n - 1) \in Seq(A) /\ SubSeq(s, 1, n - 1) \in T
        BY <1>2, <1>4
    <2>3. SubSeq(s, 1, n) \in T
        BY <2>1, <2>2
    <2>4. QED
        BY <2>3
<1> HIDE DEF P
<1>5. 0 .. N \subseteq P
    BY <1>1, <1>3, <1>4, UpTo
<1>6. N \in P
    BY <1>1, <1>5
<1>7. SubSeq(s, 1, N) = s
    BY <1>1
<1>8. QED
    BY <1>6, <1>7 DEF P

\* f[n] is what FlattenSeq has after n turns.
IsFlattening(A, ss, N, f) ==
    /\ f \in [1 .. N -> Seq(A)]
    /\ FlattenSeq(ss) = f[N]
    /\ \A i \in 1 .. N : f[i] = IF i = 1 THEN ss[i] ELSE f[i - 1] \o ss[i]

LEMMA FlattenLoop ==
    ASSUME NEW A, NEW ss \in Seq(Seq(A)), NEW N \in Nat, N = Len(ss), N > 0
    PROVE  \E f : IsFlattening(A, ss, N, f)
<1>1. N \in Nat /\ N = Len(ss) /\ N > 0
    OBVIOUS
<1>2. \A i \in 1 .. N : ss[i] \in Seq(A)
    BY LenProperties
<1> DEFINE Is(f) == f = [i \in 1 .. N |-> IF i = 1 THEN ss[i] ELSE f[i - 1] \o ss[i]]
           flat == CHOOSE f : Is(f)
<1>3. FlattenSeq(ss) = flat[N]
    BY <1>1 DEF FlattenSeq
<1>4. \E f : Is(f)
    <2>0. PICK G : G = [p \in (1 .. N) \X Seq(A) |-> p[2] \o ss[p[1]]]
        OBVIOUS
    <2>1. G \in [(1 .. N) \X Seq(A) -> Seq(A)]
        <3>1. \A p \in (1 .. N) \X Seq(A) : p[2] \o ss[p[1]] \in Seq(A)
            BY <1>2, ConcatSet
        <3>2. QED
            BY <2>0, <3>1
    <2>2. <<>> \in Seq(A)
        BY EmptySeq
    <2>3. \A i \in 1 .. N, v \in Seq(A) : G[<<i, v>>] = v \o ss[i]
        BY <2>0
    <2>4. PICK f \in [0 .. N -> Seq(A)] :
            f[0] = <<>> /\ \A i \in 1 .. N : f[i] = G[<<i, f[i - 1]>>]
        <3>1. IsLoop(Seq(A), N, <<>>, G)
            BY <2>1, <2>2 DEF IsLoop
        <3>2. \E f : Iterates(Seq(A), N, <<>>, G, f)
            BY <3>1, LoopEnds
        <3>3. QED
            BY <3>2 DEF Iterates
    <2>5. ASSUME NEW i \in 1 .. N PROVE f[i] = f[i - 1] \o ss[i]
        <3>1. f[i - 1] \in Seq(A)
            <4>1. i - 1 \in 0 .. N
                OBVIOUS
            <4>2. QED
                BY <4>1
        <3>2. QED
            BY <2>3, <2>4, <3>1
    <2>6. f[1] = ss[1]
        <3>1. 1 \in 1 .. N /\ 1 - 1 = 0
            BY <1>1
        <3>2. f[1] = <<>> \o ss[1] /\ ss[1] \in Seq(A)
            BY <1>2, <2>4, <2>5, <3>1
        <3>3. QED
            BY <3>2, ConcatEmptySeq
    <2> DEFINE g == [i \in 1 .. N |-> f[i]]
    <2>7. ASSUME NEW i \in 1 .. N, i # 1 PROVE g[i] = g[i - 1] \o ss[i]
        <3>1. i - 1 \in 1 .. N
            BY <2>7
        <3>2. QED
            BY <2>5, <3>1
    <2>8. g = [i \in 1 .. N |-> IF i = 1 THEN ss[i] ELSE g[i - 1] \o ss[i]]
        <3>1. \A i \in 1 .. N : g[i] = IF i = 1 THEN ss[i] ELSE g[i - 1] \o ss[i]
            BY <2>6, <2>7
        <3>2. g = [i \in 1 .. N |-> g[i]]
            OBVIOUS
        <3> HIDE DEF g
        <3>3. QED
            BY <3>1, <3>2
    <2> HIDE DEF g
    <2>9. QED
        BY <2>8
<1> HIDE DEF Is
<1>5. Is(flat)
    BY <1>4
<1> HIDE DEF flat
<1>6. \A i \in 1 .. N : flat[i] = IF i = 1 THEN ss[i] ELSE flat[i - 1] \o ss[i]
    <2> DEFINE v == flat
    <2>1. flat = [i \in 1 .. N |-> IF i = 1 THEN ss[i] ELSE v[i - 1] \o ss[i]]
        BY <1>5 DEF Is
    <2> HIDE DEF v
    <2>2. \A i \in 1 .. N : flat[i] = IF i = 1 THEN ss[i] ELSE v[i - 1] \o ss[i]
        BY <2>1
    <2>3. QED
        BY <2>2 DEF v
<1> DEFINE T == {n \in 0 .. N : n > 0 => flat[n] \in Seq(A)}
<1>7. 0 \in T
    BY <1>1
<1>8. ASSUME NEW n \in 1 .. N, n - 1 \in T PROVE n \in T
    <2>1. CASE n = 1
        BY <1>2, <1>6, <2>1
    <2>2. CASE n > 1
        <3>1. flat[n] = flat[n - 1] \o ss[n] /\ flat[n - 1] \in Seq(A) /\ ss[n] \in Seq(A)
            <4>1. n - 1 > 0 /\ n # 1
                BY <2>2
            <4>2. QED
                BY <1>2, <1>6, <1>8, <4>1
        <3>2. flat[n] \in Seq(A)
            BY <3>1, ConcatSet
        <3>3. QED
            BY <3>2
    <2>3. QED
        BY <1>1, <2>1, <2>2
<1> HIDE DEF T
<1>9. 0 .. N \subseteq T
    BY <1>1, <1>7, <1>8, UpTo
<1>10. \A n \in 1 .. N : flat[n] \in Seq(A)
    <2>1. ASSUME NEW n \in 1 .. N PROVE n \in 0 .. N /\ n > 0
        BY <1>1
    <2>2. QED
        BY <1>9, <2>1 DEF T
<1>11. flat \in [1 .. N -> Seq(A)]
    <2>1. flat = [n \in 1 .. N |-> flat[n]]
        <3> DEFINE v == flat
        <3>1. flat = [n \in 1 .. N |-> IF n = 1 THEN ss[n] ELSE v[n - 1] \o ss[n]]
            BY <1>5 DEF Is
        <3> HIDE DEF v
        <3>2. QED
            BY <3>1
    <2>2. QED
        BY <1>10, <2>1
<1>12. QED
    BY <1>3, <1>6, <1>11 DEF IsFlattening

\* FlattenSeq returns a sequence of the members of its sequences.
LEMMA FlattenSeqSet ==
    ASSUME NEW A, NEW ss \in Seq(Seq(A))
    PROVE  /\ FlattenSeq(ss) \in Seq(A)
           /\ ToSet(FlattenSeq(ss)) = UNION {ToSet(ss[i]) : i \in DOMAIN ss}
<1>0. Len(ss) \in Nat
    BY LenProperties
<1>N. PICK N \in Nat : N = Len(ss)
    BY <1>0
<1>1. N \in Nat /\ DOMAIN ss = 1 .. N /\ \A i \in 1 .. N : ss[i] \in Seq(A)
    BY <1>N, LenProperties
<1>2. CASE N = 0
    <2>1. ss = <<>> /\ FlattenSeq(ss) = ss
        <3>1. ss = <<>>
            BY <1>N, <1>2, EmptySeq
        <3>2. QED
            BY <1>N, <1>2, <3>1 DEF FlattenSeq
    <2>2. <<>> \in Seq(A) /\ DOMAIN ss = {}
        BY <1>1, <1>2
    <2>3. QED
        BY <2>1, <2>2 DEF ToSet
<1>3. CASE N > 0
    <2>1. PICK flat : IsFlattening(A, ss, N, flat)
        BY <1>1, <1>3, <1>N, FlattenLoop
    <2>4. \A i \in 1 .. N : flat[i] = IF i = 1 THEN ss[i] ELSE flat[i - 1] \o ss[i]
        BY <2>1 DEF IsFlattening
    <2> DEFINE T == {n \in 0 .. N : n > 0 =>
                        /\ flat[n] \in Seq(A)
                        /\ ToSet(flat[n]) = UNION {ToSet(ss[i]) : i \in 1 .. n}}
    <2>5. 0 \in T
        BY <1>1
    <2>6. ASSUME NEW n \in 1 .. N, n - 1 \in T PROVE n \in T
        <3>1. CASE n = 1
            <4>1. flat[1] = ss[1] /\ ss[1] \in Seq(A)
                BY <1>1, <1>3, <2>4
            <4>2. UNION {ToSet(ss[i]) : i \in 1 .. 1} = ToSet(ss[1])
                OBVIOUS
            <4>3. 1 \in 0 .. N
                BY <1>3
            <4>4. QED
                BY <3>1, <4>1, <4>2, <4>3
        <3>2. CASE n > 1
            <4>1. /\ flat[n] = flat[n - 1] \o ss[n]
                  /\ flat[n - 1] \in Seq(A) /\ ss[n] \in Seq(A)
                  /\ ToSet(flat[n - 1]) = UNION {ToSet(ss[i]) : i \in 1 .. n - 1}
                <5>1. n - 1 > 0 /\ n # 1 /\ n - 1 \in 0 .. N
                    BY <3>2
                <5>2. flat[n] = flat[n - 1] \o ss[n]
                    BY <2>4, <5>1
                <5>3. QED
                    BY <1>1, <2>6, <5>1, <5>2
            <4>2. flat[n] \in Seq(A) /\ ToSet(flat[n]) = ToSet(flat[n - 1]) \cup ToSet(ss[n])
                BY <4>1, ConcatSet
            <4>3. 1 .. n = (1 .. n - 1) \cup {n}
                BY <1>1
            <4>4. UNION {ToSet(ss[i]) : i \in 1 .. n}
                    = (UNION {ToSet(ss[i]) : i \in 1 .. n - 1}) \cup ToSet(ss[n])
                BY <4>3
            <4>5. n \in 0 .. N
                OBVIOUS
            <4>6. ToSet(flat[n]) = UNION {ToSet(ss[i]) : i \in 1 .. n}
                BY <4>1, <4>2, <4>4
            <4>7. QED
                BY <4>2, <4>5, <4>6
        <3>3. QED
            BY <1>1, <3>1, <3>2
    <2> HIDE DEF T
    <2>7. 0 .. N \subseteq T
        BY <1>1, <2>5, <2>6, UpTo
    <2>8. N \in T
        BY <1>1, <2>7
    <2>9. QED
        BY <1>1, <1>3, <2>1, <2>8 DEF T, IsFlattening
<1>4. QED
    BY <1>1, <1>2, <1>3

\* FlattenSeq, of a sequence that grows.
LEMMA FlattenAppend ==
    ASSUME NEW A, NEW ss \in Seq(Seq(A)), NEW x \in Seq(A)
    PROVE  /\ FlattenSeq(<<>>) = <<>>
           /\ FlattenSeq(Append(ss, x)) = FlattenSeq(ss) \o x
<1>1. FlattenSeq(<<>>) = <<>>
    BY EmptySeq DEF FlattenSeq
<1>2. PICK N \in Nat : N = Len(ss)
    BY LenProperties
<1>3. PICK t : t = Append(ss, x)
    OBVIOUS
<1>4. /\ t \in Seq(Seq(A)) /\ Len(t) = N + 1 /\ t[N + 1] = x
      /\ \A i \in 1 .. N : t[i] = ss[i]
    BY <1>2, <1>3, AppendProperties
<1>5. PICK M \in Nat : M = N + 1
    OBVIOUS
<1>6. PICK g : IsFlattening(A, t, M, g)
    <2>1. M = Len(t) /\ M > 0
        BY <1>4, <1>5
    <2>2. QED
        BY <1>4, <2>1, FlattenLoop
<1>7. CASE N = 0
    <2>1. ss = <<>>
        BY <1>2, <1>7, EmptySeq
    <2>2. FlattenSeq(t) = x
        BY <1>4, <1>5, <1>6, <1>7 DEF IsFlattening
    <2>3. <<>> \o x = x
        BY ConcatEmptySeq
    <2>4. QED
        BY <1>1, <1>3, <2>1, <2>2, <2>3
<1>8. CASE N > 0
    <2>1. PICK f : IsFlattening(A, ss, N, f)
        BY <1>2, <1>8, FlattenLoop
    <2> DEFINE T == {n \in 0 .. N : n > 0 => g[n] = f[n]}
    <2>2. 0 \in T
        BY <1>2
    <2>3. ASSUME NEW n \in 1 .. N, n - 1 \in T PROVE n \in T
        <3>1. n \in 1 .. M /\ t[n] = ss[n] /\ (n # 1 => g[n - 1] = f[n - 1])
            <4>1. n \in 1 .. M /\ t[n] = ss[n] /\ n - 1 \in T /\ n - 1 \in 0 .. N
                BY <1>2, <1>4, <1>5, <2>3
            <4>2. n # 1 => n - 1 > 0
                BY <1>2
            <4>3. QED
                BY <4>1, <4>2
        <3>2. g[n] = f[n]
            <4>1. f[n] = IF n = 1 THEN ss[n] ELSE f[n - 1] \o ss[n]
                BY <2>1 DEF IsFlattening
            <4>2. g[n] = IF n = 1 THEN t[n] ELSE g[n - 1] \o t[n]
                BY <1>6, <3>1 DEF IsFlattening
            <4>3. QED
                BY <3>1, <4>1, <4>2
        <3>3. QED
            BY <3>2
    <2> HIDE DEF T
    <2>4. 0 .. N \subseteq T
        BY <1>2, <2>2, <2>3, UpTo
    <2>5. g[N] = f[N]
        BY <1>8, <2>4 DEF T
    <2>6. g[M] = g[N] \o x
        <3>1. M \in 1 .. M /\ M # 1 /\ M - 1 = N /\ t[M] = x
            BY <1>2, <1>4, <1>5, <1>8
        <3>2. QED
            BY <1>6, <3>1 DEF IsFlattening
    <2>7. FlattenSeq(t) = FlattenSeq(ss) \o x
        BY <1>6, <2>1, <2>5, <2>6 DEF IsFlattening
    <2>8. QED
        BY <1>1, <1>3, <2>7
<1>9. QED
    BY <1>1, <1>2, <1>7, <1>8

\* FirstOccurrences returns the members of a list that are wanted, once each.
LEMMA FirstOccurrencesSet ==
    ASSUME NEW A, NEW seq \in Seq(A), NEW wanted
    PROVE  /\ ToSet(FirstOccurrences(seq, wanted)) = ToSet(seq) \cap wanted
           /\ IsInjective(FirstOccurrences(seq, wanted))
<1>0. Len(seq) \in Nat /\ DOMAIN seq = 1 .. Len(seq) /\ \A i \in 1 .. Len(seq) : seq[i] \in A
    BY LenProperties
<1>1. PICK N \in Nat : N = Len(seq)
    <2>1. Len(seq) \in Nat
        BY <1>0
    <2>2. QED
        BY <2>1
<1> DEFINE Turn(before, i) ==
                IF seq[i] \in wanted \ ToSet(before) THEN Append(before, seq[i]) ELSE before
           IsAdded(f) == f = [i \in 0 .. N |-> IF i = 0 THEN <<>> ELSE Turn(f[i - 1], i)]
           added == CHOOSE f : IsAdded(f)
<1>2. FirstOccurrences(seq, wanted) = added[N]
    BY <1>1 DEF FirstOccurrences
<1>3. \E f : IsAdded(f)
    <2>1. PICK G : G = [p \in (1 .. N) \X Seq(A) |-> Turn(p[2], p[1])]
        OBVIOUS
    <2>2. \A i \in 1 .. N, v \in Seq(A) : G[<<i, v>>] = Turn(v, i)
        BY <2>1
    <2>3. \A i \in 1 .. N, v \in Seq(A) : Turn(v, i) \in Seq(A)
        BY <1>0, <1>1, AppendSet
    <2>4. <<>> \in Seq(A)
        BY EmptySeq
    <2> HIDE DEF Turn
    <2>5. IsLoop(Seq(A), N, <<>>, G)
        BY <2>1, <2>3, <2>4 DEF IsLoop
    <2>6. PICK f : Iterates(Seq(A), N, <<>>, G, f)
        BY <2>5, LoopEnds
    <2>7. ASSUME NEW i \in 1 .. N PROVE f[i] = Turn(f[i - 1], i)
        <3>1. i - 1 \in 0 .. N
            BY <1>1
        <3>2. f[i - 1] \in Seq(A)
            BY <2>6, <3>1 DEF Iterates
        <3>3. QED
            BY <2>2, <2>6, <3>2 DEF Iterates
    <2>8. \A i \in 0 .. N : f[i] = IF i = 0 THEN <<>> ELSE Turn(f[i - 1], i)
        BY <2>6, <2>7 DEF Iterates
    <2>9. f = [i \in 0 .. N |-> f[i]]
        BY <2>6 DEF Iterates
    <2>10. QED
        BY <2>8, <2>9
<1> HIDE DEF IsAdded
<1>4. IsAdded(added)
    BY <1>3
<1> HIDE DEF added
<1>5. \A i \in 0 .. N : added[i] = IF i = 0 THEN <<>> ELSE Turn(added[i - 1], i)
    <2> DEFINE v == added
    <2> HIDE DEF Turn
    <2>1. added = [i \in 0 .. N |-> IF i = 0 THEN <<>> ELSE Turn(v[i - 1], i)]
        BY <1>4 DEF IsAdded
    <2> HIDE DEF v
    <2>2. \A i \in 0 .. N : added[i] = IF i = 0 THEN <<>> ELSE Turn(v[i - 1], i)
        BY <2>1
    <2>3. QED
        BY <2>2 DEF v
<1> DEFINE Right(n) ==
            /\ added[n] \in Seq(A)
            /\ ToSet(added[n]) = {seq[i] : i \in 1 .. n} \cap wanted
            /\ IsInjective(added[n])
           T == {n \in 0 .. N : Right(n)}
<1>6. 0 \in T
    <2>1. added[0] = <<>> /\ <<>> \in Seq(A) /\ DOMAIN <<>> = {}
        BY <1>1, <1>5, EmptySeq
    <2>2. ToSet(added[0]) = {} /\ {seq[i] : i \in 1 .. 0} = {}
        BY <2>1 DEF ToSet
    <2>3. IsInjective(added[0])
        BY <2>1 DEF IsInjective
    <2>4. Right(0)
        BY <2>1, <2>2, <2>3
    <2>5. QED
        BY <1>1, <2>4
<1>7. ASSUME NEW n \in 1 .. N, n - 1 \in T PROVE n \in T
    <2>1. Right(n - 1)
        BY <1>7
    <2>2. n \in 0 .. N /\ added[n] = Turn(added[n - 1], n) /\ seq[n] \in A
        BY <1>0, <1>1, <1>5
    <2>3. {seq[i] : i \in 1 .. n} = {seq[i] : i \in 1 .. n - 1} \cup {seq[n]}
        <3>1. 1 .. n = (1 .. n - 1) \cup {n}
            BY <1>1
        <3>2. QED
            BY <3>1
    <2>4. CASE seq[n] \in wanted \ ToSet(added[n - 1])
        <3>1. added[n] = Append(added[n - 1], seq[n])
            BY <2>2, <2>4
        <3>2. /\ Append(added[n - 1], seq[n]) \in Seq(A)
              /\ ToSet(Append(added[n - 1], seq[n])) = ToSet(added[n - 1]) \cup {seq[n]}
              /\ IsInjective(Append(added[n - 1], seq[n]))
            BY <2>1, <2>2, <2>4, AppendSet
        <3>3. ToSet(added[n]) = {seq[i] : i \in 1 .. n} \cap wanted
            BY <2>1, <2>3, <2>4, <3>1, <3>2
        <3>4. QED
            BY <2>2, <3>1, <3>2, <3>3
    <2>5. CASE ~(seq[n] \in wanted \ ToSet(added[n - 1]))
        <3>1. added[n] = added[n - 1]
            BY <2>2, <2>5
        <3>2. ToSet(added[n]) = {seq[i] : i \in 1 .. n} \cap wanted
            BY <2>1, <2>3, <2>5, <3>1
        <3>3. QED
            BY <2>1, <2>2, <3>1, <3>2
    <2>6. QED
        BY <2>4, <2>5
<1> HIDE DEF T
<1>8. 0 .. N \subseteq T
    BY <1>1, <1>6, <1>7, UpTo
<1>9. N \in T
    BY <1>1, <1>8
<1>10. {seq[i] : i \in 1 .. N} = ToSet(seq)
    BY <1>0, <1>1 DEF ToSet
<1>11. QED
    BY <1>2, <1>9, <1>10 DEF T

-----------------------------------------------------------------------------
(* What a screen shows, of bundles that hold the channels kids[b]. *)

Kids == [Bundles -> Seq(Channels)]

GraphOf(kids) == {e \in Bundles \X Channels : e[2] \in ToSet(kids[e[1]])}

\* The equation of Flatten, for the channel c.
FlatAt(kids, open, f, c) ==
    IF c \in PluginChannels
    THEN IF c \in open THEN <<c>> ELSE <<>>
    ELSE FlattenSeq([i \in DOMAIN kids[c] |->
            IF kids[c][i] \in open THEN f[kids[c][i]] ELSE <<>>])

IsFlatten(kids, open, f) == f = [c \in Channels |-> FlatAt(kids, open, f, c)]

ReachBy(kids, open, c) ==
    {x \in Channels : \A S \in SUBSET Channels :
        /\ c \in S
        /\ \A b \in S \cap Bundles : ToSet(kids[b]) \cap open \subseteq S
        => x \in S}

LEMMA KidsIn ==
    ASSUME NEW kids \in Kids, NEW b \in Bundles
    PROVE  /\ Len(kids[b]) \in Nat /\ DOMAIN kids[b] = 1 .. Len(kids[b])
           /\ \A i \in DOMAIN kids[b] : kids[b][i] \in Channels
           /\ ToSet(kids[b]) \subseteq Channels
<1>1. kids[b] \in Seq(Channels)
    BY DEF Kids
<1>2. /\ Len(kids[b]) \in Nat /\ DOMAIN kids[b] = 1 .. Len(kids[b])
      /\ \A i \in DOMAIN kids[b] : kids[b][i] \in Channels
    BY <1>1, LenProperties
<1>3. QED
    BY <1>2 DEF ToSet

\* What is reached from a plugin channel, and from a bundle.
LEMMA ReachBySteps ==
    ASSUME NEW kids \in Kids, NEW open, NEW c \in Channels
    PROVE  /\ c \in ReachBy(kids, open, c)
           /\ ReachBy(kids, open, c) \subseteq Channels
           /\ c \in PluginChannels => ReachBy(kids, open, c) = {c}
           /\ c \in Bundles => ReachBy(kids, open, c) =
                {c} \cup UNION {ReachBy(kids, open, d) : d \in ToSet(kids[c]) \cap open}
<1> DEFINE Shut(S) == \A b \in S \cap Bundles : ToSet(kids[b]) \cap open \subseteq S
<1>1. \A d \in Channels : /\ d \in ReachBy(kids, open, d)
                          /\ ReachBy(kids, open, d) \in SUBSET Channels
    BY DEF ReachBy
<1>2. ASSUME NEW d \in Channels PROVE Shut(ReachBy(kids, open, d))
    <2> SUFFICES ASSUME NEW b \in ReachBy(kids, open, d) \cap Bundles,
                        NEW x \in ToSet(kids[b]) \cap open
                 PROVE  x \in ReachBy(kids, open, d)
        OBVIOUS
    <2>1. x \in Channels
        BY KidsIn
    <2>2. QED
        BY <2>1 DEF ReachBy
<1>3. ASSUME NEW d \in Channels, NEW S \in SUBSET Channels, d \in S, Shut(S)
      PROVE  ReachBy(kids, open, d) \subseteq S
    BY <1>3 DEF ReachBy
<1> HIDE DEF Shut
<1>4. ASSUME c \in PluginChannels PROVE ReachBy(kids, open, c) = {c}
    <2>1. Shut({c})
        BY <1>4, ScreenAssumption DEF Shut
    <2>2. QED
        BY <1>1, <1>3, <2>1
<1>5. ASSUME c \in Bundles
      PROVE  ReachBy(kids, open, c) =
                {c} \cup UNION {ReachBy(kids, open, d) : d \in ToSet(kids[c]) \cap open}
    <2> DEFINE U == {c} \cup UNION {ReachBy(kids, open, d) : d \in ToSet(kids[c]) \cap open}
    <2>1. ToSet(kids[c]) \subseteq Channels
        BY <1>5, KidsIn
    <2>2. U \in SUBSET Channels
        BY <1>1, <2>1
    <2>3. Shut(U)
        <3> SUFFICES ASSUME NEW b \in U \cap Bundles, NEW x \in ToSet(kids[b]) \cap open
                     PROVE  x \in U
            BY DEF Shut
        <3>1. CASE b = c
            BY <1>1, <2>1, <3>1
        <3>2. CASE b # c
            <4>1. PICK d \in ToSet(kids[c]) \cap open : b \in ReachBy(kids, open, d)
                BY <3>2
            <4>2. x \in ReachBy(kids, open, d)
                BY <1>2, <2>1, <4>1 DEF Shut
            <4>3. QED
                BY <4>2
        <3>3. QED
            BY <3>1, <3>2
    <2>4. ReachBy(kids, open, c) \subseteq U
        <3>1. c \in U
            OBVIOUS
        <3> HIDE DEF U
        <3>2. QED
            BY <1>3, <2>2, <2>3, <3>1
    <2>5. ASSUME NEW d \in ToSet(kids[c]) \cap open
          PROVE  ReachBy(kids, open, d) \subseteq ReachBy(kids, open, c)
        <3>1. d \in ReachBy(kids, open, c)
            BY <1>1, <1>2, <1>5 DEF Shut
        <3>2. QED
            BY <1>1, <1>2, <1>3, <2>1, <3>1
    <2>6. QED
        BY <1>1, <2>4, <2>5
<1>6. QED
    BY <1>1, <1>4, <1>5

\* What the flattening of a bundle is made of.
LEMMA FlatAtSet ==
    ASSUME NEW kids \in Kids, NEW open, NEW f, NEW b \in Bundles,
           \A c \in ToSet(kids[b]) \cap open : f[c] \in Seq(PluginChannels)
    PROVE  /\ FlatAt(kids, open, f, b) \in Seq(PluginChannels)
           /\ ToSet(FlatAt(kids, open, f, b)) =
                UNION {ToSet(f[c]) : c \in ToSet(kids[b]) \cap open}
<1> DEFINE ss == [i \in DOMAIN kids[b] |-> IF kids[b][i] \in open THEN f[kids[b][i]] ELSE <<>>]
<1>1. FlatAt(kids, open, f, b) = FlattenSeq(ss)
    BY ScreenAssumption DEF FlatAt
<1>2. /\ Len(kids[b]) \in Nat /\ DOMAIN kids[b] = 1 .. Len(kids[b])
    BY KidsIn
<1>3. DOMAIN ss = DOMAIN kids[b]
    OBVIOUS
<1>4. \A i \in DOMAIN kids[b] :
        ss[i] = IF kids[b][i] \in open THEN f[kids[b][i]] ELSE <<>>
    OBVIOUS
<1>5. \A i \in DOMAIN kids[b] : ss[i] \in Seq(PluginChannels)
    BY <1>4, EmptySeq DEF ToSet
<1>6. ss = [i \in 1 .. Len(kids[b]) |-> ss[i]]
    BY <1>2
<1> HIDE DEF ss
<1>7. ss \in [1 .. Len(kids[b]) -> Seq(PluginChannels)]
    BY <1>2, <1>5, <1>6
<1>8. ss \in Seq(Seq(PluginChannels))
    BY <1>2, <1>7, FunctionIsSeq
<1>9. /\ FlattenSeq(ss) \in Seq(PluginChannels)
      /\ ToSet(FlattenSeq(ss)) = UNION {ToSet(ss[i]) : i \in DOMAIN ss}
    BY <1>8, FlattenSeqSet
<1>10. UNION {ToSet(ss[i]) : i \in DOMAIN ss}
            = UNION {ToSet(f[c]) : c \in ToSet(kids[b]) \cap open}
    <2>1. ToSet(<<>>) = {}
        BY DEF ToSet
    <2>2. ToSet(kids[b]) = {kids[b][i] : i \in DOMAIN kids[b]}
        BY DEF ToSet
    <2>3. ASSUME NEW i \in DOMAIN kids[b], NEW x \in ToSet(ss[i])
          PROVE  \E c \in ToSet(kids[b]) \cap open : x \in ToSet(f[c])
        BY <1>4, <2>1, <2>2
    <2>4. ASSUME NEW c \in ToSet(kids[b]) \cap open
          PROVE  \E i \in DOMAIN kids[b] : ss[i] = f[c]
        BY <1>4, <2>2
    <2>5. QED
        BY <1>3, <2>3, <2>4
<1>11. QED
    BY <1>1, <1>9, <1>10
\* flatten of c calls flatten of the channels of c only.
LEMMA FlatAtLocal ==
    ASSUME NEW kids \in Kids, NEW open, NEW f, NEW g, NEW c \in Channels,
           c \in Bundles => \A d \in ToSet(kids[c]) : f[d] = g[d]
    PROVE  FlatAt(kids, open, f, c) = FlatAt(kids, open, g, c)
<1>1. CASE c \in PluginChannels
    BY <1>1 DEF FlatAt
<1>2. CASE c \notin PluginChannels
    <2>1. \A i \in DOMAIN kids[c] : f[kids[c][i]] = g[kids[c][i]]
        BY <1>2 DEF ToSet, Channels
    <2>2. [i \in DOMAIN kids[c] |-> IF kids[c][i] \in open THEN f[kids[c][i]] ELSE <<>>]
            = [i \in DOMAIN kids[c] |-> IF kids[c][i] \in open THEN g[kids[c][i]] ELSE <<>>]
        BY <2>1
    <2>3. QED
        BY <1>2, <2>2, Zenon DEF FlatAt
<1>3. QED
    BY <1>1, <1>2

\* The recursion of flatten ends on an acyclic graph: the largest set of bundles where it
\* does, with their sub-bundles, has them all.
LEMMA FlattenEnds ==
    ASSUME NEW kids \in Kids, NEW open, Acyclic(GraphOf(kids))
    PROVE  \E f : IsFlatten(kids, open, f)
<1> DEFINE Solves(m, f) ==
                \A c \in PluginChannels \cup m : f[c] = FlatAt(kids, open, f, c)
           Shut(m) == \A b \in m : ToSet(kids[b]) \cap Bundles \subseteq m
           OnChannels(f) == f = [c \in Channels |-> f[c]]
           T == {m \in SUBSET Bundles : Shut(m) /\ \E f : OnChannels(f) /\ Solves(m, f)}
<1>1. {} \in T
    <2> DEFINE f == [c \in Channels |-> IF c \in open THEN <<c>> ELSE <<>>]
    <2>1. OnChannels(f) /\ \A c \in PluginChannels : f[c] = IF c \in open THEN <<c>> ELSE <<>>
        BY DEF Channels
    <2> HIDE DEF f, OnChannels
    <2>2. Solves({}, f)
        <3>1. \A c \in PluginChannels :
                FlatAt(kids, open, f, c) = IF c \in open THEN <<c>> ELSE <<>>
            BY DEF FlatAt
        <3>2. QED
            BY <2>1, <3>1
    <2>3. \E g : OnChannels(g) /\ Solves({}, g)
        BY <2>1, <2>2
    <2>4. Shut({}) /\ {} \in SUBSET Bundles
        OBVIOUS
    <2> HIDE DEF Solves, Shut
    <2>5. QED
        BY <2>3, <2>4
<1>2. T \in SUBSET SUBSET Bundles /\ T # {}
    BY <1>1
<1> HIDE DEF T
<1>3. PICK m \in T : \A n \in T : m \subseteq n => n = m
    BY <1>2, LargestSet
<1>4. m \in SUBSET Bundles /\ Shut(m)
    BY <1>3 DEF T
<1>5. PICK f : OnChannels(f) /\ Solves(m, f)
    BY <1>3 DEF T
<1>6. ASSUME m # Bundles PROVE FALSE
    <2>1. PICK b \in Bundles \ m : \A d \in Bundles \ m : <<b, d>> \notin GraphOf(kids)
        BY <1>4, <1>6 DEF Acyclic, NoEndlessWalk
    <2>2. ToSet(kids[b]) \cap Bundles \subseteq m
        BY <2>1 DEF GraphOf, Channels
    <2>3. \A c \in m \cup {b} : ToSet(kids[c]) \subseteq PluginChannels \cup m
        BY <1>4, <2>1, <2>2, KidsIn DEF Channels
    <2> DEFINE g == [c \in Channels |-> IF c = b THEN FlatAt(kids, open, f, b) ELSE f[c]]
    <2>4. /\ b \in Channels /\ b \notin PluginChannels
          /\ PluginChannels \cup m \subseteq Channels
        BY <1>4, <2>1, ScreenAssumption DEF Channels
    <2>5. /\ OnChannels(g)
          /\ g[b] = FlatAt(kids, open, f, b)
          /\ \A c \in PluginChannels \cup m : g[c] = f[c]
        BY <2>1, <2>4
    <2> HIDE DEF g
    <2>6. \A c \in PluginChannels \cup m \cup {b} :
            FlatAt(kids, open, f, c) = FlatAt(kids, open, g, c)
        <3> SUFFICES ASSUME NEW c \in PluginChannels \cup m \cup {b}
                     PROVE  FlatAt(kids, open, f, c) = FlatAt(kids, open, g, c)
            OBVIOUS
        <3>1. c \in Channels
            BY <2>4
        <3>2. c \in Bundles => c \in m \cup {b}
            BY ScreenAssumption
        <3>3. c \in Bundles => \A d \in ToSet(kids[c]) : f[d] = g[d]
            BY <2>3, <2>5, <3>2
        <3>4. QED
            BY <3>1, <3>3, FlatAtLocal
    <2>7. Solves(m \cup {b}, g)
        BY <1>5, <2>5, <2>6
    <2>8. Shut(m \cup {b}) /\ m \cup {b} \in SUBSET Bundles
        BY <1>4, <2>1, <2>2
    <2>9. m \cup {b} \in T
        <3> HIDE DEF Solves, Shut, OnChannels
        <3>1. QED
            BY <2>5, <2>7, <2>8 DEF T
    <2>10. QED
        BY <1>3, <2>1, <2>9
<1>7. \A c \in Channels : f[c] = FlatAt(kids, open, f, c)
    BY <1>5, <1>6 DEF Channels
<1>8. f = [c \in Channels |-> f[c]]
    BY <1>5
<1>9. IsFlatten(kids, open, f)
    BY <1>7, <1>8 DEF IsFlatten
<1>10. QED
    BY <1>9

\* What a solution of the equation of Flatten returns, whichever it is: a bundle where it
\* is wrong would have a sub-bundle where it is.
LEMMA FlattenRight ==
    ASSUME NEW kids \in Kids, NEW open, Acyclic(GraphOf(kids)), NEW f, IsFlatten(kids, open, f),
           NEW c \in Channels
    PROVE  /\ f[c] \in Seq(PluginChannels)
           /\ ToSet(f[c]) = PluginChannels \cap open \cap ReachBy(kids, open, c)
<1> DEFINE Right(x) == /\ f[x] \in Seq(PluginChannels)
                       /\ ToSet(f[x]) = PluginChannels \cap open \cap ReachBy(kids, open, x)
           Wrong == {x \in Bundles : ~Right(x)}
<1>1. \A x \in Channels : f[x] = FlatAt(kids, open, f, x)
    <2> DEFINE g == f
    <2>1. f = [x \in Channels |-> FlatAt(kids, open, g, x)]
        BY DEF IsFlatten
    <2> HIDE DEF g
    <2>2. \A x \in Channels : f[x] = FlatAt(kids, open, g, x)
        BY <2>1
    <2>3. QED
        BY <2>2 DEF g
<1>2. ASSUME NEW x \in PluginChannels PROVE Right(x)
    <2>1. x \in Channels /\ ReachBy(kids, open, x) = {x}
        BY ReachBySteps DEF Channels
    <2>2. f[x] = IF x \in open THEN <<x>> ELSE <<>>
        BY <1>1, <2>1 DEF FlatAt
    <2>3. /\ <<x>> \in Seq(PluginChannels) /\ <<>> \in Seq(PluginChannels)
          /\ ToSet(<<x>>) = {x} /\ ToSet(<<>>) = {}
        BY DEF ToSet
    <2>4. QED
        BY <2>1, <2>2, <2>3
<1>3. ASSUME Wrong # {} PROVE FALSE
    <2>1. PICK b \in Wrong : \A d \in Wrong : <<b, d>> \notin GraphOf(kids)
        BY <1>3 DEF Acyclic, NoEndlessWalk
    <2>2. ASSUME NEW d \in ToSet(kids[b]) PROVE Right(d)
        <3>1. d \in Channels /\ <<b, d>> \in GraphOf(kids)
            BY <2>1, KidsIn DEF GraphOf
        <3>2. d \notin Wrong
            BY <2>1, <3>1
        <3>3. d \in PluginChannels \/ d \in Bundles
            BY <3>1 DEF Channels
        <3>4. QED
            BY <1>2, <3>2, <3>3
    <2>3. b \in Bundles /\ b \in Channels /\ b \notin PluginChannels
        BY <2>1, ScreenAssumption DEF Channels
    <2>4. /\ f[b] \in Seq(PluginChannels)
          /\ ToSet(f[b]) = UNION {ToSet(f[d]) : d \in ToSet(kids[b]) \cap open}
        <3>1. \A d \in ToSet(kids[b]) \cap open : f[d] \in Seq(PluginChannels)
            BY <2>2
        <3> HIDE DEF Right, Wrong
        <3>2. QED
            BY <1>1, <2>3, <3>1, FlatAtSet
    <2>5. ReachBy(kids, open, b) =
                {b} \cup UNION {ReachBy(kids, open, d) : d \in ToSet(kids[b]) \cap open}
        BY <2>3, ReachBySteps
    <2>6. \A d \in ToSet(kids[b]) \cap open :
            ToSet(f[d]) = PluginChannels \cap open \cap ReachBy(kids, open, d)
        BY <2>2
    <2>7. UNION {ToSet(f[d]) : d \in ToSet(kids[b]) \cap open}
            = PluginChannels \cap open
                \cap UNION {ReachBy(kids, open, d) : d \in ToSet(kids[b]) \cap open}
        BY <2>6
    <2>8. Right(b)
        BY <2>3, <2>4, <2>5, <2>7
    <2>9. QED
        BY <2>1, <2>8
<1>4. QED
    BY <1>2, <1>3 DEF Channels

-----------------------------------------------------------------------------
(* The pages that change bundles and screens. *)

\* The check of add_channel, the recursive walk down the bundles, refuses exactly the
\* additions that close a cycle, however many bundles there are.
THEOREM WalkAgrees == ScreenSpec => []WalkFindsCycles
<1>1. WalkFindsCycles
    BY WalkIsExact DEF WalkFindsCycles
<1>2. QED
    BY <1>1, PTL

LEMMA RemoveAtSet ==
    ASSUME NEW A, NEW s \in Seq(A), NEW i \in DOMAIN s
    PROVE  RemoveAt(s, i) \in Seq(A) /\ ToSet(RemoveAt(s, i)) \subseteq ToSet(s)
<1>1. /\ Len(s) \in Nat /\ DOMAIN s = 1 .. Len(s)
      /\ \A j \in 1 .. Len(s) : s[j] \in A
    BY LenProperties
<1>2. i \in Int /\ i - 1 \in Int /\ i + 1 \in Int /\ Len(s) \in Int
    BY <1>1
<1>3. PICK B : B = ToSet(s)
    OBVIOUS
<1>4. /\ \A j \in 1 .. i - 1 : s[j] \in B
      /\ \A j \in i + 1 .. Len(s) : s[j] \in B
    BY <1>1, <1>3 DEF ToSet
<1>5. SubSeq(s, 1, i - 1) \in Seq(B)
    BY <1>2, <1>4, SubSeqProperties
<1>6. SubSeq(s, i + 1, Len(s)) \in Seq(B)
    BY <1>2, <1>4, SubSeqProperties
<1>7. RemoveAt(s, i) \in Seq(B)
    BY <1>5, <1>6, ConcatProperties DEF RemoveAt
<1>8. B \subseteq A
    BY <1>1, <1>3 DEF ToSet
<1>9. RemoveAt(s, i) \in Seq(A)
    BY <1>7, <1>8, SeqMonotonic
<1>10. ToSet(RemoveAt(s, i)) \subseteq B
    <2>1. \A j \in DOMAIN RemoveAt(s, i) : RemoveAt(s, i)[j] \in B
        BY <1>7, LenProperties
    <2>2. QED
        BY <2>1 DEF ToSet
<1>11. QED
    BY <1>3, <1>9, <1>10

LEMMA ScreenStep == ScreenIInv /\ [ScreenNext]_screenVars => ScreenIInv'
<1> SUFFICES ASSUME ScreenIInv, [ScreenNext]_screenVars PROVE ScreenIInv'
    OBVIOUS
<1>0. ScreenTypeOK /\ Acyclic(Graph)
    BY DEF ScreenIInv
<1>1. ASSUME NEW b \in Bundles, NEW c \in Channels, AddChannel(b, c)
      PROVE  ScreenIInv'
    <2>1. children[b] \in Seq(Channels)
        BY <1>0 DEF ScreenTypeOK
    <2>2. /\ Append(children[b], c) \in Seq(Channels)
          /\ ToSet(Append(children[b], c)) = ToSet(children[b]) \cup {c}
        BY <2>1, AppendSet
    <2>3. \A x \in Bundles :
            children'[x] = IF x = b THEN Append(children[b], c) ELSE children[x]
        BY <1>0, <1>1 DEF AddChannel, ScreenTypeOK
    <2>4. ScreenTypeOK'
        BY <1>0, <1>1, <2>2 DEF AddChannel, ScreenTypeOK
    <2>5. Graph' = Graph \cup {<<b, c>>}
        <3>1. \A x \in Bundles, y \in Channels :
                y \in ToSet(children'[x]) <=> y \in ToSet(children[x]) \/ (x = b /\ y = c)
            BY <2>2, <2>3
        <3>2. \A e \in Bundles \X Channels : e \in Graph' <=> e \in Graph \/ e = <<b, c>>
            BY <3>1 DEF Graph
        <3>3. QED
            BY <3>2 DEF Graph
    <2>6. EndsFrom(Graph \cup {<<b, c>>}, b)
        BY <1>1, WalkIsExact DEF AddChannel
    <2>7. Acyclic(Graph \cup {<<b, c>>})
        BY <1>0, <2>6, CheckedEdge
    <2>8. QED
        BY <2>4, <2>5, <2>7 DEF ScreenIInv
<1>2. ASSUME NEW b \in Bundles, NEW c \in Channels, RemoveChannel(b, c)
      PROVE  ScreenIInv'
    <2>1. PICK i \in DOMAIN children[b] :
            children' = [children EXCEPT ![b] = RemoveAt(@, i)]
        BY <1>2 DEF RemoveChannel
    <2>2. children[b] \in Seq(Channels)
        BY <1>0 DEF ScreenTypeOK
    <2>3. /\ RemoveAt(children[b], i) \in Seq(Channels)
          /\ ToSet(RemoveAt(children[b], i)) \subseteq ToSet(children[b])
        BY <2>2, RemoveAtSet
    <2>4. \A x \in Bundles :
            children'[x] = IF x = b THEN RemoveAt(children[b], i) ELSE children[x]
        BY <1>0, <2>1 DEF ScreenTypeOK
    <2>5. ScreenTypeOK'
        BY <1>0, <1>2, <2>1, <2>3 DEF RemoveChannel, ScreenTypeOK
    <2>6. Graph' \subseteq Graph
        BY <2>3, <2>4 DEF Graph
    <2>7. Acyclic(Graph')
        BY <1>0, <2>6, FewerEdges
    <2>8. QED
        BY <2>5, <2>7 DEF ScreenIInv, Acyclic, NoEndlessWalk
<1>3. ASSUME NEW c \in Channels, SubscribeTo(c) \/ UnsubscribeFrom(c)
      PROVE  ScreenIInv'
    <2>1. subs' \in Seq(Channels)
        <3>1. CASE SubscribeTo(c)
            BY <1>0, <3>1, AppendSet DEF SubscribeTo, ScreenTypeOK
        <3>2. CASE UnsubscribeFrom(c)
            <4>1. PICK i \in DOMAIN subs : subs' = RemoveAt(subs, i)
                BY <3>2 DEF UnsubscribeFrom
            <4>2. QED
                BY <1>0, <4>1, RemoveAtSet DEF ScreenTypeOK
        <3>3. QED
            BY <1>3, <3>1, <3>2
    <2>2. UNCHANGED <<children, enabled, active>>
        BY <1>3 DEF SubscribeTo, UnsubscribeFrom
    <2>3. QED
        BY <1>0, <2>1, <2>2 DEF ScreenTypeOK, ScreenIInv, Graph
<1>4. ASSUME NEW c \in Channels, ToggleEnabled(c) PROVE ScreenIInv'
    BY <1>0, <1>4 DEF ToggleEnabled, ScreenTypeOK, ScreenIInv, Graph
<1>5. ASSUME NEW c \in PluginChannels, ToggleActive(c) PROVE ScreenIInv'
    BY <1>0, <1>5 DEF ToggleActive, ScreenTypeOK, ScreenIInv, Graph
<1>6. CASE UNCHANGED screenVars
    BY <1>0, <1>6 DEF screenVars, ScreenTypeOK, ScreenIInv, Graph
<1>7. QED
    BY <1>1, <1>2, <1>3, <1>4, <1>5, <1>6 DEF ScreenNext

\* Bundles that are changed by one request after the other have no cycle, so that every
\* screen and every preview can be rendered.
THEOREM ScreenInvariant == ScreenSpec => []ScreenIInv
<1>1. ScreenInit => ScreenIInv
    <2> SUFFICES ASSUME ScreenInit PROVE ScreenIInv
        OBVIOUS
    <2>1. <<>> \in Seq(Channels) /\ ToSet(<<>>) = {}
        BY EmptySeq DEF ToSet
    <2>2. ScreenTypeOK
        BY <2>1 DEF ScreenInit, ScreenTypeOK, Channels
    <2>3. Graph = {}
        BY <2>1 DEF ScreenInit, Graph
    <2>4. QED
        BY <2>2, <2>3 DEF ScreenIInv, Acyclic, NoEndlessWalk
<1>2. QED
    BY <1>1, ScreenStep, PTL DEF ScreenSpec

\* Flatten solves its equation, in every state.
LEMMA FlattenReaches ==
    ASSUME ScreenIInv, NEW all \in BOOLEAN, NEW c \in Channels
    PROVE  /\ Flatten(all)[c] \in Seq(PluginChannels)
           /\ ToSet(Flatten(all)[c])
                = PluginChannels \cap Open(all) \cap ReachThrough(Open(all), c)
<1>1. PICK kids, open : kids = children /\ open = Open(all)
    OBVIOUS
<1>2. kids \in Kids
    BY <1>1 DEF ScreenIInv, ScreenTypeOK, Kids
<1>3. Acyclic(GraphOf(kids))
    BY <1>1 DEF ScreenIInv, Graph, GraphOf
<1>4. Flatten(all) = CHOOSE f : IsFlatten(kids, open, f)
    BY <1>1 DEF Flatten, IsFlatten, FlatAt
<1>5. PICK f : f = CHOOSE g : IsFlatten(kids, open, g)
    OBVIOUS
<1>6. IsFlatten(kids, open, f)
    BY <1>2, <1>3, <1>5, FlattenEnds
<1>7. /\ f[c] \in Seq(PluginChannels)
      /\ ToSet(f[c]) = PluginChannels \cap open \cap ReachBy(kids, open, c)
    BY <1>2, <1>3, <1>6, FlattenRight
<1>8. ReachThrough(Open(all), c) = ReachBy(kids, open, c)
    BY <1>1 DEF ReachThrough, ReachBy
<1>9. QED
    BY <1>1, <1>4, <1>5, <1>7, <1>8

LEMMA Reached == ScreenIInv => ShowsWhatIsReachable
<1> SUFFICES ASSUME ScreenIInv PROVE ShowsWhatIsReachable
    OBVIOUS
<1>0. ScreenTypeOK
    BY DEF ScreenIInv
<1>1. ASSUME NEW c \in Channels
      PROVE  /\ ToSet(Preview(c)) = active \cap ReachThrough(Channels, c)
             /\ IsInjective(Preview(c))
    <2>1. /\ Flatten(TRUE)[c] \in Seq(PluginChannels)
          /\ ToSet(Flatten(TRUE)[c]) = PluginChannels \cap Channels \cap ReachThrough(Channels, c)
        BY FlattenReaches DEF Open
    <2>2. PICK seq : seq = Flatten(TRUE)[c]
        OBVIOUS
    <2>3. PICK wanted : wanted = active
        OBVIOUS
    <2>4. /\ ToSet(FirstOccurrences(seq, wanted)) = ToSet(seq) \cap wanted
          /\ IsInjective(FirstOccurrences(seq, wanted))
        BY <2>1, <2>2, FirstOccurrencesSet
    <2>5. Preview(c) = FirstOccurrences(seq, wanted)
        BY <2>2, <2>3 DEF Preview
    <2>6. active \subseteq PluginChannels /\ PluginChannels \subseteq Channels
        BY <1>0 DEF ScreenTypeOK, Channels
    <2>7. QED
        BY <2>1, <2>2, <2>3, <2>4, <2>5, <2>6
<1>2. /\ ToSet(ChannelsContent) =
            {c \in PluginChannels \cap enabled :
                \E i \in DOMAIN subs : c \in ReachThrough(enabled, subs[i])}
      /\ IsInjective(ChannelsContent)
    <2>1. /\ Len(subs) \in Nat /\ DOMAIN subs = 1 .. Len(subs)
          /\ \A i \in DOMAIN subs : subs[i] \in Channels
        BY <1>0, LenProperties DEF ScreenTypeOK
    <2>2. PICK ss : ss = [i \in DOMAIN subs |-> Flatten(FALSE)[subs[i]]]
        OBVIOUS
    <2>3. /\ DOMAIN ss = DOMAIN subs
          /\ \A i \in DOMAIN subs :
                /\ ss[i] \in Seq(PluginChannels)
                /\ ToSet(ss[i]) = PluginChannels \cap enabled \cap ReachThrough(enabled, subs[i])
        BY <2>1, <2>2, FlattenReaches DEF Open
    <2>4. ss \in [1 .. Len(subs) -> Seq(PluginChannels)]
        BY <2>1, <2>2, <2>3
    <2>5. ss \in Seq(Seq(PluginChannels))
        BY <2>1, <2>4, FunctionIsSeq
    <2>6. /\ FlattenSeq(ss) \in Seq(PluginChannels)
          /\ ToSet(FlattenSeq(ss)) = UNION {ToSet(ss[i]) : i \in DOMAIN ss}
        BY <2>5, FlattenSeqSet
    <2>7. PICK seq : seq = FlattenSeq(ss)
        OBVIOUS
    <2>8. /\ ToSet(FirstOccurrences(seq, PluginChannels)) = ToSet(seq) \cap PluginChannels
          /\ IsInjective(FirstOccurrences(seq, PluginChannels))
        BY <2>6, <2>7, FirstOccurrencesSet
    <2>9. ChannelsContent = FirstOccurrences(seq, PluginChannels)
        BY <2>2, <2>7 DEF ChannelsContent
    <2>10. \A c : c \in ToSet(seq) <=> \E i \in DOMAIN subs : c \in ToSet(ss[i])
        BY <2>3, <2>6, <2>7
    <2>11. QED
        BY <2>3, <2>8, <2>9, <2>10
<1>3. \A i \in DOMAIN subs : subs[i] \in Channels
    BY <1>0 DEF ScreenTypeOK
<1>4. Provided(Channels) = ToSet(ChannelsContent)
    BY <1>2, <1>3 DEF Provided
<1>5. Provided(enabled) \subseteq Provided(Channels)
    BY <1>3 DEF Provided
<1>6. QED
    BY <1>1, <1>2, <1>4, <1>5 DEF ShowsWhatIsReachable

\* A screen shows each plugin channel that an enabled subscription leads to through enabled
\* bundles, once, and none that no subscription leads to in this way; a preview shows each
\* channel whose plugin is activated: for every set of bundles and channels, nested to any
\* depth.  The disabled bundle that a screen is subscribed to is left open
\* (DisabledBundlesAreSilent is refuted).
THEOREM ScreenShows == ScreenSpec => []ShowsWhatIsReachable
BY ScreenInvariant, Reached, PTL

-----------------------------------------------------------------------------
(* The slides of a channel. *)

\* What the loop of Only has found after each turn.
IsOnly(A, seq, S, f) ==
    /\ f \in [0 .. Len(seq) -> Seq(A)]
    /\ f[0] = <<>>
    /\ \A i \in 1 .. Len(seq) :
        f[i] = IF seq[i] \in S THEN Append(f[i - 1], seq[i]) ELSE f[i - 1]

LEMMA OnlyLoop ==
    ASSUME NEW A, NEW seq \in Seq(A), NEW S
    PROVE  \E f : IsOnly(A, seq, S, f) /\ Only(seq, S) = f[Len(seq)]
<1>1. PICK N \in Nat : N = Len(seq)
    BY LenProperties
<1>2. \A i \in 1 .. N : seq[i] \in A
    BY <1>1, LenProperties
<1> DEFINE Turn(v, i) == IF seq[i] \in S THEN Append(v, seq[i]) ELSE v
           Is(f) == f = [i \in 0 .. N |-> IF i = 0 THEN <<>> ELSE Turn(f[i - 1], i)]
           found == CHOOSE f : Is(f)
<1>3. Only(seq, S) = found[N]
    BY <1>1 DEF Only
<1>4. PICK G : G = [p \in (1 .. N) \X Seq(A) |-> Turn(p[2], p[1])]
    OBVIOUS
<1>5. \A i \in 1 .. N, v \in Seq(A) : G[<<i, v>>] = Turn(v, i)
    BY <1>4
<1>6. \A i \in 1 .. N, v \in Seq(A) : Turn(v, i) \in Seq(A)
    BY <1>2, AppendSet
<1>7. <<>> \in Seq(A)
    BY EmptySeq
<1> HIDE DEF Turn
<1>8. IsLoop(Seq(A), N, <<>>, G)
    BY <1>4, <1>6, <1>7 DEF IsLoop
<1>9. PICK g : Iterates(Seq(A), N, <<>>, G, g)
    BY <1>8, LoopEnds
<1>10. ASSUME NEW i \in 1 .. N PROVE g[i] = Turn(g[i - 1], i)
    <2>1. i - 1 \in 0 .. N
        BY <1>1
    <2>2. g[i - 1] \in Seq(A)
        BY <1>9, <2>1 DEF Iterates
    <2>3. QED
        BY <1>5, <1>9, <2>2 DEF Iterates
<1>11. \A i \in 0 .. N : g[i] = IF i = 0 THEN <<>> ELSE Turn(g[i - 1], i)
    BY <1>9, <1>10 DEF Iterates
<1>12. g = [i \in 0 .. N |-> g[i]]
    BY <1>9 DEF Iterates
<1>13. Is(g)
    BY <1>11, <1>12
<1> HIDE DEF Is
<1>14. Is(found)
    BY <1>13
<1> HIDE DEF found
<1>15. /\ found = [i \in 0 .. N |-> found[i]]
       /\ \A i \in 0 .. N : found[i] = IF i = 0 THEN <<>> ELSE Turn(found[i - 1], i)
    <2> DEFINE v == found
    <2>1. found = [i \in 0 .. N |-> IF i = 0 THEN <<>> ELSE Turn(v[i - 1], i)]
        BY <1>14 DEF Is
    <2> HIDE DEF v
    <2>2. \A i \in 0 .. N : found[i] = IF i = 0 THEN <<>> ELSE Turn(v[i - 1], i)
        BY <2>1
    <2>3. found = [i \in 0 .. N |-> found[i]]
        BY <2>1
    <2>4. QED
        BY <2>2, <2>3 DEF v
<1> DEFINE T == {i \in 0 .. N : found[i] \in Seq(A)}
<1>16. 0 \in T
    BY <1>1, <1>7, <1>15
<1>17. ASSUME NEW n \in 1 .. N, n - 1 \in T PROVE n \in T
    BY <1>6, <1>15, <1>17
<1> HIDE DEF T
<1>18. 0 .. N \subseteq T
    BY <1>1, <1>16, <1>17, UpTo
<1>19. \A i \in 0 .. N : found[i] \in Seq(A)
    BY <1>18 DEF T
<1>20. found \in [0 .. N -> Seq(A)]
    BY <1>15, <1>19
<1>21. found[0] = <<>> /\ \A i \in 1 .. N : found[i] = Turn(found[i - 1], i)
    BY <1>1, <1>15
<1>22. IsOnly(A, seq, S, found)
    BY <1>1, <1>20, <1>21 DEF IsOnly, Turn
<1>23. QED
    BY <1>1, <1>3, <1>22

LEMMA OnlyNothing ==
    ASSUME NEW A, NEW s \in Seq(A), NEW S
    PROVE  Only(s, S) \in Seq(A) /\ Only(<<>>, S) = <<>>
<1>1. PICK f : IsOnly(A, s, S, f) /\ Only(s, S) = f[Len(s)]
    BY OnlyLoop
<1>2. Len(s) \in Nat
    BY LenProperties
<1>3. <<>> \in Seq(A) /\ Len(<<>>) = 0
    BY EmptySeq
<1>4. PICK h : IsOnly(A, <<>>, S, h) /\ Only(<<>>, S) = h[0]
    BY <1>3, OnlyLoop
<1>5. QED
    BY <1>1, <1>2, <1>3, <1>4 DEF IsOnly

\* Only, of a sequence that grows.
LEMMA OnlyAppend ==
    ASSUME NEW A, NEW s \in Seq(A), NEW x \in A, NEW S
    PROVE  /\ Only(s, S) \in Seq(A)
           /\ x \in S => Only(Append(s, x), S) = Append(Only(s, S), x)
           /\ x \notin S => Only(Append(s, x), S) = Only(s, S)
<1>1. PICK f : IsOnly(A, s, S, f) /\ Only(s, S) = f[Len(s)]
    BY OnlyLoop
<1>2. PICK t : t = Append(s, x)
    OBVIOUS
<1>3. PICK N \in Nat : N = Len(s)
    BY LenProperties
<1>4. /\ t \in Seq(A) /\ Len(t) = N + 1 /\ t[N + 1] = x
      /\ \A i \in 1 .. N : t[i] = s[i]
    BY <1>2, <1>3, AppendProperties
<1>5. PICK g : IsOnly(A, t, S, g) /\ Only(t, S) = g[Len(t)]
    BY <1>4, OnlyLoop
<1> DEFINE T == {i \in 0 .. N : g[i] = f[i]}
<1>6. 0 \in T
    BY <1>1, <1>3, <1>5 DEF IsOnly
<1>7. ASSUME NEW n \in 1 .. N, n - 1 \in T PROVE n \in T
    <2>1. n \in 1 .. Len(t) /\ n \in 1 .. Len(s) /\ t[n] = s[n] /\ f[n - 1] = g[n - 1]
        BY <1>3, <1>4, <1>7
    <2>2. f[n] = g[n]
        BY <1>1, <1>5, <2>1 DEF IsOnly
    <2>3. QED
        BY <2>2
<1> HIDE DEF T
<1>8. 0 .. N \subseteq T
    BY <1>3, <1>6, <1>7, UpTo
<1>9. g[N] = f[N]
    BY <1>3, <1>8 DEF T
<1>10. g[N + 1] = IF x \in S THEN Append(g[N], x) ELSE g[N]
    <2>1. N + 1 \in 1 .. Len(t) /\ (N + 1) - 1 = N
        BY <1>3, <1>4
    <2>2. QED
        BY <1>4, <1>5, <2>1 DEF IsOnly
<1>12. Only(s, S) \in Seq(A)
    BY <1>1, <1>3 DEF IsOnly
<1>13. QED
    BY <1>1, <1>2, <1>3, <1>4, <1>5, <1>9, <1>10, <1>12

\* Only, of two sequences.
LEMMA ConcatAppend ==
    ASSUME NEW A, NEW s \in Seq(A), NEW t \in Seq(A), NEW x \in A
    PROVE  s \o Append(t, x) = Append(s \o t, x)
<1>1. <<x>> \in Seq(A) /\ Append(t, x) = t \o <<x>>
    BY AppendIsConcat
<1>2. s \o t \in Seq(A) /\ Append(s \o t, x) = (s \o t) \o <<x>>
    BY ConcatSet, AppendIsConcat
<1>3. QED
    BY <1>1, <1>2, ConcatAssociative

LEMMA OnlyConcat ==
    ASSUME NEW A, NEW s \in Seq(A), NEW t \in Seq(A), NEW S
    PROVE  Only(s \o t, S) = Only(s, S) \o Only(t, S)
<1>0. ASSUME NEW v \in Seq(A), NEW x \in A
      PROVE  /\ Only(v, S) \in Seq(A)
             /\ x \in S => Only(Append(v, x), S) = Append(Only(v, S), x)
             /\ x \notin S => Only(Append(v, x), S) = Only(v, S)
    BY OnlyAppend
<1> DEFINE T == {u \in Seq(A) : Only(s \o u, S) = Only(s, S) \o Only(u, S)}
<1>1. <<>> \in T
    <2>1. <<>> \in Seq(A) /\ s \o <<>> = s
        BY EmptySeq, ConcatEmptySeq
    <2>2. Only(s, S) \in Seq(A) /\ Only(<<>>, S) = <<>>
        BY OnlyNothing
    <2>3. Only(s, S) \o <<>> = Only(s, S)
        BY <2>2, ConcatEmptySeq
    <2>4. QED
        BY <2>1, <2>2, <2>3
<1>2. ASSUME NEW u \in Seq(A), NEW x \in A, u \in T PROVE Append(u, x) \in T
    <2>1. Append(u, x) \in Seq(A) /\ s \o u \in Seq(A)
        BY AppendSet, ConcatSet
    <2>2. s \o Append(u, x) = Append(s \o u, x)
        BY ConcatAppend
    <2>3. /\ x \in S => Only(Append(s \o u, x), S) = Append(Only(s \o u, S), x)
          /\ x \notin S => Only(Append(s \o u, x), S) = Only(s \o u, S)
        BY <1>0, <2>1
    <2>4. /\ Only(s, S) \in Seq(A) /\ Only(u, S) \in Seq(A)
          /\ x \in S => Only(Append(u, x), S) = Append(Only(u, S), x)
          /\ x \notin S => Only(Append(u, x), S) = Only(u, S)
        BY <1>0
    <2>5. Append(Only(s, S) \o Only(u, S), x) = Only(s, S) \o Append(Only(u, S), x)
        <3>1. PICK p, q : /\ p = Only(s, S) /\ q = Only(u, S)
            OBVIOUS
        <3>2. p \o Append(q, x) = Append(p \o q, x)
            BY <2>4, <3>1, ConcatAppend
        <3>3. QED
            BY <3>1, <3>2
    <2>6. Only(s \o u, S) = Only(s, S) \o Only(u, S)
        BY <1>2
    <2>7. Only(s \o Append(u, x), S) = Only(s, S) \o Only(Append(u, x), S)
        <3>1. CASE x \in S
            BY <2>2, <2>3, <2>4, <2>5, <2>6, <3>1
        <3>2. CASE x \notin S
            BY <2>2, <2>3, <2>4, <2>6, <3>2
        <3>3. QED
            BY <3>1, <3>2
    <2>8. QED
        BY <2>1, <2>7
<1> HIDE DEF T
<1>3. Seq(A) \subseteq T
    BY <1>1, <1>2, ByAppending
<1>4. QED
    BY <1>3 DEF T

\* What Only keeps of a sequence of members of B or of others.
LEMMA OnlyAllOrNone ==
    ASSUME NEW A, NEW B \in SUBSET A, NEW s \in Seq(A)
    PROVE  /\ Only(s, A \ B) = <<>> <=> s \in Seq(B)
           /\ s \in Seq(B) => Only(s, B) = s
<1> DEFINE T == {u \in Seq(A) : /\ Only(u, A \ B) = <<>> <=> u \in Seq(B)
                                /\ u \in Seq(B) => Only(u, B) = u}
<1>1. <<>> \in T
    <2>1. <<>> \in Seq(A) /\ <<>> \in Seq(B)
        BY EmptySeq
    <2>2. ASSUME NEW S PROVE Only(<<>>, S) = <<>>
        BY <2>1, OnlyNothing
    <2>3. QED
        BY <2>1, <2>2
<1>2. ASSUME NEW u \in Seq(A), NEW x \in A, u \in T PROVE Append(u, x) \in T
    <2>1. /\ Append(u, x) \in Seq(A)
          /\ Append(u, x) \in Seq(B) <=> u \in Seq(B) /\ x \in B
        <3>1. PICK v : v = Append(u, x)
            OBVIOUS
        <3>2. /\ v \in Seq(A) /\ Len(v) = Len(u) + 1 /\ Len(u) \in Nat
              /\ \A i \in 1 .. Len(u) : v[i] = u[i]
              /\ v[Len(u) + 1] = x
            BY <3>1, AppendProperties, LenProperties
        <3>3. ASSUME v \in Seq(B) PROVE u \in Seq(B) /\ x \in B
            <4>1. \A i \in 1 .. Len(u) + 1 : v[i] \in B
                BY <3>2, <3>3
            <4>2. \A i \in 1 .. Len(u) : u[i] \in B
                BY <3>2, <4>1
            <4>3. u = [i \in 1 .. Len(u) |-> u[i]]
                BY LenProperties
            <4>4. u \in Seq(B)
                BY <3>2, <4>2, <4>3, FunctionIsSeq
            <4>5. QED
                BY <3>2, <4>1, <4>4
        <3>4. ASSUME u \in Seq(B), x \in B PROVE v \in Seq(B)
            BY <3>1, <3>4, AppendProperties
        <3>5. QED
            BY <3>1, <3>2, <3>3, <3>4
    <2>2. ASSUME NEW S PROVE /\ Only(u, S) \in Seq(A)
                             /\ x \in S => Only(Append(u, x), S) = Append(Only(u, S), x)
                             /\ x \notin S => Only(Append(u, x), S) = Only(u, S)
        BY OnlyAppend
    <2>3. Append(Only(u, A \ B), x) # <<>>
        <3>1. PICK v \in Seq(A) : v = Only(u, A \ B)
            BY <2>2
        <3>2. Append(v, x) # <<>>
            BY AppendProperties, EmptySeq
        <3>3. QED
            BY <3>1, <3>2
    <2>4. QED
        BY <1>2, <2>1, <2>2, <2>3
<1> HIDE DEF T
<1>3. Seq(A) \subseteq T
    BY <1>1, <1>2, ByAppending
<1>4. QED
    BY <1>3 DEF T


Reported == {NonComplyingFields(s) : s \in AllSlides}

Outs == [capsules : Seq(Seq(AllSlides)), reports : Seq(Reported)]

LEMMA ReportsOf ==
    ASSUME NEW slides \in Seq(AllSlides)
    PROVE  /\ Reports(slides) \in Seq(Reported)
           /\ Reports(slides) = <<>> <=> slides = <<>>
<1>1. /\ Len(slides) \in Nat /\ DOMAIN slides = 1 .. Len(slides)
      /\ \A i \in 1 .. Len(slides) : slides[i] \in AllSlides
    BY LenProperties
<1>2. PICK r : r = [i \in 1 .. Len(slides) |-> NonComplyingFields(slides[i])]
    OBVIOUS
<1>3. r = Reports(slides)
    BY <1>1, <1>2 DEF Reports
<1>4. r \in [1 .. Len(slides) -> Reported]
    BY <1>1, <1>2 DEF Reported
<1>5. r \in Seq(Reported)
    BY <1>1, <1>4, FunctionIsSeq
<1>6. Len(r) = Len(slides)
    BY <1>1, <1>2, <1>5, LenProperties
<1>7. QED
    BY <1>3, <1>5, <1>6, EmptySeq

LEMMA FilterCapsuleIn ==
    ASSUME NEW out \in Outs, NEW capsule \in Seq(AllSlides), NEW keeps \in BOOLEAN
    PROVE  FilterCapsule(out, capsule, keeps) \in Outs
<1>1. /\ Only(capsule, Faulty) \in Seq(AllSlides)
      /\ Only(capsule, Complying) \in Seq(AllSlides)
    BY OnlyNothing
<1>2. PICK fs, cs : /\ fs = Only(capsule, Faulty) /\ fs \in Seq(AllSlides)
                    /\ cs = Only(capsule, Complying) /\ cs \in Seq(AllSlides)
    BY <1>1
<1>3. out.reports \o Reports(fs) \in Seq(Reported)
    <2>1. Reports(fs) \in Seq(Reported) /\ out.reports \in Seq(Reported)
        BY <1>2, ReportsOf DEF Outs
    <2>2. QED
        BY <2>1, ConcatProperties
<1>4. /\ out.capsules \in Seq(Seq(AllSlides))
      /\ Append(out.capsules, capsule) \in Seq(Seq(AllSlides))
      /\ Append(out.capsules, cs) \in Seq(Seq(AllSlides))
    BY <1>2, AppendProperties DEF Outs
<1>5. QED
    BY <1>2, <1>3, <1>4 DEF FilterCapsule, Outs

\* What the loop over capsules has after each turn.
IsFilter(capsules, keeps, f) ==
    /\ f \in [0 .. Len(capsules) -> Outs]
    /\ f[0] = [capsules |-> <<>>, reports |-> <<>>]
    /\ \A i \in 1 .. Len(capsules) : f[i] = FilterCapsule(f[i - 1], capsules[i], keeps)

LEMMA FilterLoop ==
    ASSUME NEW capsules \in Seq(Seq(AllSlides)), NEW keeps \in BOOLEAN
    PROVE  \E f : /\ IsFilter(capsules, keeps, f)
                  /\ FilterNonComplyingContent(capsules, keeps) = f[Len(capsules)]
<1>1. PICK N \in Nat : N = Len(capsules)
    BY LenProperties
<1>2. \A i \in 1 .. N : capsules[i] \in Seq(AllSlides)
    BY <1>1, LenProperties
<1>3. PICK e : e = [capsules |-> <<>>, reports |-> <<>>]
    OBVIOUS
<1> DEFINE Turn(v, i) == FilterCapsule(v, capsules[i], keeps)
           Is(f) == f = [i \in 0 .. N |-> IF i = 0 THEN e ELSE Turn(f[i - 1], i)]
           found == CHOOSE f : Is(f)
<1>4. FilterNonComplyingContent(capsules, keeps) = found[N]
    BY <1>1, <1>3 DEF FilterNonComplyingContent
<1>5. PICK G : G = [p \in (1 .. N) \X Outs |-> Turn(p[2], p[1])]
    OBVIOUS
<1>6. \A i \in 1 .. N, v \in Outs : G[<<i, v>>] = Turn(v, i)
    BY <1>5
<1>7. \A i \in 1 .. N, v \in Outs : Turn(v, i) \in Outs
    BY <1>2, FilterCapsuleIn
<1>8. e \in Outs
    <2>1. <<>> \in Seq(Seq(AllSlides)) /\ <<>> \in Seq(Reported)
        BY EmptySeq
    <2>2. QED
        BY <1>3, <2>1 DEF Outs
<1> HIDE DEF Turn
<1>9. IsLoop(Outs, N, e, G)
    BY <1>5, <1>7, <1>8 DEF IsLoop
<1>10. PICK g : Iterates(Outs, N, e, G, g)
    BY <1>9, LoopEnds
<1>11. ASSUME NEW i \in 1 .. N PROVE g[i] = Turn(g[i - 1], i)
    <2>1. i - 1 \in 0 .. N
        BY <1>1
    <2>2. g[i - 1] \in Outs
        BY <1>10, <2>1 DEF Iterates
    <2>3. QED
        BY <1>6, <1>10, <2>2 DEF Iterates
<1>12. \A i \in 0 .. N : g[i] = IF i = 0 THEN e ELSE Turn(g[i - 1], i)
    BY <1>10, <1>11 DEF Iterates
<1>13. g = [i \in 0 .. N |-> g[i]]
    BY <1>10 DEF Iterates
<1>14. Is(g)
    BY <1>12, <1>13
<1> HIDE DEF Is
<1>15. Is(found)
    BY <1>14
<1> HIDE DEF found
<1>16. /\ found = [i \in 0 .. N |-> found[i]]
       /\ found[0] = e
       /\ \A i \in 1 .. N : found[i] = Turn(found[i - 1], i)
    <2> DEFINE v == found
    <2>1. found = [i \in 0 .. N |-> IF i = 0 THEN e ELSE Turn(v[i - 1], i)]
        BY <1>15 DEF Is
    <2> HIDE DEF v
    <2>2. \A i \in 0 .. N : found[i] = IF i = 0 THEN e ELSE Turn(v[i - 1], i)
        BY <2>1
    <2>3. found = [i \in 0 .. N |-> found[i]]
        BY <2>1
    <2>4. found[0] = e
        BY <1>1, <2>2
    <2>5. ASSUME NEW i \in 1 .. N PROVE found[i] = Turn(v[i - 1], i)
        <3>1. i \in 0 .. N /\ i # 0
            BY <1>1
        <3>2. QED
            BY <2>2, <3>1
    <2>6. QED
        BY <2>3, <2>4, <2>5 DEF v
<1> DEFINE T == {i \in 0 .. N : found[i] \in Outs}
<1>17. 0 \in T
    BY <1>1, <1>8, <1>16
<1>18. ASSUME NEW n \in 1 .. N, n - 1 \in T PROVE n \in T
    <2>1. found[n - 1] \in Outs /\ n \in 0 .. N
        BY <1>18
    <2>2. Turn(found[n - 1], n) \in Outs
        BY <1>7, <2>1
    <2>3. QED
        BY <1>16, <2>1, <2>2
<1> HIDE DEF T
<1>19. 0 .. N \subseteq T
    BY <1>1, <1>17, <1>18, UpTo
<1>20. \A i \in 0 .. N : found[i] \in Outs
    BY <1>19 DEF T
<1>21. found \in [0 .. N -> Outs]
    BY <1>16, <1>20
<1>22. IsFilter(capsules, keeps, found)
    BY <1>1, <1>3, <1>16, <1>21 DEF IsFilter, Turn
<1>23. QED
    BY <1>1, <1>4, <1>22

\* The loop over capsules, of a content that grows.
LEMMA FilterAppend ==
    ASSUME NEW c \in Seq(Seq(AllSlides)), NEW x \in Seq(AllSlides), NEW keeps \in BOOLEAN
    PROVE  /\ FilterNonComplyingContent(c, keeps) \in Outs
           /\ FilterNonComplyingContent(<<>>, keeps) = [capsules |-> <<>>, reports |-> <<>>]
           /\ FilterNonComplyingContent(Append(c, x), keeps)
                = FilterCapsule(FilterNonComplyingContent(c, keeps), x, keeps)
<1>1. PICK N \in Nat : N = Len(c)
    BY LenProperties
<1>2. PICK t : t = Append(c, x)
    OBVIOUS
<1>3. /\ t \in Seq(Seq(AllSlides)) /\ Len(t) = N + 1 /\ t[N + 1] = x
      /\ \A i \in 1 .. N : t[i] = c[i]
    BY <1>1, <1>2, AppendProperties
<1>4. PICK f : /\ IsFilter(c, keeps, f)
               /\ FilterNonComplyingContent(c, keeps) = f[Len(c)]
    BY FilterLoop
<1>5. PICK g : /\ IsFilter(t, keeps, g)
               /\ FilterNonComplyingContent(t, keeps) = g[Len(t)]
    BY <1>3, FilterLoop
<1> DEFINE T == {i \in 0 .. N : g[i] = f[i]}
<1>6. 0 \in T
    BY <1>1, <1>4, <1>5 DEF IsFilter
<1>7. ASSUME NEW n \in 1 .. N, n - 1 \in T PROVE n \in T
    <2>1. /\ n \in 1 .. Len(t) /\ n \in 1 .. Len(c) /\ t[n] = c[n] /\ f[n - 1] = g[n - 1]
        BY <1>1, <1>3, <1>7
    <2>2. f[n] = FilterCapsule(f[n - 1], c[n], keeps)
        BY <1>4, <2>1 DEF IsFilter
    <2>3. g[n] = FilterCapsule(g[n - 1], t[n], keeps)
        BY <1>5, <2>1 DEF IsFilter
    <2>4. g[n] = f[n]
        BY <2>1, <2>2, <2>3
    <2>5. QED
        BY <2>4
<1> HIDE DEF T
<1>8. 0 .. N \subseteq T
    BY <1>1, <1>6, <1>7, UpTo
<1>9. g[N] = f[N]
    BY <1>1, <1>8 DEF T
<1>10. g[N + 1] = FilterCapsule(g[N], x, keeps)
    <2>1. N + 1 \in 1 .. Len(t) /\ (N + 1) - 1 = N
        BY <1>1, <1>3
    <2>2. QED
        BY <1>3, <1>5, <2>1 DEF IsFilter
<1>11. FilterNonComplyingContent(<<>>, keeps) = [capsules |-> <<>>, reports |-> <<>>]
    <2>1. <<>> \in Seq(Seq(AllSlides)) /\ Len(<<>>) = 0
        BY EmptySeq
    <2>2. PICK h : /\ IsFilter(<<>>, keeps, h)
                   /\ FilterNonComplyingContent(<<>>, keeps) = h[0]
        BY <2>1, FilterLoop
    <2>3. QED
        BY <2>2 DEF IsFilter
<1>12. f[N] \in Outs
    BY <1>1, <1>4 DEF IsFilter
<1>13. QED
    BY <1>1, <1>2, <1>3, <1>4, <1>5, <1>9, <1>10, <1>11, <1>12

LEMMA ComplyingOrNot == Complying \in SUBSET AllSlides /\ Faulty = AllSlides \ Complying
BY DEF Complying, Faulty

\* What is shown and reported of the capsules c, with the answer out of the loop.
Faithful(c, keeps, out) ==
    /\ keeps => Slides(out.capsules) = Only(Slides(c), Complying)
    /\ ~keeps => out.capsules = Only(c, Seq(Complying))
    /\ out.reports = Reports(Only(Slides(c), Faulty))
    /\ out.reports = <<>> => out.capsules = c

LEMMA ReportsConcat ==
    ASSUME NEW s \in Seq(AllSlides), NEW t \in Seq(AllSlides)
    PROVE  Reports(s \o t) = Reports(s) \o Reports(t)
<1>1. PICK u \in Seq(AllSlides) : u = s \o t
    BY ConcatProperties
<1>2. /\ Len(u) = Len(s) + Len(t) /\ Len(s) \in Nat /\ Len(t) \in Nat
      /\ DOMAIN s = 1 .. Len(s) /\ DOMAIN t = 1 .. Len(t) /\ DOMAIN u = 1 .. Len(u)
      /\ \A i \in 1 .. Len(s) + Len(t) : u[i] = IF i <= Len(s) THEN s[i] ELSE t[i - Len(s)]
    BY <1>1, ConcatProperties, LenProperties
<1>3. PICK p, q, r : /\ p = Reports(s) /\ q = Reports(t) /\ r = Reports(u)
                     /\ p \in Seq(Reported) /\ q \in Seq(Reported) /\ r \in Seq(Reported)
    BY ReportsOf
<1>4. /\ Len(p) = Len(s) /\ Len(q) = Len(t) /\ Len(r) = Len(u)
      /\ \A i \in 1 .. Len(s) : p[i] = NonComplyingFields(s[i])
      /\ \A i \in 1 .. Len(t) : q[i] = NonComplyingFields(t[i])
      /\ \A i \in 1 .. Len(u) : r[i] = NonComplyingFields(u[i])
    BY <1>2, <1>3, LenProperties DEF Reports
<1>5. PICK v : v = p \o q
    OBVIOUS
<1>6. /\ v \in Seq(Reported) /\ Len(v) = Len(p) + Len(q)
      /\ \A i \in 1 .. Len(p) + Len(q) : v[i] = IF i <= Len(p) THEN p[i] ELSE q[i - Len(p)]
    BY <1>3, <1>5, ConcatProperties
<1>7. ASSUME NEW i \in 1 .. Len(r) PROVE r[i] = v[i]
    <2>1. CASE i <= Len(s)
        <3>1. i \in 1 .. Len(s) /\ i \in 1 .. Len(u) /\ i \in 1 .. Len(s) + Len(t)
            BY <1>2, <1>4, <2>1
        <3>2. r[i] = NonComplyingFields(s[i]) /\ v[i] = p[i]
            BY <1>2, <1>4, <1>6, <3>1, <2>1
        <3>3. QED
            BY <1>4, <3>1, <3>2
    <2>2. CASE i > Len(s)
        <3>1. /\ i - Len(s) \in 1 .. Len(t) /\ i \in 1 .. Len(u) /\ i \in 1 .. Len(s) + Len(t)
              /\ ~(i <= Len(s))
            BY <1>2, <1>4, <2>2
        <3>2. r[i] = NonComplyingFields(t[i - Len(s)]) /\ v[i] = q[i - Len(s)]
            BY <1>2, <1>4, <1>6, <3>1
        <3>3. QED
            BY <1>4, <3>1, <3>2
    <2>3. QED
        BY <1>2, <1>4, <2>1, <2>2
<1>8. r = v
    BY <1>2, <1>3, <1>4, <1>6, <1>7, SeqEqual
<1>9. QED
    BY <1>1, <1>3, <1>5, <1>8

\* A turn of the loop keeps what is right.
LEMMA FaithfulStep ==
    ASSUME NEW keeps \in BOOLEAN, NEW c \in Seq(Seq(AllSlides)), NEW x \in Seq(AllSlides),
           NEW old \in Outs, Faithful(c, keeps, old)
    PROVE  Faithful(Append(c, x), keeps, FilterCapsule(old, x, keeps))
<1>1. PICK fs, cs : /\ fs = Only(x, Faulty) /\ fs \in Seq(AllSlides)
                    /\ cs = Only(x, Complying) /\ cs \in Seq(AllSlides)
    BY OnlyNothing
<1>2. PICK new : new = FilterCapsule(old, x, keeps)
    OBVIOUS
<1>3. /\ new.capsules = IF fs = <<>> THEN Append(old.capsules, x)
                        ELSE IF keeps /\ cs # <<>> THEN Append(old.capsules, cs)
                        ELSE old.capsules
      /\ new.reports = old.reports \o Reports(fs)
    BY <1>1, <1>2 DEF FilterCapsule
<1>4. PICK d : d = Append(c, x) /\ d \in Seq(Seq(AllSlides))
    BY AppendProperties
<1>5. PICK sc : sc = Slides(c) /\ sc \in Seq(AllSlides)
    BY FlattenSeqSet DEF Slides
<1>6. PICK oc, or : /\ oc = old.capsules /\ oc \in Seq(Seq(AllSlides))
                    /\ or = old.reports /\ or \in Seq(Reported)
    BY DEF Outs
<1>7. PICK so : so = Slides(oc) /\ so \in Seq(AllSlides)
    BY <1>6, FlattenSeqSet DEF Slides
<1>8. Slides(d) = sc \o x
    BY <1>4, <1>5, FlattenAppend DEF Slides
<1>9. /\ Only(Slides(d), Complying) = Only(sc, Complying) \o cs
      /\ Only(Slides(d), Faulty) = Only(sc, Faulty) \o fs
    <2>1. ASSUME NEW s \in Seq(AllSlides), NEW t \in Seq(AllSlides), NEW S
          PROVE  Only(s \o t, S) = Only(s, S) \o Only(t, S)
        BY OnlyConcat
    <2>2. QED
        <3>1. \A S : Only(sc \o x, S) = Only(sc, S) \o Only(x, S)
            BY <1>5, <2>1
        <3>2. /\ Only(sc \o x, Complying) = Only(sc, Complying) \o cs
              /\ Only(sc \o x, Faulty) = Only(sc, Faulty) \o fs
            BY <1>1, <3>1, Zenon
        <3>3. QED
            BY <1>8, <3>2
<1>10. fs = <<>> <=> x \in Seq(Complying)
    BY <1>1, OnlyAllOrNone, ComplyingOrNot
<1>11. fs = <<>> => cs = x
    <2>1. x \in Seq(Complying) => Only(x, Complying) = x
        <3>1. ASSUME NEW B \in SUBSET AllSlides, x \in Seq(B) PROVE Only(x, B) = x
            BY <3>1, OnlyAllOrNone
        <3>2. QED
            BY <3>1, ComplyingOrNot
    <2>2. QED
        BY <1>1, <1>10, <2>1
<1>12. /\ Slides(Append(oc, x)) = so \o x
       /\ Slides(Append(oc, cs)) = so \o cs
       /\ so \o <<>> = so
    BY <1>1, <1>6, <1>7, FlattenAppend, ConcatEmptySeq DEF Slides
<1>13. ASSUME keeps PROVE Slides(new.capsules) = Only(Slides(d), Complying)
    <2>1. so = Only(sc, Complying)
        BY <1>5, <1>6, <1>7, <1>13 DEF Faithful
    <2>2. CASE fs = <<>>
        BY <1>3, <1>6, <1>9, <1>11, <1>12, <2>1, <2>2
    <2>3. CASE fs # <<>> /\ cs # <<>>
        BY <1>3, <1>6, <1>9, <1>12, <1>13, <2>1, <2>3
    <2>4. CASE fs # <<>> /\ cs = <<>>
        BY <1>3, <1>6, <1>7, <1>9, <1>12, <2>1, <2>4
    <2>5. QED
        BY <2>2, <2>3, <2>4
<1>14. ASSUME ~keeps PROVE new.capsules = Only(d, Seq(Complying))
    <2>1. oc = Only(c, Seq(Complying))
        BY <1>6, <1>14 DEF Faithful
    <2>2. /\ x \in Seq(Complying) =>
                Only(Append(c, x), Seq(Complying)) = Append(Only(c, Seq(Complying)), x)
          /\ x \notin Seq(Complying) =>
                Only(Append(c, x), Seq(Complying)) = Only(c, Seq(Complying))
        <3>1. PICK A, S : A = Seq(AllSlides) /\ S = Seq(Complying)
            OBVIOUS
        <3>2. /\ Only(c, S) \in Seq(A)
              /\ x \in S => Only(Append(c, x), S) = Append(Only(c, S), x)
              /\ x \notin S => Only(Append(c, x), S) = Only(c, S)
            <4>1. c \in Seq(A) /\ x \in A
                BY <3>1
            <4>2. QED
                BY <4>1, OnlyAppend
        <3>3. QED
            BY <3>1, <3>2
    <2>3. CASE fs = <<>>
        BY <1>3, <1>4, <1>6, <1>10, <2>1, <2>2, <2>3
    <2>4. CASE fs # <<>>
        BY <1>3, <1>4, <1>6, <1>10, <1>14, <2>1, <2>2, <2>4
    <2>5. QED
        BY <2>3, <2>4
<1>15. new.reports = Reports(Only(Slides(d), Faulty))
    <2>1. or = Reports(Only(sc, Faulty)) /\ Only(sc, Faulty) \in Seq(AllSlides)
        BY <1>5, <1>6, OnlyNothing DEF Faithful
    <2>2. PICK of : of = Only(sc, Faulty) /\ of \in Seq(AllSlides) /\ or = Reports(of)
        BY <2>1
    <2>3. Reports(of \o fs) = Reports(of) \o Reports(fs)
        BY <1>1, <2>2, ReportsConcat
    <2>4. QED
        BY <1>3, <1>6, <1>9, <2>2, <2>3
<1>16. ASSUME new.reports = <<>> PROVE new.capsules = d
    <2>1. PICK rf : rf = Reports(fs) /\ rf \in Seq(Reported) /\ (rf = <<>> <=> fs = <<>>)
        BY <1>1, ReportsOf
    <2>2. or = <<>> /\ rf = <<>>
        <3>1. or \o rf = <<>>
            BY <1>3, <1>6, <1>16, <2>1
        <3>2. QED
            BY <1>6, <2>1, <3>1, ConcatEqualIffEmpty
    <2>3. oc = c
        BY <1>6, <2>2 DEF Faithful
    <2>4. QED
        BY <1>3, <1>4, <1>6, <2>1, <2>2, <2>3
<1>17. Faithful(d, keeps, new)
    BY <1>13, <1>14, <1>15, <1>16 DEF Faithful
<1>18. QED
    BY <1>2, <1>4, <1>17

LEMMA FilterIsRight ==
    ASSUME NEW keeps \in BOOLEAN, NEW content0 \in Seq(Seq(AllSlides))
    PROVE  Faithful(content0, keeps, FilterNonComplyingContent(content0, keeps))
<1> DEFINE F(c) == FilterNonComplyingContent(c, keeps)
           T == {c \in Seq(Seq(AllSlides)) : Faithful(c, keeps, F(c))}
<1>1. <<>> \in T
    <2>1. <<>> \in Seq(Seq(AllSlides)) /\ <<>> \in Seq(AllSlides)
        BY EmptySeq
    <2>2. PICK out : out = F(<<>>) /\ out.capsules = <<>> /\ out.reports = <<>>
        <3>1. FilterNonComplyingContent(<<>>, keeps) = [capsules |-> <<>>, reports |-> <<>>]
            BY <2>1, FilterAppend
        <3>2. QED
            BY <3>1
    <2>3. Slides(<<>>) = <<>>
        BY <2>1, FlattenAppend DEF Slides
    <2>4. /\ Only(<<>>, Complying) = <<>> /\ Only(<<>>, Seq(Complying)) = <<>>
          /\ Only(<<>>, Faulty) = <<>>
        BY <2>1, OnlyNothing
    <2>5. Reports(<<>>) = <<>>
        BY <2>1, ReportsOf
    <2>6. Faithful(<<>>, keeps, out)
        BY <2>2, <2>3, <2>4, <2>5 DEF Faithful
    <2>7. QED
        BY <2>1, <2>2, <2>6
<1>2. ASSUME NEW c \in Seq(Seq(AllSlides)), NEW x \in Seq(AllSlides), c \in T
      PROVE  Append(c, x) \in T
    <2>1. PICK d : d = Append(c, x) /\ d \in Seq(Seq(AllSlides))
        BY AppendProperties
    <2>2. PICK old : old = F(c) /\ old \in Outs /\ Faithful(c, keeps, old)
        BY <1>2, FilterAppend
    <2>3. PICK new : new = F(d) /\ new = FilterCapsule(old, x, keeps)
        BY <2>1, <2>2, FilterAppend
    <2>4. PICK fs, cs : /\ fs = Only(x, Faulty) /\ fs \in Seq(AllSlides)
                        /\ cs = Only(x, Complying) /\ cs \in Seq(AllSlides)
        BY OnlyNothing
    <2>5. Faithful(d, keeps, new)
        BY <2>1, <2>2, <2>3, <2>4, FaithfulStep
    <2>6. QED
        BY <2>1, <2>3, <2>5
<1> HIDE DEF T
<1>3. Seq(Seq(AllSlides)) \subseteq T
    BY <1>1, <1>2, ByAppending
<1>4. QED
    BY <1>3 DEF T

FilterFacts ==
    /\ settings \in BOOLEAN \X BOOLEAN \X BOOLEAN \X SUBSET People
    /\ content \in Seq(Seq(AllSlides))
    /\ Faithful(content, keep, [capsules |-> shown, reports |-> filteredOut])
    /\ alerted = IF filteredOut # <<>> /\ emailing /\ ~silent THEN Recipients ELSE {}

\* Nothing is rendered: nothing is to be shown, reported or told.
LEMMA NothingIsFaithful ==
    ASSUME NEW k \in BOOLEAN
    PROVE  /\ <<>> \in Seq(Seq(AllSlides))
           /\ Faithful(<<>>, k, [capsules |-> <<>>, reports |-> <<>>])
<1>1. <<>> \in Seq(Seq(AllSlides)) /\ <<>> \in Seq(AllSlides)
    BY EmptySeq
<1>2. /\ Slides(<<>>) = <<>> /\ Reports(<<>>) = <<>>
      /\ Only(<<>>, Complying) = <<>> /\ Only(<<>>, Seq(Complying)) = <<>>
      /\ Only(<<>>, Faulty) = <<>>
    BY <1>1, FlattenAppend, ReportsOf, OnlyNothing DEF Slides
<1>3. QED
    BY <1>1, <1>2 DEF Faithful

LEMMA FilterFactsHold == FilterSpec => []FilterFacts
<1>1. FilterInit => FilterFacts
    BY NothingIsFaithful DEF FilterInit, FilterFacts, settings
<1>2. FilterFacts /\ [FilterNext]_filterVars => FilterFacts'
    <2> SUFFICES ASSUME FilterFacts, [FilterNext]_filterVars PROVE FilterFacts'
        OBVIOUS
    <2>1. ASSUME NEW c \in Contents, Render(c) PROVE FilterFacts'
        <3>1. c \in Seq(Seq(AllSlides)) /\ keep \in BOOLEAN
            BY FilterAssumption DEF FilterFacts, settings
        <3>2. PICK out : /\ out = FilterNonComplyingContent(c, keep)
                         /\ Faithful(c, keep, out) /\ out \in Outs
            <4>1. ASSUME NEW k \in BOOLEAN
                  PROVE  /\ FilterNonComplyingContent(c, k) \in Outs
                         /\ Faithful(c, k, FilterNonComplyingContent(c, k))
                <5>1. Faithful(c, k, FilterNonComplyingContent(c, k))
                    BY <3>1, FilterIsRight
                <5>2. <<>> \in Seq(AllSlides)
                    BY EmptySeq
                <5>3. FilterNonComplyingContent(c, k) \in Outs
                    BY <3>1, <5>2, FilterAppend
                <5>4. QED
                    BY <5>1, <5>3
            <4>2. QED
                BY <3>1, <4>1
        <3>3. /\ content' = c /\ shown' = out.capsules /\ filteredOut' = out.reports
              /\ alerted' = IF out.reports # <<>> /\ emailing /\ ~silent THEN Recipients ELSE {}
              /\ emailing' = emailing /\ keep' = keep /\ silent' = silent /\ managers' = managers
            BY <2>1, <3>2 DEF Render, settings
        <3>4. Faithful(c, keep, [capsules |-> out.capsules, reports |-> out.reports])
            BY <3>2 DEF Faithful
        <3>5. Recipients' = Recipients
            BY <3>3 DEF Recipients
        <3>6. QED
            BY <3>1, <3>3, <3>4, <3>5 DEF FilterFacts, settings
    <2>2. ASSUME NEW k \in BOOLEAN, NEW s \in BOOLEAN, NEW people \in SUBSET People,
                 ConfigureFilter(k, s, people)
          PROVE  FilterFacts'
        BY <2>2, NothingIsFaithful DEF ConfigureFilter, NothingRendered, FilterFacts, settings
    <2>3. ASSUME NEW mails \in BOOLEAN, StartEmailing(mails) PROVE FilterFacts'
        <3>1. keep \in BOOLEAN
            BY DEF FilterFacts, settings
        <3>2. QED
            BY <2>3, <3>1, NothingIsFaithful DEF StartEmailing, NothingRendered, FilterFacts, settings
    <2>4. CASE UNCHANGED filterVars
        <3>1. Recipients' = Recipients
            BY <2>4 DEF filterVars, settings, Recipients
        <3>2. QED
            BY <2>4, <3>1 DEF FilterFacts, filterVars, settings
    <2>5. QED
        BY <2>1, <2>2, <2>3, <2>4 DEF FilterNext
<1>3. QED
    BY <1>1, <1>2, PTL DEF FilterSpec

\* For any slides, limits and capsules: what is rendered of a channel, what is reported
\* and who is told of it, if anyone, are what the settings of the application and of the
\* channel ask for.
THEOREM FilterFaithful == FilterSpec => []FilterIsFaithful
<1>1. FilterFacts => FilterIsFaithful
    <2> SUFFICES ASSUME FilterFacts PROVE FilterIsFaithful
        OBVIOUS
    <2>1. /\ keep => Slides(shown) = Only(Slides(content), Complying)
          /\ ~keep => shown = Only(content, Seq(Complying))
          /\ filteredOut = Reports(Only(Slides(content), Faulty))
          /\ filteredOut = <<>> => shown = content
        BY DEF FilterFacts, Faithful
    <2>2. ASSUME shown # content, emailing, ~silent
          PROVE  alerted # {} /\ (managers # {} => alerted = managers)
        <3>1. alerted = Recipients
            BY <2>1, <2>2 DEF FilterFacts
        <3>2. QED
            BY <3>1 DEF Recipients
    <2>3. (filteredOut = <<>> => alerted = {}) /\ (~(emailing /\ ~silent) => alerted = {})
        BY DEF FilterFacts
    <2>4. IF keep THEN Slides(shown) = Only(Slides(content), Complying)
                  ELSE shown = Only(content, Seq(Complying))
        BY <2>1
    <2>5. QED
        BY <2>1, <2>2, <2>3, <2>4 DEF FilterIsFaithful
<1>2. QED
    BY <1>1, FilterFactsHold, PTL
=============================================================================

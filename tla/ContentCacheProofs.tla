------------------------- MODULE ContentCacheProofs -------------------------
(* Proofs about ContentCache, for any threads, validity and bounds. *)
EXTENDS ContentCache, SequenceTheorems, TLAPS

\* The types, and that a request which works on a content has one.
TypeInv ==
    /\ TypeOK
    /\ \A t \in Threads :
          pc[t] \in {"store", "dereference", "path", "answer", "empty"} => obj[t] \in Contents

\* What is, or will be, stored is as recent as the last invalidation that holds.
FloorInv ==
    /\ floor <= Version
    /\ cache # None => content[cache].version >= floor
    /\ \A t \in Threads :
          /\ owed[t] <= floor
          /\ pc[t] \in {"now", "fresh", "fetch"} => loaded[t].version >= floor
          /\ pc[t] = "store" => content[obj[t]].version >= floor
          /\ pc[t] \in {"dereference", "path", "answer"} =>
                content[obj[t]].version >= owed[t]

\* What had been seen in this version at that time had not changed before.
Since(version, time) == \A k \in (version + 1)..Version : changes[k] >= time

\* A content was up to date when its row was read, and one that a request is about to
\* answer is fresh for this request.
AgeInv ==
    /\ \A t \in Threads :
          /\ now[t] <= clock /\ loaded[t].time <= clock
          /\ pc[t] \in {"now", "fresh", "fetch"} => Since(loaded[t].version, loaded[t].time)
          /\ pc[t] \in {"fresh", "fetch"} => loaded[t].time <= now[t]
    /\ \A o \in Contents :
          /\ content[o].read <= content[o].retrieval_time
          /\ content[o].retrieval_time <= clock
          /\ Since(content[o].version, content[o].read)
    /\ \A t \in Threads : ~swapped[t] =>
          /\ pc[t] = "take" /\ cache # None => content[cache].retrieval_time + Validity > now[t]
          /\ pc[t] \in {"store", "dereference", "path", "answer"} =>
                content[obj[t]].retrieval_time + Validity > now[t]

-----------------------------------------------------------------------------
(* Types. *)

LEMMA CollectType == ASSUME TypeOK, Collect
                     PROVE  content' \in [Contents -> [version : 0..MaxChanges,
                                             retrieval_time : 0..MaxTime,
                                             image : Image, read : 0..MaxTime]]
BY ContentAssumption DEF Collect, TypeOK, Unused, Image

\* Post-processing changes the state of the image of a content, and nothing else.
LEMMA SetImage ==
    ASSUME TypeOK, NEW o \in Contents, NEW i \in Image,
           content' = [content EXCEPT ![o].image = i]
    PROVE  /\ content' \in [Contents -> [version : 0..MaxChanges, retrieval_time : 0..MaxTime,
                                         image : Image, read : 0..MaxTime]]
           /\ \A p \in Contents : /\ content'[p].version = content[p].version
                                  /\ content'[p].retrieval_time = content[p].retrieval_time
                                  /\ content'[p].read = content[p].read
<1>1. content' = [content EXCEPT ![o] = [content[o] EXCEPT !.image = i]]
  OBVIOUS
<1>2. content[o] \in [version : 0..MaxChanges, retrieval_time : 0..MaxTime,
                      image : Image, read : 0..MaxTime]
  BY DEF TypeOK
<1>3. [content[o] EXCEPT !.image = i] \in [version : 0..MaxChanges, retrieval_time : 0..MaxTime,
                                          image : Image, read : 0..MaxTime]
  BY <1>2
<1> QED
  BY <1>1, <1>2, <1>3, SMTT(30) DEF TypeOK

\* What is in use keeps its value.
LEMMA Kept == ASSUME Collect, NEW o \in Contents, o \in InUse(cache', obj')
              PROVE  content'[o] = content[o]
BY DEF Collect

LEMMA InitType == Init => TypeInv
BY ContentAssumption DEF Init, TypeInv, TypeOK, Unused, Image, Version

LEMMA NextType == TypeInv /\ [Next]_vars => TypeInv'
<1> SUFFICES ASSUME TypeInv, [Next]_vars PROVE TypeInv'
  OBVIOUS
<1> USE DEF TypeInv
<1>1. Version \in 0..MaxChanges /\ clock \in 0..MaxTime /\ 0 \in 0..MaxChanges /\ 0 \in 0..MaxTime
  BY ContentAssumption DEF TypeOK, Version
<1>2. ASSUME NEW t \in Threads, NEW from, End(t, from), UNCHANGED <<clock, changes, floor>>
      PROVE  TypeInv'
  <2>1. content' \in [Contents -> [version : 0..MaxChanges, retrieval_time : 0..MaxTime,
                                   image : Image, read : 0..MaxTime]]
    BY <1>2, CollectType DEF End
  <2> QED
    BY <1>1, <1>2, <2>1 DEF TypeOK, End, Goto, Version
<1>3. ASSUME NEW t \in Threads, Load(t) PROVE TypeInv'
  BY <1>1, <1>3 DEF TypeOK, Load, Goto, Version
<1>4. ASSUME NEW t \in Threads, NEW activated \in BOOLEAN, InCache(t, activated) PROVE TypeInv'
  BY <1>1, <1>4 DEF TypeOK, InCache, Goto, Version
<1>5. ASSUME NEW t \in Threads, IsFresh(t) PROVE TypeInv'
  BY <1>5 DEF TypeOK, IsFresh, Goto, Version, requestVars
<1>6. ASSUME NEW t \in Threads, Take(t) PROVE TypeInv'
  BY <1>6 DEF TypeOK, Take, Goto, Version, requestVars
<1>7. ASSUME NEW t \in Threads, EntryIsGone(t) PROVE TypeInv'
  BY <1>2, <1>7 DEF EntryIsGone
<1>8. ASSUME NEW t \in Threads, NEW o \in Contents, NEW v \in 0..Version, Fetch(t, o, v)
      PROVE  TypeInv'
  <2>1. [version |-> v, retrieval_time |-> now[t], image |-> "file", read |-> loaded[t].time]
          \in [version : 0..MaxChanges, retrieval_time : 0..MaxTime,
               image : Image, read : 0..MaxTime]
    BY <1>1, ContentAssumption DEF TypeOK, Image
  <2> QED
    BY <1>8, <2>1 DEF TypeOK, Fetch, Goto, Version, requestVars
<1>9. ASSUME NEW t \in Threads, FetchFails(t) PROVE TypeInv'
  BY <1>2, <1>9 DEF FetchFails
<1>10. ASSUME NEW t \in Threads, Store(t) PROVE TypeInv'
  <2>1. content' \in [Contents -> [version : 0..MaxChanges, retrieval_time : 0..MaxTime,
                                   image : Image, read : 0..MaxTime]]
    BY <1>10, CollectType DEF Store
  <2>2. obj[t] \in Contents
    BY <1>10 DEF Store, Goto
  <2>3. swapped' \in [Threads -> BOOLEAN]
    BY <1>10 DEF Store, TypeOK
  <2> QED
    BY <1>10, <2>1, <2>2, <2>3 DEF TypeOK, Store, Goto, Version, requestVars
<1>11. ASSUME NEW t \in Threads, Dereference(t) PROVE TypeInv'
  <2>1. obj[t] \in Contents /\ "none" \in Image
    BY <1>11 DEF Dereference, Goto, Image
  <2>2. content' \in [Contents -> [version : 0..MaxChanges, retrieval_time : 0..MaxTime,
                                   image : Image, read : 0..MaxTime]]
    BY <1>11, <2>1, SetImage DEF Dereference, TypeOK
  <2> QED
    BY <1>11, <2>2 DEF TypeOK, Dereference, Goto, Version, requestVars
<1>12. ASSUME NEW t \in Threads, AssetPath(t) \/ AssetIsGone(t) PROVE TypeInv'
  <2>1. obj[t] \in Contents /\ "src" \in Image /\ "lost" \in Image
    BY <1>12 DEF AssetPath, AssetIsGone, Goto, Image
  <2>2. content' \in [Contents -> [version : 0..MaxChanges, retrieval_time : 0..MaxTime,
                                   image : Image, read : 0..MaxTime]]
    BY <1>12, <2>1, SetImage DEF AssetPath, AssetIsGone
  <2> QED
    BY <1>12, <2>2 DEF TypeOK, AssetPath, AssetIsGone, Goto, Version, requestVars
<1>13. ASSUME NEW t \in Threads, Answer(t) PROVE TypeInv'
  BY <1>2, <1>13 DEF Answer
<1>14. ASSUME NEW t \in Threads, ForceUpdate(t) PROVE TypeInv'
  BY <1>14 DEF TypeOK, ForceUpdate, Goto, Version, requestVars
<1>15. ASSUME Version < MaxChanges, changes' = Append(changes, clock)
       PROVE  changes' \in Seq(0..MaxTime) /\ Version' <= MaxChanges
  BY <1>1, <1>15, ContentAssumption DEF TypeOK, Version
<1>16. ASSUME NEW t \in Threads, Configure(t) PROVE TypeInv'
  BY <1>15, <1>16 DEF TypeOK, Configure, Goto, requestVars
<1>17. ASSUME NEW t \in Threads, InvalidateCache(t) PROVE TypeInv'
  <2>1. content' \in [Contents -> [version : 0..MaxChanges, retrieval_time : 0..MaxTime,
                                   image : Image, read : 0..MaxTime]]
    BY <1>17, CollectType DEF InvalidateCache
  <2> QED
    BY <1>1, <1>17, <2>1 DEF TypeOK, InvalidateCache, Goto, Version, requestVars
<1>18. CASE Change
  BY <1>15, <1>18 DEF TypeOK, Change, requestVars
<1>19. CASE Tick
  BY <1>19, ContentAssumption DEF TypeOK, Tick, Version, requestVars
<1>20. CASE UNCHANGED vars
  BY <1>20 DEF TypeOK, vars, Version, requestVars
<1> QED
  BY <1>3, <1>4, <1>5, <1>6, <1>7, <1>8, <1>9, <1>10, <1>11, <1>12, <1>13, <1>14, <1>16, <1>17,
     <1>18, <1>19, <1>20 DEF Next

\* Every variable keeps its type, and a request that works on a content has one.
THEOREM TypeCorrect == Spec => []TypeOK
<1>1. Spec => []TypeInv
  BY InitType, NextType, PTL DEF Spec
<1> QED
  BY <1>1, PTL DEF TypeInv

-----------------------------------------------------------------------------
(* Invalidation. *)

\* Apart from Fetch, no step changes what is in the contents that remain in use.
SameContents ==
    \A o \in Contents : o \in InUse(cache', obj') =>
        /\ content'[o].version = content[o].version
        /\ content'[o].retrieval_time = content[o].retrieval_time
        /\ content'[o].read = content[o].read

LEMMA NextContents ==
    ASSUME TypeInv, [Next]_vars
    PROVE  \/ SameContents
           \/ \E t \in Threads, o \in Contents, v \in 0..Version : Fetch(t, o, v)
<1>1. ASSUME Collect PROVE SameContents
  BY <1>1, Kept DEF SameContents
<1>2. ASSUME UNCHANGED content PROVE SameContents
  BY <1>2 DEF SameContents
<1>3. ASSUME NEW t \in Threads, Dereference(t) \/ AssetPath(t) \/ AssetIsGone(t)
      PROVE  SameContents
  <2>1. obj[t] \in Contents /\ "none" \in Image /\ "src" \in Image /\ "lost" \in Image
    BY <1>3 DEF Dereference, AssetPath, AssetIsGone, Goto, TypeInv, Image
  <2>2. content' = content \/ \E i \in Image : content' = [content EXCEPT ![obj[t]].image = i]
    BY <1>3, <2>1 DEF Dereference, AssetPath, AssetIsGone
  <2> QED
    BY <1>2, <2>1, <2>2, SetImage DEF SameContents, TypeInv
<1> QED
  BY <1>1, <1>2, <1>3
  DEF Next, Load, InCache, IsFresh, Take, EntryIsGone, FetchFails, Store, Answer, Configure,
      ForceUpdate, InvalidateCache, Change, Tick, vars, End

LEMMA NextFloor == TypeInv /\ FloorInv /\ [Next]_vars => FloorInv'
<1> SUFFICES ASSUME TypeInv, FloorInv, [Next]_vars PROVE FloorInv'
  OBVIOUS
<1> USE DEF TypeInv
<1>1. Version \in Nat /\ floor \in Nat /\ \A t \in Threads : owed[t] \in Nat
  BY ContentAssumption DEF TypeOK, Version
<1>2. cache # None => cache \in Contents /\ cache \in InUse(cache, obj)
  BY DEF TypeOK, InUse
<1>3. \A t \in Threads : obj[t] # None => obj[t] \in Contents /\ obj[t] \in InUse(cache, obj)
  BY DEF TypeOK, InUse
<1>4. TypeInv'
  BY NextType
<1>5. cache' # None => cache' \in Contents /\ cache' \in InUse(cache', obj')
  BY <1>4 DEF TypeOK, InUse
<1>6. \A t \in Threads : obj'[t] # None => obj'[t] \in Contents /\ obj'[t] \in InUse(cache', obj')
  BY <1>4 DEF TypeOK, InUse
<1>7. None \notin Contents
  BY ContentAssumption
<1>8. ASSUME NEW t \in Threads, NEW from, End(t, from), UNCHANGED <<clock, changes, floor>>,
             SameContents
      PROVE  FloorInv'
  <2>1. pc'[t] = "idle" /\ owed'[t] = 0 /\ UNCHANGED <<floor, cache, Version>>
    BY <1>8 DEF End, Goto, TypeOK, Version
  <2>2. \A v \in Threads : v # t => /\ pc'[v] = pc[v] /\ obj'[v] = obj[v]
                                    /\ loaded'[v] = loaded[v] /\ owed'[v] = owed[v]
    BY <1>8 DEF End, Goto, TypeOK
  <2> QED
    BY <1>1, <1>5, <1>6, <1>7, <1>8, <2>1, <2>2 DEF FloorInv, SameContents
<1>9. ASSUME SameContents, UNCHANGED <<cache, obj, pc, requestVars, floor>>,
             Version' \in Nat, Version' >= Version
      PROVE  FloorInv'
  <2>1. floor' <= Version'
    BY <1>1, <1>9 DEF FloorInv
  <2> QED
    BY <1>1, <1>5, <1>6, <1>7, <1>9, <2>1 DEF FloorInv, SameContents, requestVars
<1>10. ASSUME NEW t \in Threads, Load(t), SameContents PROVE FloorInv'
  BY <1>1, <1>5, <1>6, <1>7, <1>10 DEF FloorInv, Load, Goto, TypeOK, SameContents, Version
<1>11. ASSUME NEW t \in Threads, NEW activated \in BOOLEAN, InCache(t, activated), SameContents
       PROVE  FloorInv'
  BY <1>1, <1>5, <1>6, <1>7, <1>11 DEF FloorInv, InCache, Goto, TypeOK, SameContents, Version
<1>12. ASSUME NEW t \in Threads, IsFresh(t), SameContents PROVE FloorInv'
  BY <1>1, <1>5, <1>6, <1>7, <1>12
  DEF FloorInv, IsFresh, Goto, TypeOK, SameContents, Version, requestVars
<1>13. ASSUME NEW t \in Threads, Take(t), SameContents PROVE FloorInv'
  <2>1. \A v \in Threads : v # t => pc'[v] = pc[v] /\ obj'[v] = obj[v]
    BY <1>13 DEF Take, Goto, TypeOK
  <2>2. pc'[t] = "dereference" /\ obj'[t] = cache /\ cache # None
    BY <1>13 DEF Take, Goto, TypeOK
  <2>3. content'[cache].version = content[cache].version
        /\ content[cache].version >= floor /\ content[cache].version \in Nat
    BY <1>2, <1>5, <1>13, <2>2 DEF SameContents, Take, FloorInv, TypeOK
  <2>4. UNCHANGED <<cache, floor, requestVars, Version>>
    BY <1>13 DEF Take, Version
  <2>5. owed'[t] <= content'[cache].version
    BY <1>1, <2>3, <2>4 DEF FloorInv, requestVars
  <2> QED
    BY <1>1, <1>5, <1>6, <1>7, <1>13, <2>1, <2>2, <2>3, <2>4, <2>5
    DEF FloorInv, SameContents, requestVars
<1>14. ASSUME NEW t \in Threads, NEW o \in Contents, NEW v \in 0..Version, Fetch(t, o, v)
       PROVE  FloorInv'
  <2>1. content'[o].version = v /\ \A p \in Contents : p # o => content'[p] = content[p]
    BY <1>14 DEF Fetch, TypeOK
  <2>2. cache # o /\ \A w \in Threads : obj[w] # o
    BY <1>14 DEF Fetch, InUse
  <2>3. v >= floor /\ v \in Nat
    BY <1>1, <1>14 DEF Fetch, Goto, FloorInv, TypeOK
  <2>4. obj'[t] = o /\ \A w \in Threads : w # t => obj'[w] = obj[w] /\ pc'[w] = pc[w]
    BY <1>14 DEF Fetch, Goto, TypeOK
  <2>5. pc'[t] = "store" /\ UNCHANGED <<cache, floor, requestVars, Version>>
    BY <1>14 DEF Fetch, Goto, TypeOK, Version
  <2> QED
    BY <1>2, <1>3, <1>7, <2>1, <2>2, <2>3, <2>4, <2>5 DEF FloorInv, requestVars
<1>15. ASSUME NEW t \in Threads, Store(t), SameContents PROVE FloorInv'
  <2>1. obj[t] \in Contents /\ content[obj[t]].version >= floor /\ owed[t] <= floor
    BY <1>15 DEF Store, Goto, FloorInv
  <2>2. content[obj[t]].version \in Nat
    BY <2>1 DEF TypeOK
  <2>3. UNCHANGED <<floor, requestVars, Version, obj>> /\ cache' = obj[t]
    BY <1>15 DEF Store, Version
  <2>4. pc'[t] = "dereference" /\ \A v \in Threads : v # t => pc'[v] = pc[v]
    BY <1>15 DEF Store, Goto, TypeOK
  <2> QED
    BY <1>1, <1>5, <1>6, <1>7, <1>15, <2>1, <2>2, <2>3, <2>4
    DEF FloorInv, SameContents, requestVars
<1>16. ASSUME NEW t \in Threads, Dereference(t) \/ AssetPath(t) \/ AssetIsGone(t), SameContents
       PROVE  FloorInv'
  <2>1. UNCHANGED <<floor, requestVars, Version, obj, cache>>
    BY <1>16 DEF Dereference, AssetPath, AssetIsGone, Version
  <2>2. /\ pc[t] \in {"dereference", "path"} /\ pc'[t] \in {"path", "answer", "empty"}
        /\ \A v \in Threads : v # t => pc'[v] = pc[v]
    BY <1>16 DEF Dereference, AssetPath, AssetIsGone, Goto, TypeOK
  <2> QED
    BY <1>1, <1>5, <1>6, <1>7, <1>16, <2>1, <2>2 DEF FloorInv, SameContents, requestVars
<1>17. ASSUME NEW t \in Threads, Configure(t) \/ ForceUpdate(t), SameContents PROVE FloorInv'
  <2>1. UNCHANGED <<floor, requestVars, obj, cache>>
    BY <1>17 DEF Configure, ForceUpdate
  <2>2. pc'[t] = "invalidate" /\ \A v \in Threads : v # t => pc'[v] = pc[v]
    BY <1>17 DEF Configure, ForceUpdate, Goto, TypeOK
  <2>3. Version' \in Nat /\ Version' >= Version
    BY <1>1, <1>17 DEF Configure, ForceUpdate, TypeOK, Version
  <2> QED
    BY <1>1, <1>5, <1>6, <1>7, <1>17, <2>1, <2>2, <2>3 DEF FloorInv, SameContents, requestVars
<1>18. ASSUME NEW t \in Threads, InvalidateCache(t), SameContents PROVE FloorInv'
  <2>1. UNCHANGED <<requestVars, obj, Version>> /\ cache' = None
    BY <1>18 DEF InvalidateCache, Version
  <2>2. pc'[t] = "idle" /\ \A v \in Threads : v # t => pc'[v] = pc[v]
    BY <1>18 DEF InvalidateCache, Goto, TypeOK
  <2>3. CASE floor' = floor
    BY <1>1, <1>6, <1>7, <1>18, <2>1, <2>2, <2>3 DEF FloorInv, SameContents, requestVars
  <2>4. CASE floor' = Version /\ \A v \in Threads : ~Behind(v)
    <3>1. \A v \in Threads : /\ pc[v] \in {"now", "fresh", "fetch"} => loaded[v].version >= Version
                             /\ pc[v] = "store" => content[obj[v]].version >= Version
      <4> SUFFICES ASSUME NEW v \in Threads
                   PROVE  /\ pc[v] \in {"now", "fresh", "fetch"} => loaded[v].version >= Version
                          /\ pc[v] = "store" => content[obj[v]].version >= Version
        OBVIOUS
      <4>1. loaded[v].version \in Nat
        BY DEF TypeOK
      <4>2. pc[v] = "store" => content[obj[v]].version \in Nat
        BY DEF TypeOK
      <4> QED
        BY <1>1, <2>4, <4>1, <4>2 DEF Behind
    <3>2. \A v \in Threads : owed[v] <= Version
      BY <1>1 DEF FloorInv
    <3> QED
      BY <1>1, <1>6, <1>7, <1>18, <2>1, <2>2, <2>4, <3>1, <3>2
      DEF FloorInv, SameContents, requestVars
  <2> QED
    BY <1>18, <2>3, <2>4 DEF InvalidateCache
<1>19. CASE (Change \/ Tick \/ UNCHANGED vars) /\ SameContents
  <2>1. Version' \in Nat /\ Version' >= Version
    BY <1>1, <1>19 DEF Change, Tick, vars, TypeOK, Version
  <2> QED
    BY <1>9, <1>19, <2>1 DEF Change, Tick, vars
<1> QED
  BY <1>8, <1>10, <1>11, <1>12, <1>13, <1>14, <1>15, <1>16, <1>17, <1>18, <1>19, NextContents
  DEF Next, EntryIsGone, FetchFails, Answer

\* A request that begins after an invalidation answers what the change made, unless another
\* request was on its way to store what it had seen before.
THEOREM Invalidation == Spec => []InvalidationHolds
<1>1. Init => FloorInv
  BY DEF Init, FloorInv, Version
<1>2. Spec => [](TypeInv /\ FloorInv)
  BY <1>1, InitType, NextType, NextFloor, PTL DEF Spec
<1>3. FloorInv => InvalidationHolds
  BY DEF FloorInv, InvalidationHolds
<1> QED
  BY <1>2, <1>3, PTL

-----------------------------------------------------------------------------
(* Staleness. *)

LEMMA Clock == ASSUME TypeInv, [Next]_vars
               PROVE  /\ clock \in Nat /\ clock' \in Nat /\ clock <= clock'
                      /\ changes' = changes \/ changes' = Append(changes, clock)
<1>1. clock \in Nat
  BY ContentAssumption DEF TypeInv, TypeOK
<1>2. CASE \E t \in Threads :
              \/ Load(t) \/ IsFresh(t) \/ Take(t) \/ EntryIsGone(t)
              \/ \E activated \in BOOLEAN : InCache(t, activated)
              \/ \E o \in Contents, v \in 0..Version : Fetch(t, o, v)
              \/ FetchFails(t) \/ Store(t)
              \/ Dereference(t) \/ AssetPath(t) \/ AssetIsGone(t) \/ Answer(t)
              \/ ForceUpdate(t) \/ InvalidateCache(t)
  <2>1. clock' = clock /\ changes' = changes
    BY <1>2 DEF Load, InCache, IsFresh, Take, EntryIsGone, Fetch, FetchFails, Store, Dereference,
                AssetPath, AssetIsGone, Answer, ForceUpdate, InvalidateCache
  <2> QED
    BY <1>1, <2>1
<1>3. CASE Change \/ \E t \in Threads : Configure(t)
  BY <1>1, <1>3 DEF Change, Configure
<1>4. CASE Tick \/ UNCHANGED vars
  BY <1>1, <1>4 DEF Tick, vars
<1> QED
  BY <1>2, <1>3, <1>4 DEF Next

LEMMA SinceKept ==
    ASSUME TypeInv, [Next]_vars, NEW v \in Nat, NEW time \in Nat, time <= clock, Since(v, time)
    PROVE  \A k \in (v + 1)..Version' : changes'[k] >= time
<1>1. changes \in Seq(0..MaxTime) /\ clock \in Nat
  BY Clock DEF TypeInv, TypeOK
<1>2. CASE changes' = changes
  BY <1>2 DEF Since, Version
<1>3. CASE changes' = Append(changes, clock)
  BY <1>1, <1>3 DEF Since, Version
<1> QED
  BY <1>2, <1>3, Clock

LEMMA SinceNow == ASSUME TypeInv, NEW time \in Nat PROVE Since(Version, time)
BY DEF Since, Version, TypeInv, TypeOK

\* Every content keeps what is in it, or is collected, or is the one that is fetched.
LEMMA NextContent ==
    ASSUME TypeInv, [Next]_vars, NEW o \in Contents
    PROVE  \/ /\ content'[o].version = content[o].version
              /\ content'[o].retrieval_time = content[o].retrieval_time
              /\ content'[o].read = content[o].read
           \/ content'[o] = Unused
           \/ \E t \in Threads, v \in 0..Version : Fetch(t, o, v)
<1>1. CASE Collect
  BY <1>1 DEF Collect
<1>2. CASE UNCHANGED content
  BY <1>2
<1>3. ASSUME NEW t \in Threads, Dereference(t) \/ AssetPath(t) \/ AssetIsGone(t)
      PROVE  /\ content'[o].version = content[o].version
             /\ content'[o].retrieval_time = content[o].retrieval_time
             /\ content'[o].read = content[o].read
  <2>1. obj[t] \in Contents /\ "none" \in Image /\ "src" \in Image /\ "lost" \in Image
    BY <1>3 DEF Dereference, AssetPath, AssetIsGone, Goto, TypeInv, Image
  <2>2. content' = content \/ \E i \in Image : content' = [content EXCEPT ![obj[t]].image = i]
    BY <1>3, <2>1 DEF Dereference, AssetPath, AssetIsGone
  <2> QED
    BY <2>1, <2>2, SetImage DEF TypeInv
<1>4. ASSUME NEW t \in Threads, NEW p \in Contents, NEW v \in 0..Version, Fetch(t, p, v), p # o
      PROVE  content'[o] = content[o]
  BY <1>4 DEF Fetch, TypeInv, TypeOK
<1> QED
  BY <1>1, <1>2, <1>3, <1>4
  DEF Next, Load, InCache, IsFresh, Take, EntryIsGone, FetchFails, Store, Answer, Configure,
      ForceUpdate, InvalidateCache, Change, Tick, vars, End

\* The first part of AgeInv: requests.
LEMMA NextRequestAge ==
    ASSUME TypeInv, AgeInv, [Next]_vars, NEW t \in Threads
    PROVE  /\ now'[t] <= clock' /\ loaded'[t].time <= clock'
           /\ pc'[t] \in {"now", "fresh", "fetch"} => Since(loaded[t].version, loaded[t].time)'
           /\ pc'[t] \in {"fresh", "fetch"} => loaded'[t].time <= now'[t]
<1> USE DEF TypeInv
<1>1. now[t] \in Nat /\ loaded[t].time \in Nat /\ loaded[t].version \in Nat
  BY DEF TypeOK
<1>2. clock \in Nat /\ clock' \in Nat /\ clock <= clock'
  BY Clock
<1>3. CASE /\ UNCHANGED <<now[t], loaded[t]>>
           /\ pc'[t] = pc[t] \/ pc'[t] \notin {"now", "fresh", "fetch"}
  <2>1. now'[t] <= clock' /\ loaded'[t].time <= clock'
    BY <1>1, <1>2, <1>3 DEF AgeInv
  <2>2. pc'[t] \in {"now", "fresh", "fetch"} => Since(loaded[t].version, loaded[t].time)
    BY <1>3 DEF AgeInv
  <2>3. Since(loaded[t].version, loaded[t].time) =>
            \A k \in (loaded[t].version + 1)..Version' : changes'[k] >= loaded[t].time
    BY <1>1, SinceKept DEF AgeInv
  <2> QED
    BY <1>1, <1>3, <2>1, <2>2, <2>3 DEF AgeInv, Since
<1>4. CASE Load(t)
  <2>1. loaded'[t] = [version |-> Version, time |-> clock] /\ now' = now /\ pc'[t] = "now"
    BY <1>4 DEF Load, Goto, TypeOK
  <2>2. Version' = Version /\ changes' = changes /\ clock' = clock
    BY <1>4 DEF Load, Version
  <2>3. Since(Version, clock)
    BY <1>2, SinceNow
  <2> QED
    BY <1>1, <1>2, <2>1, <2>2, <2>3 DEF AgeInv, Since
<1>5. ASSUME NEW activated \in BOOLEAN, InCache(t, activated)
      PROVE  /\ now'[t] = clock /\ loaded' = loaded /\ clock' = clock
             /\ pc[t] = "now"
  BY <1>5 DEF InCache, Goto, TypeOK
<1>6. CASE \E activated \in BOOLEAN : InCache(t, activated)
  BY <1>1, <1>2, <1>5, <1>6, SinceKept DEF AgeInv, Since
<1>7. CASE IsFresh(t)
  <2>1. pc[t] = "fresh" /\ now' = now /\ loaded' = loaded /\ clock' = clock
    BY <1>7 DEF IsFresh, Goto, requestVars
  <2> QED
    BY <1>1, <1>2, <2>1, SinceKept DEF AgeInv, Since
<1>8. ASSUME NEW from, End(t, from)
      PROVE  now'[t] = 0 /\ loaded'[t].time = 0 /\ pc'[t] = "idle"
  BY <1>8 DEF End, Goto, TypeOK
<1>9. CASE EntryIsGone(t) \/ FetchFails(t) \/ Answer(t)
  BY <1>2, <1>8, <1>9 DEF EntryIsGone, FetchFails, Answer
<1>10. ASSUME NEW v \in Threads, v # t, \/ Load(v) \/ IsFresh(v) \/ EntryIsGone(v) \/ FetchFails(v)
                                        \/ Answer(v) \/ \E activated \in BOOLEAN : InCache(v, activated)
       PROVE  UNCHANGED <<now[t], loaded[t], pc[t]>>
  BY <1>10 DEF Load, IsFresh, EntryIsGone, FetchFails, Answer, InCache, End, Goto, requestVars, TypeOK
<1>11. ASSUME NEW v \in Threads,
              \/ Take(v) \/ \E o \in Contents, i \in 0..Version : Fetch(v, o, i)
              \/ Store(v) \/ Dereference(v) \/ AssetPath(v) \/ AssetIsGone(v)
              \/ Configure(v) \/ ForceUpdate(v) \/ InvalidateCache(v)
       PROVE  /\ UNCHANGED <<now[t], loaded[t]>>
              /\ pc'[t] = pc[t] \/ pc'[t] \notin {"now", "fresh", "fetch"}
  BY <1>11 DEF Take, Fetch, Store, Dereference, AssetPath, AssetIsGone, Configure, ForceUpdate,
               InvalidateCache, Goto, requestVars, TypeOK
<1>12. CASE Change \/ Tick \/ UNCHANGED vars
  BY <1>3, <1>12 DEF Change, Tick, vars, requestVars
<1> QED
  BY <1>3, <1>4, <1>6, <1>7, <1>9, <1>10, <1>11, <1>12 DEF Next

\* The second part: contents.
LEMMA NextContentAge ==
    ASSUME TypeInv, AgeInv, [Next]_vars, NEW o \in Contents
    PROVE  /\ content'[o].read <= content'[o].retrieval_time
           /\ content'[o].retrieval_time <= clock'
           /\ Since(content[o].version, content[o].read)'
<1> USE DEF TypeInv
<1>1. /\ content[o].read \in Nat /\ content[o].retrieval_time \in Nat
      /\ content[o].version \in Nat
  BY DEF TypeOK
<1>2. clock \in Nat /\ clock' \in Nat /\ clock <= clock'
  BY Clock
<1>3. CASE /\ content'[o].version = content[o].version
           /\ content'[o].retrieval_time = content[o].retrieval_time
           /\ content'[o].read = content[o].read
  BY <1>1, <1>2, <1>3, SinceKept DEF AgeInv, Since
<1>4. CASE content'[o] = Unused
  <2>1. TypeOK'
    BY NextType
  <2>2. \A k \in 1..Version' : changes'[k] >= 0
    <3>1. changes' \in Seq(0..MaxTime) /\ Version' = Len(changes')
      BY <2>1 DEF Version, TypeOK
    <3>2. \A k \in 1..Len(changes') : changes'[k] \in 0..MaxTime
      BY <3>1, ElementOfSeq
    <3> QED
      BY <3>1, <3>2, ContentAssumption
  <2>3. content'[o].version = 0 /\ content'[o].read = 0 /\ content'[o].retrieval_time = 0
    BY <1>4 DEF Unused
  <2> QED
    BY <1>2, <2>2, <2>3 DEF Since
<1>5. ASSUME NEW t \in Threads, NEW v \in 0..Version, Fetch(t, o, v)
      PROVE  /\ content'[o].read <= content'[o].retrieval_time
             /\ content'[o].retrieval_time <= clock'
             /\ Since(content[o].version, content[o].read)'
  <2>1. content'[o].version = v /\ content'[o].retrieval_time = now[t]
        /\ content'[o].read = loaded[t].time
    BY <1>5 DEF Fetch, TypeOK
  <2>2. pc[t] = "fetch" /\ v >= loaded[t].version /\ changes' = changes /\ clock' = clock
    BY <1>5 DEF Fetch, Goto, TypeOK, Version
  <2>3. Since(loaded[t].version, loaded[t].time) /\ loaded[t].version \in Nat
        /\ loaded[t].time \in Nat /\ now[t] \in Nat /\ v \in Nat /\ Version \in Nat
    BY <2>2 DEF AgeInv, TypeOK, Version
  <2>4. Since(v, loaded[t].time)
    BY <2>2, <2>3 DEF Since
  <2> QED
    BY <2>1, <2>2, <2>3, <2>4 DEF AgeInv, Since, Version
<1> QED
  BY <1>3, <1>4, <1>5, NextContent

\* The third part: what a request is about to use.
FreshFor(t) == content[obj[t]].retrieval_time + Validity > now[t]

LEMMA NextFresh ==
    ASSUME TypeInv, AgeInv, [Next]_vars, NEW t \in Threads, ~swapped'[t]
    PROVE  /\ pc'[t] = "take" /\ cache' # None =>
                  content'[cache'].retrieval_time + Validity > now'[t]
           /\ pc'[t] \in {"store", "dereference", "path", "answer"} => FreshFor(t)'
<1> USE DEF TypeInv
<1>0. TypeInv'
  BY NextType
<1>1. cache' # None => cache' \in Contents /\ cache' \in InUse(cache', obj')
  BY <1>0 DEF TypeOK, InUse
<1>2. obj'[t] # None => obj'[t] \in Contents /\ obj'[t] \in InUse(cache', obj')
  BY <1>0 DEF TypeOK, InUse
<1>3. pc'[t] \in {"store", "dereference", "path", "answer"} => obj'[t] # None
  BY <1>0, ContentAssumption
<1>4. Validity \in Nat /\ Validity > 0 /\ now[t] \in Nat
  BY ContentAssumption DEF TypeOK
<1>5. ASSUME SameContents, UNCHANGED <<now[t], obj[t]>>, ~swapped[t],
             pc'[t] = "take" => pc[t] = "take" /\ cache' \in {cache, None},
             pc'[t] \in {"store", "dereference", "path", "answer"} =>
                 pc[t] \in {"store", "dereference", "path", "answer"}
      PROVE  /\ pc'[t] = "take" /\ cache' # None =>
                    content'[cache'].retrieval_time + Validity > now'[t]
             /\ pc'[t] \in {"store", "dereference", "path", "answer"} => FreshFor(t)'
  BY <1>1, <1>2, <1>3, <1>5 DEF AgeInv, SameContents, FreshFor
<1>6. ASSUME SameContents, Load(t)
      PROVE  pc'[t] = "now"
  BY <1>6 DEF Load, Goto, TypeOK
<1>7. ASSUME NEW activated \in BOOLEAN, InCache(t, activated)
      PROVE  pc'[t] \in {"fresh", "fetch"}
  BY <1>7 DEF InCache, Goto, TypeOK
<1>8. ASSUME NEW from, End(t, from) PROVE pc'[t] = "idle"
  BY <1>8 DEF End, Goto, TypeOK
<1>9. CASE IsFresh(t)
  <2>1. pc'[t] = IF Fresh(t) THEN "take" ELSE "fetch"
    BY <1>9 DEF IsFresh, Goto, TypeOK
  <2>2. content' = content /\ cache' = cache /\ now' = now
    BY <1>9 DEF IsFresh, requestVars
  <2> QED
    BY <2>1, <2>2 DEF Fresh
<1>10. CASE Take(t)
  <2>1. pc[t] = "take" /\ pc'[t] = "dereference" /\ obj'[t] = cache /\ cache # None
    BY <1>10 DEF Take, Goto, TypeOK
  <2>2. content' = content /\ now' = now /\ swapped' = swapped
    BY <1>10 DEF Take, requestVars
  <2> QED
    BY <2>1, <2>2 DEF AgeInv, FreshFor
<1>11. ASSUME NEW o \in Contents, NEW v \in 0..Version, Fetch(t, o, v)
       PROVE  pc'[t] = "store" /\ FreshFor(t)'
  <2>1. pc'[t] = "store" /\ obj'[t] = o /\ content'[o].retrieval_time = now[t] /\ now' = now
    BY <1>11 DEF Fetch, Goto, TypeOK, requestVars
  <2> QED
    BY <1>4, <2>1 DEF FreshFor
<1>12. ASSUME NEW v \in Threads, v # t, NEW o \in Contents, NEW i \in 0..Version, Fetch(v, o, i)
       PROVE  /\ pc'[t] = "take" /\ cache' # None =>
                     content'[cache'].retrieval_time + Validity > now'[t]
              /\ pc'[t] \in {"store", "dereference", "path", "answer"} => FreshFor(t)'
  <2>1. obj[t] # o /\ cache # o /\ \A p \in Contents : p # o => content'[p] = content[p]
    BY <1>12 DEF Fetch, InUse, TypeOK
  <2>2. UNCHANGED <<pc[t], obj[t], now[t], cache, swapped>>
    BY <1>12 DEF Fetch, Goto, TypeOK, requestVars
  <2> QED
    BY <1>1, <1>2, <1>3, <2>1, <2>2 DEF AgeInv, FreshFor
<1>13. CASE Store(t) /\ SameContents
  <2>1. /\ pc[t] = "store" /\ pc'[t] = "dereference"
        /\ UNCHANGED <<now[t], obj[t]>> /\ swapped'[t] = swapped[t]
    BY <1>13 DEF Store, Goto, TypeOK, requestVars
  <2> QED
    BY <1>5, <1>13, <2>1
<1>14. ASSUME NEW v \in Threads, v # t, Store(v), SameContents
       PROVE  /\ pc'[t] # "take"
              /\ pc'[t] \in {"store", "dereference", "path", "answer"} => FreshFor(t)'
  <2>1. /\ swapped'[t] = (swapped[t] \/ pc[t] = "take")
        /\ UNCHANGED <<pc[t], now[t], obj[t]>>
    BY <1>14 DEF Store, Goto, TypeOK, requestVars
  <2> QED
    BY <1>5, <1>14, <2>1 DEF AgeInv
<1>15. CASE (Dereference(t) \/ AssetPath(t) \/ AssetIsGone(t)) /\ SameContents
  <2>1. /\ pc[t] \in {"dereference", "path"} /\ pc'[t] \in {"path", "answer", "empty"}
        /\ UNCHANGED <<now[t], obj[t], swapped, cache>>
    BY <1>15 DEF Dereference, AssetPath, AssetIsGone, Goto, TypeOK, requestVars
  <2> QED
    BY <1>5, <1>15, <2>1
<1>16. CASE Configure(t) \/ ForceUpdate(t) \/ InvalidateCache(t)
  BY <1>16 DEF Configure, ForceUpdate, InvalidateCache, Goto, TypeOK
<1>17. ASSUME NEW v \in Threads, v # t,
              \/ Load(v) \/ IsFresh(v) \/ EntryIsGone(v) \/ FetchFails(v) \/ Answer(v)
              \/ \E activated \in BOOLEAN : InCache(v, activated)
              \/ Take(v) \/ Dereference(v) \/ AssetPath(v) \/ AssetIsGone(v)
              \/ Configure(v) \/ ForceUpdate(v) \/ InvalidateCache(v)
       PROVE  UNCHANGED <<pc[t], now[t], obj[t], swapped[t]>> /\ cache' \in {cache, None}
  BY <1>17 DEF Load, IsFresh, EntryIsGone, FetchFails, Answer, InCache, End, Take, Dereference,
               AssetPath, AssetIsGone, Configure, ForceUpdate, InvalidateCache, Goto,
               requestVars, TypeOK
<1>18. CASE (Change \/ Tick \/ UNCHANGED vars) /\ SameContents
  <2>1. UNCHANGED <<pc, now, obj, swapped, cache>>
    BY <1>18 DEF Change, Tick, vars, requestVars
  <2> QED
    BY <1>5, <1>18, <2>1
<1>19. SameContents \/ \E v \in Threads, o \in Contents, i \in 0..Version : Fetch(v, o, i)
  BY NextContents
<1>20. CASE \E v \in Threads, o \in Contents, i \in 0..Version : Fetch(v, o, i)
  BY <1>11, <1>12, <1>20
<1>21. CASE SameContents
  BY <1>5, <1>6, <1>7, <1>8, <1>9, <1>10, <1>11, <1>12, <1>13, <1>14, <1>15, <1>16, <1>17, <1>18, <1>21
  DEF Next, EntryIsGone, FetchFails, Answer
<1> QED
  BY <1>19, <1>20, <1>21

\* What a request answers was up to date at most the validity of the cache before, whatever
\* other requests do, but for an older content stored between its check and its use.
THEOREM Staleness == Spec => []StalenessIsBounded
<1>1. Init => AgeInv
  BY ContentAssumption DEF Init, AgeInv, Since, Version, Unused
<1>2. TypeInv /\ AgeInv /\ [Next]_vars => AgeInv'
  BY NextRequestAge, NextContentAge, NextFresh DEF AgeInv, FreshFor
<1>3. Spec => [](TypeInv /\ AgeInv)
  BY <1>1, <1>2, InitType, NextType, PTL DEF Spec
<1>4. TypeInv /\ AgeInv => StalenessIsBounded
  <2> SUFFICES ASSUME TypeInv, AgeInv, NEW t \in Threads, pc[t] = "answer", ~swapped[t],
                      content[obj[t]].version < Version
               PROVE  LET c == content[obj[t]] IN
                      changes[c.version + 1] + Validity + (c.retrieval_time - c.read) > now[t]
    BY DEF StalenessIsBounded
  <2> DEFINE c == content[obj[t]]
  <2>1. obj[t] \in Contents
    BY DEF TypeInv
  <2>2. /\ c.version \in Nat /\ c.retrieval_time \in Nat /\ c.read \in Nat
        /\ Version \in Nat /\ Validity \in Nat /\ now[t] \in Nat
    BY <2>1, ContentAssumption DEF TypeInv, TypeOK, Version
  <2>3. changes[c.version + 1] \in Nat
    <3>1. changes \in Seq(0..MaxTime) /\ c.version + 1 \in 1..Len(changes)
      BY <2>2 DEF TypeInv, TypeOK, Version
    <3> QED
      BY <3>1, ElementOfSeq, ContentAssumption
  <2>4. changes[c.version + 1] >= c.read
    BY <2>1, <2>2 DEF AgeInv, Since
  <2>5. c.retrieval_time + Validity > now[t]
    BY <2>1 DEF AgeInv
  <2> QED
    BY <2>2, <2>3, <2>4, <2>5
<1> QED
  BY <1>3, <1>4, PTL

=============================================================================

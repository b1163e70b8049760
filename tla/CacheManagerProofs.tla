------------------------- MODULE CacheManagerProofs -------------------------
(***************************************************************************)
(* Proofs about CacheManager and Storage, for every number of request      *)
(* threads, URLs and locks: the first burst of requests for an image that  *)
(* is not cached is serialised, as long as no call for it meets an         *)
(* exception (the later ones are not: see README); no lock is forgotten    *)
(* but by an SQL error; and, of the files that take no lock, that those    *)
(* referred to stay. The two share no state.                               *)
(***************************************************************************)
EXTENDS CacheManager, Storage, TLAPS

USE CacheAssumption DEF history

\* The lock table after a look-up.
LEMMA LockCreated ==
    ASSUME NEW s \in Seq(BOOLEAN)
    PROVE  /\ Append(s, FALSE) \in Seq(BOOLEAN)
           /\ Len(Append(s, FALSE)) = Len(s) + 1
  OBVIOUS

LEMMA LockSet ==
    ASSUME NEW s \in Seq(BOOLEAN), NEW i, NEW b \in BOOLEAN
    PROVE  /\ [s EXCEPT ![i] = b] \in Seq(BOOLEAN)
           /\ Len([s EXCEPT ![i] = b]) = Len(s)
           /\ i \in 1..Len(s) => [s EXCEPT ![i] = b][i] = b
  <1> DEFINE r == [s EXCEPT ![i] = b]
  <1>1. Len(s) \in Nat /\ DOMAIN s = 1..Len(s) /\ s \in [1..Len(s) -> BOOLEAN]
    OBVIOUS
  <1>2. r \in [1..Len(s) -> BOOLEAN]
    BY <1>1, Zenon
  <1>3. r \in Seq(BOOLEAN) /\ Len(r) = Len(s)
    BY <1>1, <1>2
  <1>4. i \in 1..Len(s) => r[i] = b
    BY <1>1, Zenon
  <1> QED BY <1>3, <1>4

LEMMA LenIsNat == ASSUME NEW S, NEW s \in Seq(S) PROVE Len(s) \in Nat
  OBVIOUS

LEMMA RowAdded ==
    ASSUME NEW s \in Seq(Exts), NEW e \in Exts
    PROVE  Append(s, e) \in Seq(Exts) /\ Append(s, e) # <<>>
  OBVIOUS

-----------------------------------------------------------------------------
(* The type. *)

\* What a look-up, an acquisition and a release do to the types of the lock table.
LEMMA LookUpType ==
    ASSUME CacheTypeOK, NEW t \in Threads, NEW from, NEW to, LookUp(t, from, to)
    PROVE  /\ locks' \in [Names -> Seq(BOOLEAN)]
           /\ current' \in [Names -> Nat]
           /\ ref' \in [Threads -> Nat]
  <1> DEFINE n == url[t].name
  <1>1. n \in Names /\ locks[n] \in Seq(BOOLEAN) /\ current[n] \in Nat
    BY DEF CacheTypeOK, Url
  <1>2. CASE current[n] = 0
    <2>1. Append(locks[n], FALSE) \in Seq(BOOLEAN) /\ Len(locks[n]) + 1 \in Nat
      BY <1>1, LockCreated
    <2>2. /\ locks' = [locks EXCEPT ![n] = Append(locks[n], FALSE)]
          /\ current' = [current EXCEPT ![n] = Len(locks[n]) + 1]
          /\ ref' = [ref EXCEPT ![t] = Len(locks[n]) + 1]
      BY <1>2 DEF LookUp
    <2> QED BY <2>1, <2>2 DEF CacheTypeOK
  <1>3. CASE current[n] # 0
    BY <1>1, <1>3 DEF LookUp, CacheTypeOK
  <1> QED BY <1>2, <1>3

LEMMA LocksSet ==
    ASSUME CacheTypeOK, NEW n \in Names, NEW i, NEW b \in BOOLEAN,
           locks' = [locks EXCEPT ![n][i] = b]
    PROVE  locks' \in [Names -> Seq(BOOLEAN)]
  <1>1. locks[n] \in Seq(BOOLEAN)
    BY DEF CacheTypeOK
  <1>2. [locks[n] EXCEPT ![i] = b] \in Seq(BOOLEAN)
    BY <1>1, LockSet
  <1>3. locks' = [locks EXCEPT ![n] = [locks[n] EXCEPT ![i] = b]]
    OBVIOUS
  <1> QED BY <1>2, <1>3 DEF CacheTypeOK

LEMMA ReleaseType ==
    ASSUME CacheTypeOK, NEW t \in Threads, Release(t)
    PROVE  locks' \in [Names -> Seq(BOOLEAN)] /\ current' \in [Names -> Nat]
  <1> DEFINE n == url[t].name
  <1>1. n \in Names
    BY DEF CacheTypeOK, Url
  <1>2. CASE current[n] = 0
    BY <1>2 DEF Release, CacheTypeOK
  <1>3. CASE current[n] # 0
    <2>1. /\ locks' = [locks EXCEPT ![n][current[n]] = FALSE]
          /\ current' = [current EXCEPT ![n] = 0]
      BY <1>3 DEF Release
    <2> QED BY <1>1, <2>1, LocksSet DEF CacheTypeOK
  <1> QED BY <1>2, <1>3

LEMMA TypeStep == CacheTypeOK /\ [CacheNext]_cacheVars => CacheTypeOK'
  <1> SUFFICES ASSUME CacheTypeOK, [CacheNext]_cacheVars PROVE CacheTypeOK'
    OBVIOUS
  <1> USE DEF CacheTypeOK, Stages, Url, At, Return, lockVars
  <1>1. ASSUME NEW t \in Threads, NEW u \in Url, Call(t, u) PROVE CacheTypeOK'
    BY <1>1 DEF Call
  <1>2. ASSUME NEW t \in Threads, Select(t) PROVE CacheTypeOK'
    BY <1>2 DEF Select
  <1>3. ASSUME NEW t \in Threads, LookUp(t, "try", "tryAcquire") PROVE CacheTypeOK'
    <2> /\ locks' \in [Names -> Seq(BOOLEAN)]
        /\ current' \in [Names -> Nat] /\ ref' \in [Threads -> Nat]
      BY <1>3, LookUpType
    <2> QED BY <1>3 DEF LookUp
  <1>4. ASSUME NEW t \in Threads, LookUp(t, "block", "blockAcquire") PROVE CacheTypeOK'
    <2> /\ locks' \in [Names -> Seq(BOOLEAN)]
        /\ current' \in [Names -> Nat] /\ ref' \in [Threads -> Nat]
      BY <1>4, LookUpType
    <2> QED BY <1>4 DEF LookUp
  <1>5. ASSUME NEW t \in Threads, Acquire(t, "tryAcquire", "create") PROVE CacheTypeOK'
    <2>1. url[t].name \in Names /\ locks' = [locks EXCEPT ![url[t].name][ref[t]] = TRUE]
      BY <1>5 DEF Acquire
    <2>2. locks' \in [Names -> Seq(BOOLEAN)]
      BY <2>1, LocksSet
    <2> QED BY <1>5, <2>2 DEF Acquire
  <1>6. ASSUME NEW t \in Threads, Wait(t) PROVE CacheTypeOK'
    <2>1. url[t].name \in Names /\ locks' = [locks EXCEPT ![url[t].name][ref[t]] = TRUE]
      BY <1>6 DEF Acquire, Wait
    <2>2. locks' \in [Names -> Seq(BOOLEAN)]
      BY <2>1, LocksSet
    <2> QED BY <1>6, <2>2 DEF Acquire, Wait
  <1>7. ASSUME NEW t \in Threads, Busy(t) PROVE CacheTypeOK'
    BY <1>7 DEF Busy
  <1>8. ASSUME NEW t \in Threads, CreateRow(t) PROVE CacheTypeOK'
    <2> DEFINE n == url[t].name
    <2>1. n \in Names /\ rows[n] \in Seq(Exts) /\ url[t].ext \in Exts
      OBVIOUS
    <2>2. Append(rows[n], url[t].ext) \in Seq(Exts)
      BY <2>1, RowAdded
    <2>3. rows' = [rows EXCEPT ![n] = Append(rows[n], url[t].ext)]
      BY <1>8 DEF CreateRow
    <2> QED BY <1>8, <2>2, <2>3 DEF CreateRow
  <1>9. ASSUME NEW t \in Threads, EnqueueAsset(t) PROVE CacheTypeOK'
    BY <1>9 DEF EnqueueAsset
  <1>10. ASSUME NEW t \in Threads, Fail(t) PROVE CacheTypeOK'
    BY <1>10 DEF Fail
  <1>11. ASSUME NEW t \in Threads, Raise(t) PROVE CacheTypeOK'
    <2>1. pc' = [pc EXCEPT ![t] = "idle"] /\ failed' \in SUBSET Names
      BY <1>11 DEF Raise
    <2> QED BY <1>11, <2>1 DEF Raise
  <1>12. ASSUME NEW t \in Threads, ReleaseOwn(t) PROVE CacheTypeOK'
    <2>1. locks' \in [Names -> Seq(BOOLEAN)] /\ current' \in [Names -> Nat]
      BY <1>12, ReleaseType DEF ReleaseOwn
    <2> QED BY <1>12, <2>1 DEF ReleaseOwn, Release
  <1>13. ASSUME NEW t \in Threads, ReleaseFailed(t) PROVE CacheTypeOK'
    <2>1. locks' \in [Names -> Seq(BOOLEAN)] /\ current' \in [Names -> Nat]
      BY <1>13, ReleaseType DEF ReleaseFailed
    <2> QED BY <1>13, <2>1 DEF ReleaseFailed, Release
  <1>14. ASSUME NEW t \in Threads, ReleaseWaiter(t) PROVE CacheTypeOK'
    <2>1. locks' \in [Names -> Seq(BOOLEAN)] /\ current' \in [Names -> Nat]
      BY <1>14, ReleaseType DEF ReleaseWaiter
    <2> QED BY <1>14, <2>1 DEF ReleaseWaiter, Release
  <1>15. ASSUME NEW t \in Threads, ReleaseRaises(t) PROVE CacheTypeOK'
    BY <1>15 DEF ReleaseRaises
  <1>16. ASSUME NEW t \in Threads, Reselect(t) PROVE CacheTypeOK'
    BY <1>16 DEF Reselect
  <1>17. CASE UNCHANGED cacheVars
    BY <1>17 DEF cacheVars
  <1>18. ASSUME NEW t \in Threads, Progress(t) PROVE CacheTypeOK'
    BY <1>2, <1>3, <1>4, <1>5, <1>7, <1>8, <1>9, <1>10, <1>11, <1>12, <1>13, <1>14, <1>15,
       <1>16, <1>18, Zenon DEF Progress
  <1>19. CASE CacheNext
    BY <1>1, <1>6, <1>18, <1>19, Zenon DEF CacheNext
  <1> QED BY <1>17, <1>19

LEMMA InitType == CacheInit => CacheTypeOK
  <1> SUFFICES ASSUME CacheInit PROVE CacheTypeOK
    OBVIOUS
  <1>1. <<>> \in Seq(Exts) /\ <<>> \in Seq(BOOLEAN)
    OBVIOUS
  <1>2. rows = [n \in Names |-> <<>>] /\ locks = [n \in Names |-> <<>>]
    BY DEF CacheInit
  <1>3. rows \in [Names -> Seq(Exts)]
    BY <1>1, <1>2
  <1>4. locks \in [Names -> Seq(BOOLEAN)]
    BY <1>1, <1>2
  <1>5. master \in BOOLEAN /\ url \in [Threads -> Url]
    BY DEF CacheInit
  <1>6. /\ current \in [Names -> Nat] /\ ref \in [Threads -> Nat]
        /\ failed \in SUBSET Names /\ crowded \in BOOLEAN
    BY DEF CacheInit
  <1>7. pc \in [Threads -> Stages]
    BY DEF CacheInit, Stages
  <1> QED BY <1>3, <1>4, <1>5, <1>6, <1>7 DEF CacheTypeOK

\* The variables keep their types, whatever the failures.
THEOREM TypeCorrect == CacheSpec => []CacheTypeOK
  BY InitType, TypeStep, PTL DEF CacheSpec

-----------------------------------------------------------------------------
(* The first burst. *)

\* A look-up leaves the first burst as it is: the lock it creates is the first.
LEMMA LookUpStep ==
    ASSUME BurstInv, NEW t \in Threads, NEW from, NEW to,
           <<from, to>> \in {<<"try", "tryAcquire">>, <<"block", "blockAcquire">>},
           LookUp(t, from, to), NEW m \in Names \ failed
    PROVE  FirstBurst(m)'
  <1> DEFINE n == url[t].name
  <1>1. n \in Names /\ locks[n] \in Seq(BOOLEAN) /\ Len(locks[n]) \in Nat
    BY LenIsNat DEF BurstInv, CacheTypeOK, Url
  <1>2. /\ pc[t] = from /\ pc' = [pc EXCEPT ![t] = to]
        /\ UNCHANGED <<rows, url>>
    BY DEF LookUp, At
  <1>3. /\ \A u \in Threads : u # t => ref'[u] = ref[u] /\ pc'[u] = pc[u]
        /\ pc'[t] = to
        /\ m # n => locks'[m] = locks[m] /\ current'[m] = current[m]
    BY <1>1, <1>2 DEF LookUp, BurstInv, CacheTypeOK
  <1>4. CASE m # n
    BY <1>2, <1>3, <1>4 DEF FirstBurst, BurstInv, For
  <1>5. CASE m = n /\ rows[m] = <<>>
    <2>1. /\ Len(locks[m]) <= 1
          /\ current[m] = Len(locks[m])
      BY <1>5 DEF BurstInv, FirstBurst
    <2>2. CASE current[n] = 0
      <3>1. /\ locks'[n] = Append(locks[n], FALSE)
            /\ current'[n] = 1 /\ ref'[t] = 1 /\ Len(locks[n]) = 0
        <4>1. Len(locks[n]) = 0
          BY <1>1, <1>5, <2>1, <2>2
        <4>2. /\ locks' = [locks EXCEPT ![n] = Append(locks[n], FALSE)]
              /\ current' = [current EXCEPT ![n] = Len(locks[n]) + 1]
              /\ ref' = [ref EXCEPT ![t] = Len(locks[n]) + 1]
          BY <2>2 DEF LookUp
        <4>3. locks'[n] = Append(locks[n], FALSE)
          BY <1>1, <4>2 DEF BurstInv, CacheTypeOK
        <4>4. current'[n] = Len(locks[n]) + 1
          BY <1>1, <4>2 DEF BurstInv, CacheTypeOK
        <4>5. ref'[t] = Len(locks[n]) + 1
          BY <1>1, <4>2 DEF BurstInv, CacheTypeOK
        <4> QED BY <4>1, <4>3, <4>4, <4>5
      <3>2. Len(locks'[n]) = 1
        BY <1>1, <3>1, LockCreated
      <3>3. \A u \in Threads : For(u, m) =>
                pc[u] \notin {"tryAcquire", "create", "block", "blockAcquire"}
        BY <1>5, <3>1 DEF BurstInv, FirstBurst
      <3> QED BY <1>2, <1>3, <1>5, <3>1, <3>2, <3>3 DEF FirstBurst, BurstInv, For
    <2>3. CASE current[n] # 0
      <3>1. locks'[n] = locks[n] /\ current'[n] = current[n] /\ ref'[t] = current[n]
        BY <1>1, <2>3 DEF LookUp, BurstInv, CacheTypeOK
      <3>2. Len(locks[n]) = 1
        <4> DEFINE k == Len(locks[n])
        <4>1. k \in Nat /\ k <= 1 /\ k # 0
          BY <1>1, <1>5, <2>1, <2>3
        <4> HIDE DEF k
        <4> QED
          <5>1. k = 1
            BY <4>1
          <5> QED BY <5>1 DEF k
      <3>4. ref'[t] = 1
        BY <1>5, <2>1, <3>1, <3>2
      <3> QED BY <1>2, <1>3, <1>5, <3>1, <3>2, <3>4 DEF FirstBurst, BurstInv, For
    <2> QED BY <2>2, <2>3
  <1>6. CASE rows[m] # <<>>
    BY <1>2, <1>6 DEF FirstBurst
  <1> QED BY <1>4, <1>5, <1>6

\* A lock is acquired once during the first burst, by a thread that will create the row.
LEMMA AcquireStep ==
    ASSUME BurstInv, NEW t \in Threads, Acquire(t, "tryAcquire", "create"),
           NEW m \in Names \ failed
    PROVE  FirstBurst(m)'
  <1> DEFINE n == url[t].name
  <1>1. n \in Names /\ locks[n] \in Seq(BOOLEAN)
    BY DEF BurstInv, CacheTypeOK, Url
  <1>2. /\ pc[t] = "tryAcquire" /\ pc' = [pc EXCEPT ![t] = "create"]
        /\ ~locks[n][ref[t]]
        /\ locks' = [locks EXCEPT ![n] = [locks[n] EXCEPT ![ref[t]] = TRUE]]
        /\ ref' = [ref EXCEPT ![t] = 0]
        /\ UNCHANGED <<rows, url, current>>
    BY DEF Acquire, At
  <1>3. \A u \in Threads : /\ pc'[u] = IF u = t THEN "create" ELSE pc[u]
                           /\ u # t => ref'[u] = ref[u]
    BY <1>2 DEF BurstInv, CacheTypeOK
  <1>4. CASE m # n
    <2>1. locks'[m] = locks[m]
      BY <1>1, <1>2, <1>4 DEF BurstInv, CacheTypeOK
    <2> QED BY <1>2, <1>3, <1>4, <2>1 DEF FirstBurst, BurstInv, For
  <1>5. CASE m = n /\ rows[m] = <<>>
    <2>1. Len(locks[m]) = 1 /\ ref[t] = 1
      BY <1>2, <1>5 DEF BurstInv, FirstBurst, For
    <2>2. locks'[m] = [locks[m] EXCEPT ![1] = TRUE]
      BY <1>1, <1>2, <1>5, <2>1 DEF BurstInv, CacheTypeOK
    <2>3. Len(locks'[m]) = 1 /\ locks'[m][1]
      BY <1>1, <1>5, <2>1, <2>2, LockSet
    <2>4. \A u \in Threads : For(u, m) => pc[u] # "create"
      BY <1>2, <1>5, <2>1 DEF BurstInv, FirstBurst
    <2> QED BY <1>2, <1>3, <1>5, <2>1, <2>3, <2>4 DEF FirstBurst, BurstInv, For
  <1>6. CASE rows[m] # <<>>
    BY <1>2, <1>6 DEF FirstBurst
  <1> QED BY <1>4, <1>5, <1>6

\* Nobody is past the creation of a row that does not exist.
LEMMA PastCreation ==
    ASSUME BurstInv, NEW t \in Threads,
           pc[t] \in {"enqueue", "release", "releaseFailed", "releaseWaiter", "reselect"},
           url[t].name \notin failed
    PROVE  rows[url[t].name] # <<>>
  <1>1. url[t].name \in Names /\ For(t, url[t].name)
    BY DEF BurstInv, CacheTypeOK, Url, For
  <1>2. FirstBurst(url[t].name)
    BY <1>1 DEF BurstInv
  <1> QED BY <1>1, <1>2 DEF FirstBurst

\* Nor does anybody get the lock it waited for before that.
LEMMA WaitStep ==
    ASSUME BurstInv, NEW t \in Threads, Wait(t), NEW m \in Names \ failed
    PROVE  FirstBurst(m)'
  <1> DEFINE n == url[t].name
  <1>1. /\ n \in Names
        /\ pc[t] = "blockAcquire" /\ ~locks[n][ref[t]]
        /\ UNCHANGED <<rows, url, current>>
    BY DEF BurstInv, CacheTypeOK, Url, Wait, Acquire, At
  <1>2. m = n => rows[n] # <<>>
    BY <1>1 DEF BurstInv, FirstBurst, For
  <1>3. \A u \in Threads : u # t => pc'[u] = pc[u] /\ ref'[u] = ref[u]
    BY DEF Wait, Acquire, At, BurstInv, CacheTypeOK
  <1>4. m # n => locks'[m] = locks[m]
    BY <1>1 DEF Wait, Acquire, BurstInv, CacheTypeOK
  <1> QED BY <1>1, <1>2, <1>3, <1>4 DEF FirstBurst, BurstInv, For

\* A release concerns a name that has a row.
LEMMA ReleaseStep ==
    ASSUME BurstInv, NEW t \in Threads, NEW m \in Names \ failed,
           ReleaseOwn(t) \/ ReleaseFailed(t) \/ ReleaseWaiter(t) \/ ReleaseRaises(t)
    PROVE  FirstBurst(m)'
  <1> DEFINE n == url[t].name
  <1>1. /\ n \in Names
        /\ pc[t] \in {"release", "releaseFailed", "releaseWaiter"}
        /\ UNCHANGED <<rows, url, ref>>
    BY DEF BurstInv, CacheTypeOK, Url, ReleaseOwn, ReleaseFailed, ReleaseWaiter, ReleaseRaises,
           Release, Return, At
  <1>2. m = n => rows[n] # <<>>
    BY <1>1, PastCreation
  <1>3. \A u \in Threads : u # t => pc'[u] = pc[u]
    BY DEF ReleaseOwn, ReleaseFailed, ReleaseWaiter, ReleaseRaises, Return, At, BurstInv, CacheTypeOK
  <1>4. m # n => locks'[m] = locks[m] /\ current'[m] = current[m]
    BY <1>1, SMTT(30) DEF ReleaseOwn, ReleaseFailed, ReleaseWaiter, ReleaseRaises, Release, BurstInv, CacheTypeOK
  <1> QED BY <1>1, <1>2, <1>3, <1>4 DEF FirstBurst, BurstInv, For

LEMMA BurstStep ==
    ASSUME BurstInv, [CacheNext]_cacheVars
    PROVE  BurstInv'
  <1> CacheTypeOK'
    BY TypeStep DEF BurstInv
  <1> SUFFICES ASSUME NEW m \in Names \ failed' PROVE FirstBurst(m)'
    BY DEF BurstInv
  <1>0. m \notin failed
    <2>1. failed \subseteq failed'
      BY DEF CacheNext, Progress, Wait, Call, Select, LookUp, Acquire, Busy, CreateRow, EnqueueAsset, Fail,
             Raise, Release, ReleaseOwn, ReleaseFailed, ReleaseWaiter, ReleaseRaises, Reselect,
             cacheVars
    <2> QED BY <2>1
  <1>1. ASSUME NEW t \in Threads, NEW u \in Url, Call(t, u) PROVE FirstBurst(m)'
    <2>1. /\ pc[t] = "idle" /\ pc' = [pc EXCEPT ![t] = "select"]
          /\ url' = [url EXCEPT ![t] = u]
          /\ UNCHANGED <<rows, locks, current, ref>>
      BY <1>1 DEF Call, At, lockVars
    <2>2. \A v \in Threads : pc'[v] = (IF v = t THEN "select" ELSE pc[v])
                             /\ (v # t => url'[v] = url[v])
      BY <2>1 DEF BurstInv, CacheTypeOK
    <2> QED BY <1>0, <2>1, <2>2 DEF FirstBurst, BurstInv, For
  <1>2. ASSUME NEW t \in Threads, Select(t) \/ Reselect(t) \/ EnqueueAsset(t) PROVE FirstBurst(m)'
    <2>1. UNCHANGED <<rows, url, locks, current, ref>>
      BY <1>2 DEF Select, Reselect, EnqueueAsset, lockVars
    <2>2. \A v \in Threads : v # t => pc'[v] = pc[v]
      BY <1>2 DEF Select, Reselect, EnqueueAsset, Return, At, BurstInv, CacheTypeOK
    <2>3. \/ pc'[t] \in {"idle", "try"}
          \/ pc'[t] = "release" /\ (For(t, m) => rows[m] # <<>>)
      <3>1. CASE EnqueueAsset(t)
        BY <1>0, <3>1, PastCreation DEF EnqueueAsset, At, BurstInv, CacheTypeOK, For
      <3>2. CASE Select(t) \/ Reselect(t)
        BY <3>2 DEF Select, Reselect, Return, At, BurstInv, CacheTypeOK
      <3> QED BY <1>2, <3>1, <3>2
    <2> QED BY <1>0, <2>1, <2>2, <2>3 DEF FirstBurst, BurstInv, For
  <1>3. ASSUME NEW t \in Threads, LookUp(t, "try", "tryAcquire") PROVE FirstBurst(m)'
    BY <1>3, <1>0, LookUpStep
  <1>4. ASSUME NEW t \in Threads, LookUp(t, "block", "blockAcquire") PROVE FirstBurst(m)'
    BY <1>4, <1>0, LookUpStep
  <1>5. ASSUME NEW t \in Threads, Acquire(t, "tryAcquire", "create") PROVE FirstBurst(m)'
    BY <1>5, <1>0, AcquireStep
  <1>6. ASSUME NEW t \in Threads, Wait(t) PROVE FirstBurst(m)'
    BY <1>6, <1>0, WaitStep
  <1>7. ASSUME NEW t \in Threads, Busy(t) PROVE FirstBurst(m)'
    <2>1. /\ pc[t] = "tryAcquire" /\ pc' = [pc EXCEPT ![t] = "block"]
          /\ locks[url[t].name][ref[t]]
          /\ UNCHANGED <<rows, url, locks, current>>
      BY <1>7 DEF Busy, At
    <2>2. \A v \in Threads : /\ pc'[v] = IF v = t THEN "block" ELSE pc[v]
                             /\ v # t => ref'[v] = ref[v]
      BY <1>7, <2>1 DEF BurstInv, CacheTypeOK, Busy
    <2> QED BY <1>0, <2>1, <2>2 DEF FirstBurst, BurstInv, For
  <1>8. ASSUME NEW t \in Threads, CreateRow(t) PROVE FirstBurst(m)'
    <2> DEFINE n == url[t].name
    <2>1. /\ n \in Names /\ rows[n] \in Seq(Exts) /\ url[t].ext \in Exts
          /\ rows' = [rows EXCEPT ![n] = Append(rows[n], url[t].ext)]
          /\ pc' = [pc EXCEPT ![t] = "enqueue"]
          /\ UNCHANGED <<url, locks, current, ref>>
      BY <1>8 DEF CreateRow, At, lockVars, BurstInv, CacheTypeOK, Url
    <2>2. rows'[n] # <<>> /\ (m # n => rows'[m] = rows[m])
      BY <2>1, RowAdded DEF BurstInv, CacheTypeOK
    <2>3. \A v \in Threads : v # t => pc'[v] = pc[v]
      BY <2>1 DEF BurstInv, CacheTypeOK
    <2> QED BY <1>0, <2>1, <2>2, <2>3 DEF FirstBurst, BurstInv, For
  <1>9. ASSUME NEW t \in Threads, Fail(t) \/ Raise(t) PROVE FirstBurst(m)'
    <2>1. ~For(t, m) /\ UNCHANGED <<rows, url, locks, current, ref>>
      BY <1>9 DEF Fail, Raise, lockVars, For
    <2>2. \A v \in Threads : v # t => pc'[v] = pc[v]
      BY <1>9 DEF Fail, Raise, Return, At, BurstInv, CacheTypeOK
    <2> QED BY <1>0, <2>1, <2>2 DEF FirstBurst, BurstInv, For
  <1>10. ASSUME NEW t \in Threads,
                ReleaseOwn(t) \/ ReleaseFailed(t) \/ ReleaseWaiter(t) \/ ReleaseRaises(t)
         PROVE  FirstBurst(m)'
    BY <1>10, <1>0, ReleaseStep
  <1>11. CASE UNCHANGED cacheVars
    BY <1>0, <1>11 DEF cacheVars, FirstBurst, BurstInv, For
  <1>12. CASE CacheNext
    BY <1>1, <1>2, <1>3, <1>4, <1>5, <1>6, <1>7, <1>8, <1>9, <1>10, <1>12, Zenon
    DEF CacheNext, Progress
  <1> QED BY <1>11, <1>12

\* However many requests ask for an image that is not cached, one of them creates its
\* row, and those that waited for that one find it: as long as no call for it meets an
\* exception.
THEOREM FirstBurstIsSerialised == CacheSpec => []FirstBurstIsSerial
  <1>1. CacheInit => BurstInv
    <2>1. CacheInit => \A n \in Names : FirstBurst(n)
      BY DEF CacheInit, FirstBurst
    <2> QED BY <2>1, InitType DEF BurstInv
  <1>2. BurstInv /\ [CacheNext]_cacheVars => BurstInv'
    BY BurstStep
  <1>3. BurstInv => FirstCreatorIsAlone
    BY DEF BurstInv, FirstBurst, FirstCreatorIsAlone, For, CacheTypeOK, Url
  <1>4. BurstInv => WaiterFindsAsset
    BY PastCreation DEF WaiterFindsAsset
  <1>5. BurstInv => FirstBurstIsSerial
    BY <1>3, <1>4 DEF FirstBurstIsSerial
  <1> QED BY <1>1, <1>2, <1>5, PTL DEF CacheSpec

-----------------------------------------------------------------------------
(* The locks in the table. *)

\* v read the lock of n that is in the table, and waits for it.
Acquiring(v, n) == For(v, n) /\ pc[v] \in {"tryAcquire", "blockAcquire"} /\ ref[v] = current[n]

Using(v, n) == For(v, n) /\ pc[v] \in InUse

\* A lock that is in the table and free is about to be acquired: a release deletes the entry of
\* the lock it frees, so only a lock that nobody has acquired yet is both.
Held(n) ==
    /\ current[n] \in 0 .. Len(locks[n])
    /\ current[n] # 0 /\ locks[n][current[n]] => n \in failed \/ \E v \in Threads : Using(v, n)
    /\ current[n] # 0 /\ ~locks[n][current[n]] => \E v \in Threads : Acquiring(v, n)

HeldInv == CacheTypeOK /\ \A n \in Names : Held(n)

\* A step of t that leaves the table as it is, and neither drops the lock t uses (unless
\* that one is free, or t raised) nor gives up one that is free and that t waits for.
LEMMA TableUnchanged ==
    ASSUME HeldInv, NEW t \in Threads, NEW n \in Names,
           UNCHANGED <<locks, current>>, failed \subseteq failed',
           \A v \in Threads : v # t => pc'[v] = pc[v] /\ url'[v] = url[v] /\ ref'[v] = ref[v],
           current[n] # 0 /\ locks[n][current[n]] /\ Using(t, n) => Using(t, n)' \/ n \in failed',
           current[n] # 0 /\ ~locks[n][current[n]] /\ Acquiring(t, n) => Acquiring(t, n)'
    PROVE  Held(n)'
  <1>1. Held(n) /\ current'[n] = current[n] /\ locks'[n] = locks[n]
    BY DEF HeldInv
  <1>2. \A v \in Threads : v # t => (Using(v, n) => Using(v, n)') /\ (Acquiring(v, n) => Acquiring(v, n)')
    BY <1>1 DEF Using, Acquiring, For
  <1>3. CASE current[n] # 0 /\ locks[n][current[n]]
    BY <1>1, <1>2, <1>3 DEF Held
  <1>4. CASE current[n] # 0 /\ ~locks[n][current[n]]
    BY <1>1, <1>2, <1>4 DEF Held
  <1>5. CASE current[n] = 0
    BY <1>1, <1>5 DEF Held
  <1> QED BY <1>3, <1>4, <1>5

\* The lock that is in the table, where it is.
LEMMA CurrentIn ==
    ASSUME HeldInv, NEW n \in Names
    PROVE  /\ locks[n] \in Seq(BOOLEAN) /\ Len(locks[n]) \in Nat
           /\ current[n] \in 0 .. Len(locks[n])
           /\ current[n] # 0 => current[n] \in 1 .. Len(locks[n])
  <1>1. locks[n] \in Seq(BOOLEAN) /\ current[n] \in 0 .. Len(locks[n])
    BY DEF HeldInv, Held, CacheTypeOK
  <1> QED BY <1>1, LenIsNat

LEMMA LookUpKeeps ==
    ASSUME HeldInv, NEW t \in Threads, NEW from, NEW to,
           <<from, to>> \in {<<"try", "tryAcquire">>, <<"block", "blockAcquire">>},
           LookUp(t, from, to), NEW m \in Names
    PROVE  Held(m)'
  <1>0. PICK n \in Names : n = url[t].name
    BY DEF HeldInv, CacheTypeOK, Url
  <1>1.  pc[t] = from /\ pc' = [pc EXCEPT ![t] = to] /\ UNCHANGED <<url, failed>>
    BY <1>0 DEF LookUp, At, HeldInv, CacheTypeOK
  <1>2. \A v \in Threads : v # t => pc'[v] = pc[v] /\ url'[v] = url[v] /\ ref'[v] = ref[v]
    BY <1>0, <1>1 DEF LookUp, HeldInv, CacheTypeOK
  <1>3. pc'[t] = to /\ For(t, n)' /\ For(t, n)
    BY <1>0, <1>1 DEF For, HeldInv, CacheTypeOK
  <1>4. CASE current[n] = 0
    <2>1. /\ locks' = [locks EXCEPT ![n] = Append(locks[n], FALSE)]
          /\ current' = [current EXCEPT ![n] = Len(locks[n]) + 1]
          /\ ref' = [ref EXCEPT ![t] = Len(locks[n]) + 1]
      BY <1>0, <1>4 DEF LookUp
    <2>2. CASE m # n
      <3>1. current'[m] = current[m] /\ locks'[m] = locks[m] /\ ~For(t, m) /\ Held(m)
        BY <1>0, <2>1, <2>2 DEF HeldInv, CacheTypeOK, For
      <3>2. \A v \in Threads : (Using(v, m) => Using(v, m)') /\ (Acquiring(v, m) => Acquiring(v, m)')
        BY <1>2, <3>1 DEF Using, Acquiring, For
      <3> QED BY <1>1, <3>1, <3>2 DEF Held
    <2>3. CASE m = n
      <3>1. /\ locks'[n] = Append(locks[n], FALSE) /\ current'[n] = Len(locks[n]) + 1
            /\ ref'[t] = Len(locks[n]) + 1
        BY <1>1, <2>1 DEF HeldInv, CacheTypeOK
      <3>2. locks[n] \in Seq(BOOLEAN) /\ Len(locks[n]) \in Nat
        BY <1>1, CurrentIn
      <3>3. Len(locks'[n]) = Len(locks[n]) + 1 /\ locks'[n][Len(locks[n]) + 1] = FALSE
        BY <3>1, <3>2
      <3>4. Acquiring(t, n)'
        BY <1>3, <3>1 DEF Acquiring
      <3> QED BY <2>3, <3>1, <3>2, <3>3, <3>4 DEF Held
    <2> QED BY <2>2, <2>3
  <1>5. CASE current[n] # 0
    <2>1. UNCHANGED <<locks, current>>
      BY <1>0, <1>5 DEF LookUp
    <2>2. ~Acquiring(t, m) /\ (Using(t, m) => Using(t, m)')
      BY <1>1, <1>3 DEF Acquiring, Using, InUse, For
    <2> QED BY <1>1, <1>2, <2>1, <2>2, TableUnchanged
  <1> QED BY <1>4, <1>5

LEMMA AcquireKeeps ==
    ASSUME HeldInv, NEW t \in Threads,
           Acquire(t, "tryAcquire", "create") \/ Acquire(t, "blockAcquire", "releaseWaiter"),
           NEW m \in Names
    PROVE  Held(m)'
  <1>0. PICK n \in Names, i \in Nat : n = url[t].name /\ i = ref[t]
    BY DEF HeldInv, CacheTypeOK, Url
  <1>1. /\ UNCHANGED <<url, failed, current>>
        /\ pc' = [pc EXCEPT ![t] = "create"] \/ pc' = [pc EXCEPT ![t] = "releaseWaiter"]
        /\ locks' = [locks EXCEPT ![n] = [locks[n] EXCEPT ![i] = TRUE]]
        /\ ref' = [ref EXCEPT ![t] = 0] /\ For(t, n) /\ For(t, n)'
    BY <1>0 DEF Acquire, At, HeldInv, CacheTypeOK, For
  <1>2. \A v \in Threads : v # t => pc'[v] = pc[v] /\ ref'[v] = ref[v] /\ url'[v] = url[v]
    BY <1>1 DEF HeldInv, CacheTypeOK
  <1>3. Using(t, n)'
    BY <1>1 DEF Using, InUse, HeldInv, CacheTypeOK
  <1>4. CASE m # n
    <2>1. locks'[m] = locks[m] /\ current'[m] = current[m] /\ ~For(t, m) /\ Held(m)
      BY <1>0, <1>1, <1>4 DEF HeldInv, CacheTypeOK, For
    <2>2. \A v \in Threads : (Using(v, m) => Using(v, m)') /\ (Acquiring(v, m) => Acquiring(v, m)')
      BY <1>1, <1>2, <2>1 DEF Using, Acquiring, For
    <2> QED BY <1>1, <2>1, <2>2 DEF Held
  <1>5. CASE m = n
    <2>1. locks'[n] = [locks[n] EXCEPT ![i] = TRUE] /\ current'[n] = current[n]
      BY <1>1 DEF HeldInv, CacheTypeOK
    <2>2. /\ locks[n] \in Seq(BOOLEAN) /\ current[n] \in 0 .. Len(locks[n])
          /\ Len(locks'[n]) = Len(locks[n])
      BY <1>1, <2>1, CurrentIn, LockSet
    <2>3. CASE i = current[n] /\ current[n] # 0
      <3>1. locks'[n][current'[n]]
        BY <1>1, <2>1, <2>3, CurrentIn, LockSet
      <3> QED BY <1>3, <1>5, <2>1, <2>2, <3>1 DEF Held
    <2>4. CASE ~(i = current[n] /\ current[n] # 0)
      <3>1. current[n] # 0 => locks'[n][current[n]] = locks[n][current[n]]
        <4>1. current[n] # 0 => current[n] \in DOMAIN locks[n] /\ i # current[n]
          BY <2>4, CurrentIn
        <4> QED BY <2>1, <4>1
      <3>2. \A v \in Threads : v # t => (Acquiring(v, n) => Acquiring(v, n)')
        BY <1>2, <2>1 DEF Acquiring, For
      <3>3. current[n] # 0 => ~Acquiring(t, n)
        BY <1>0, <2>4 DEF Acquiring
      <3>4. Held(n)
        BY <1>1 DEF HeldInv
      <3> QED BY <1>3, <1>5, <2>1, <2>2, <3>1, <3>2, <3>3, <3>4 DEF Held
    <2> QED BY <2>3, <2>4
  <1> QED BY <1>4, <1>5

LEMMA ReleaseKeeps ==
    ASSUME HeldInv, NEW t \in Threads, NEW m \in Names,
           ReleaseOwn(t) \/ ReleaseFailed(t) \/ ReleaseWaiter(t)
    PROVE  Held(m)'
  <1>0. PICK n \in Names : n = url[t].name
    BY DEF HeldInv, CacheTypeOK, Url
  <1>1. /\ UNCHANGED <<url, ref, failed>> /\ For(t, n)
        /\ pc[t] \in {"release", "releaseFailed", "releaseWaiter"} /\ Release(t)
    BY <1>0 DEF ReleaseOwn, ReleaseFailed, ReleaseWaiter, Return, At, Release, HeldInv, CacheTypeOK, For
  <1>2. \A v \in Threads : v # t => pc'[v] = pc[v]
    BY DEF ReleaseOwn, ReleaseFailed, ReleaseWaiter, Return, At, HeldInv, CacheTypeOK
  <1>3. CASE m # n
    <2>1. locks'[m] = locks[m] /\ current'[m] = current[m] /\ ~For(t, m) /\ Held(m)
      BY <1>0, <1>1, <1>3 DEF Release, HeldInv, CacheTypeOK, For
    <2>2. \A v \in Threads : (Using(v, m) => Using(v, m)') /\ (Acquiring(v, m) => Acquiring(v, m)')
      BY <1>1, <1>2, <2>1 DEF Using, Acquiring, For
    <2> QED BY <1>1, <2>1, <2>2 DEF Held
  <1>4. CASE m = n
    <2>1. current'[n] = 0
      BY <1>0, <1>1 DEF Release, HeldInv, CacheTypeOK
    <2>2. locks'[n] \in Seq(BOOLEAN)
      BY <1>1, ReleaseType DEF HeldInv
    <2> QED BY <1>4, <2>1, <2>2, LenIsNat DEF Held
  <1> QED BY <1>3, <1>4

\* The thread that raises under the master lock finds a lock that is free: another thread waits
\* for that one.
LEMMA OtherKeeps ==
    ASSUME HeldInv, NEW t \in Threads, NEW m \in Names,
           \/ Select(t) \/ Busy(t) \/ CreateRow(t) \/ EnqueueAsset(t) \/ Fail(t) \/ Raise(t)
           \/ ReleaseRaises(t) \/ Reselect(t) \/ \E u \in Url : Call(t, u)
    PROVE  Held(m)'
  <1> USE DEF At, Return, lockVars
  <1>1. UNCHANGED <<locks, current>> /\ failed \subseteq failed'
    BY DEF Select, Busy, CreateRow, EnqueueAsset, Fail, Raise, ReleaseRaises, Reselect, Call
  <1>2. \A v \in Threads : v # t => pc'[v] = pc[v] /\ url'[v] = url[v] /\ ref'[v] = ref[v]
    BY DEF HeldInv, CacheTypeOK, Select, Busy, CreateRow, EnqueueAsset, Fail, Raise, ReleaseRaises, Reselect, Call
  <1>3. CASE Busy(t)
    <2>1. (Using(t, m) => Using(t, m)') /\ (~locks[m][current[m]] => ~Acquiring(t, m))
      BY <1>3 DEF HeldInv, CacheTypeOK, Busy, Using, Acquiring, InUse, For
    <2> QED BY <1>1, <1>2, <2>1, TableUnchanged
  <1>4. CASE CreateRow(t) \/ EnqueueAsset(t) \/ Fail(t)
    <2>1. ~Acquiring(t, m) /\ (Using(t, m) => Using(t, m)')
      BY <1>4 DEF HeldInv, CacheTypeOK, CreateRow, EnqueueAsset, Fail, Using, Acquiring, InUse, For
    <2> QED BY <1>1, <1>2, <2>1, TableUnchanged
  <1>5. CASE Raise(t)
    <2>1. ~Acquiring(t, m) /\ (Using(t, m) => m \in failed')
      BY <1>5 DEF Raise, Using, Acquiring, InUse, For
    <2> QED BY <1>1, <1>2, <2>1, TableUnchanged
  <1>6. CASE ReleaseRaises(t)
    <2>1. ~Acquiring(t, m)
      BY <1>6 DEF ReleaseRaises, Acquiring
    <2>2. url[t].name = m => ~locks[m][current[m]]
      BY <1>6 DEF ReleaseRaises
    <2>3. locks[m][current[m]] => ~Using(t, m)
      BY <2>2 DEF Using, For
    <2> QED BY <1>1, <1>2, <2>1, <2>3, TableUnchanged
  <1>7. CASE Select(t) \/ Reselect(t) \/ \E u \in Url : Call(t, u)
    <2>1. ~Acquiring(t, m) /\ ~Using(t, m)
      BY <1>7 DEF Select, Reselect, Call, Using, Acquiring, InUse
    <2> QED BY <1>1, <1>2, <2>1, TableUnchanged
  <1> QED BY <1>3, <1>4, <1>5, <1>6, <1>7

LEMMA HeldStep == HeldInv /\ [CacheNext]_cacheVars => HeldInv'
  <1> SUFFICES ASSUME HeldInv, [CacheNext]_cacheVars, NEW m \in Names PROVE Held(m)'
    BY TypeStep DEF HeldInv
  <1>1. ASSUME NEW t \in Threads, Progress(t) PROVE Held(m)'
    <2>1. CASE LookUp(t, "try", "tryAcquire") \/ LookUp(t, "block", "blockAcquire")
      BY <2>1, LookUpKeeps
    <2>2. CASE Acquire(t, "tryAcquire", "create")
      BY <2>2, AcquireKeeps
    <2>3. CASE ReleaseOwn(t) \/ ReleaseFailed(t) \/ ReleaseWaiter(t)
      BY <2>3, ReleaseKeeps
    <2>4. CASE \/ Select(t) \/ Busy(t) \/ CreateRow(t) \/ EnqueueAsset(t) \/ Fail(t) \/ Raise(t)
              \/ ReleaseRaises(t) \/ Reselect(t)
      BY <2>4, OtherKeeps
    <2> QED BY <1>1, <2>1, <2>2, <2>3, <2>4 DEF Progress
  <1>2. ASSUME NEW t \in Threads, Wait(t) PROVE Held(m)'
    BY <1>2, AcquireKeeps DEF Wait
  <1>3. ASSUME NEW t \in Threads, NEW u \in Url, Call(t, u) PROVE Held(m)'
    BY <1>3, OtherKeeps, Zenon
  <1>4. CASE UNCHANGED cacheVars
    BY <1>4 DEF cacheVars, HeldInv, Held, Using, Acquiring, For
  <1>5. CASE CacheNext
    BY <1>1, <1>2, <1>3, <1>5, Zenon DEF CacheNext
  <1> QED BY <1>4, <1>5

\* A lock that is in the table is used by a call in progress, or was left acquired by one that
\* raised (NoLockForgotten), whatever the exceptions and however many calls overlap: that locks
\* are released by threads that do not hold them loses none.
THEOREM LocksAreUsed == CacheSpec => []NoLockForgotten
  <1>1. CacheInit => HeldInv
    <2>1. CacheInit => \A n \in Names : current[n] = 0 /\ locks[n] = <<>>
      BY DEF CacheInit
    <2>2. Len(<<>>) = 0
      OBVIOUS
    <2> QED BY <2>1, <2>2, InitType DEF HeldInv, Held
  <1>2. HeldInv => NoLockForgotten
    BY DEF HeldInv, Held, Using, Acquiring, InUse, NoLockForgotten
  <1> QED BY <1>1, <1>2, HeldStep, PTL DEF CacheSpec

-----------------------------------------------------------------------------
(* Files of assets: what contents refer to. *)

HIDE CacheAssumption DEF history

StorageTypeOK ==
    /\ row \in [Assets -> Row]
    /\ file \subseteq Assets /\ linked \subseteq Assets
    /\ cleanup \in {"today", "tomorrow", "never"}
    /\ step \in [Requests -> {"idle", "create", "write", "mark", "link"}]
    /\ name \in [Requests -> Codes \cup {NoName}]
    /\ asset \in [Requests -> Assets \cup {NoAsset}]

\* The file of an asset is on the disk, or the asset was destroyed.
Lasts(a) == a \in file \/ row[a].is = "destroyed"

\* Those whose file was written: what the lookup of a name finds, what requests are about to
\* refer to, and what contents do refer to.
WrittenInv ==
    /\ \A a \in Assets : row[a].name \in Codes /\ row[a].cached => Lasts(a)
    /\ \A r \in Requests :
        /\ step[r] \in {"write", "mark", "link"} => asset[r] \in Assets /\ row[asset[r]].is # "unused"
        /\ step[r] \in {"mark", "link"} => Lasts(asset[r])
    /\ \A a \in linked : Lasts(a)

StorageInv == StorageTypeOK /\ WrittenInv

LEMMA StorageInvInit == StorageInit => StorageInv
  BY DEF StorageInit, StorageInv, StorageTypeOK, WrittenInv, Row


\* An asset that is referred to keeps what it is but for the day.
LEMMA ReferRow ==
    ASSUME StorageTypeOK, NEW a \in Assets
    PROVE  /\ Refer(a) \in [Assets -> Row]
           /\ \A b \in Assets : /\ Refer(a)[b].is = row[b].is /\ Refer(a)[b].name = row[b].name
                                /\ Refer(a)[b].cached = row[b].cached
  BY DEF StorageTypeOK, Refer, Row

\* A deletion keeps the rest of the row, and brings nothing to life.
LEMMA DeletingRows ==
    ASSUME StorageTypeOK, NEW A, NEW becomes \in {"cleaned", "dropped"}, \A a \in A : Live(a)
    PROVE  /\ Deleting(A, becomes) \in [Assets -> Row]
           /\ \A b \in Assets : /\ Deleting(A, becomes)[b].name = row[b].name
                                /\ Deleting(A, becomes)[b].cached = row[b].cached
                                /\ Deleting(A, becomes)[b].is = "unused" <=> row[b].is = "unused"
                                /\ Deleting(A, becomes)[b].is = "destroyed" <=> row[b].is = "destroyed"
  BY DEF StorageTypeOK, Deleting, Row, Live

\* A step that keeps what lasts, the names and the marks, and moves no request, keeps it all.
LEMMA WrittenStays ==
    ASSUME StorageInv,
           \A a \in Assets :
                /\ Lasts(a) => Lasts(a)'
                /\ row'[a].is = "unused" => row[a].is = "unused"
                /\ row'[a].name \in Codes /\ row'[a].cached =>
                        row[a].name \in Codes /\ row[a].cached,
           linked' = linked,
           \A r \in Requests : step'[r] = "idle" \/ (step'[r] = step[r] /\ asset'[r] = asset[r])
    PROVE  WrittenInv'
  <1>1. linked \subseteq Assets
    BY DEF StorageInv, StorageTypeOK
  <1>2. \A a \in linked : Lasts(a)'
    BY <1>1 DEF StorageInv, WrittenInv
  <1>3. \A a \in Assets : row'[a].name \in Codes /\ row'[a].cached => Lasts(a)'
    BY DEF StorageInv, WrittenInv
  <1>4. ASSUME NEW r \in Requests, step'[r] = step[r], asset'[r] = asset[r]
        PROVE  /\ step'[r] \in {"write", "mark", "link"} =>
                        asset'[r] \in Assets /\ row'[asset'[r]].is # "unused"
               /\ step'[r] \in {"mark", "link"} => asset'[r] \in file' \/ row'[asset'[r]].is = "destroyed"
    BY <1>4 DEF StorageInv, WrittenInv, Lasts
  <1> QED BY <1>2, <1>3, <1>4 DEF WrittenInv, Lasts

LEMMA BeginsKeepFiles ==
    ASSUME StorageInv, NEW r \in Requests, Upload(r) \/ \E n \in Codes : FindCode(r, n)
    PROVE  StorageInv'
  <1>1. StorageTypeOK'
    <2>1. CASE Upload(r)
      BY <2>1 DEF StorageInv, StorageTypeOK, Upload, Goes
    <2>2. ASSUME NEW n \in Codes, FindCode(r, n) PROVE StorageTypeOK'
      <3>1. /\ UNCHANGED <<row, file, linked, cleanup>> /\ name' = [name EXCEPT ![r] = n]
            /\ asset' = asset \/ \E a \in Assets : asset' = [asset EXCEPT ![r] = a]
            /\ \E to \in {"create", "link"} : step' = [step EXCEPT ![r] = to]
        BY <2>2 DEF FindCode, Goes, Cached
      <3> QED BY <3>1 DEF StorageInv, StorageTypeOK
    <2> QED BY <2>1, <2>2
  <1>2. CASE Upload(r)
    BY <1>2 DEF StorageInv, StorageTypeOK, WrittenInv, Upload, Goes, Lasts
  <1>3. CASE \E n \in Codes : FindCode(r, n)
    <2>1. /\ UNCHANGED <<row, file, linked>>
          /\ \A q \in Requests : q # r => step'[q] = step[q] /\ asset'[q] = asset[q]
          /\ \/ step'[r] = "create"
             \/ /\ step'[r] = "link" /\ asset'[r] \in Assets
                /\ row[asset'[r]].is = "there"
                /\ row[asset'[r]].name \in Codes /\ row[asset'[r]].cached
      BY <1>3 DEF StorageInv, StorageTypeOK, FindCode, Goes, Cached, Live
    <2>2. \A a \in Assets : Lasts(a)' <=> Lasts(a)
      BY <2>1 DEF Lasts
    <2>3. step'[r] = "link" =>
            asset'[r] \in file' \/ row'[asset'[r]].is = "destroyed"
      BY <2>1 DEF StorageInv, WrittenInv, Lasts
    <2>4. WrittenInv'
      BY <2>1, <2>3 DEF StorageInv, StorageTypeOK, WrittenInv, Lasts
    <2> QED BY <1>1, <2>4 DEF StorageInv
  <1> QED BY <1>1, <1>2, <1>3 DEF StorageInv

LEMMA CreationKeepsFiles ==
    ASSUME StorageInv, NEW r \in Requests, NEW a \in Assets, CreateAsset(r, a)
    PROVE  StorageInv'
  <1>1. /\ row[a].is = "unused" /\ step[r] = "create" /\ step' = [step EXCEPT ![r] = "write"]
        /\ row' = [row EXCEPT ![a] = [is |-> "there", name |-> name[r], cached |-> FALSE, fresh |-> TRUE]]
        /\ asset' = [asset EXCEPT ![r] = a]
        /\ UNCHANGED <<file, linked, cleanup, name>>
    BY DEF CreateAsset, Goes
  <1>2. StorageTypeOK'
    BY <1>1 DEF StorageInv, StorageTypeOK, Row
  <1>3. \A b \in Assets : Lasts(b) => Lasts(b)'
    BY <1>1 DEF StorageInv, StorageTypeOK, Lasts
  <1>4. \A b \in linked : Lasts(b)'
    BY <1>3 DEF StorageInv, StorageTypeOK, WrittenInv
  <1>5. \A b \in Assets : row'[b].name \in Codes /\ row'[b].cached => Lasts(b)'
    BY <1>1, <1>3 DEF StorageInv, StorageTypeOK, WrittenInv
  <1>6. \A q \in Requests :
            /\ step'[q] \in {"write", "mark", "link"} =>
                    asset'[q] \in Assets /\ row'[asset'[q]].is # "unused"
            /\ step'[q] \in {"mark", "link"} => asset'[q] \in file' \/ row'[asset'[q]].is = "destroyed"
    BY <1>1, <1>3 DEF StorageInv, StorageTypeOK, WrittenInv, Lasts
  <1> QED BY <1>1, <1>2, <1>4, <1>5, <1>6 DEF StorageInv, WrittenInv, Lasts

LEMMA WritingKeepsFiles ==
    ASSUME StorageInv, NEW r \in Requests, WriteFile(r) \/ MarkCached(r) \/ Link(r)
    PROVE  StorageInv'
  <1> DEFINE b == asset[r]
  <1>1. b \in Assets /\ row[b].is # "unused" /\ (step[r] \in {"mark", "link"} => Lasts(b))
    BY DEF StorageInv, WrittenInv, WriteFile, MarkCached, Link, Goes, Ends
  <1>2. CASE WriteFile(r)
    <2>1. row' = Refer(b) /\ file' = file \cup {b} /\ UNCHANGED <<linked, cleanup>>
      BY <1>2 DEF WriteFile
    <2>2. /\ \A q \in Requests : q # r => step'[q] = step[q] /\ asset'[q] = asset[q]
          /\ step'[r] = "idle" \/ (step'[r] = "mark" /\ asset'[r] = b)
      BY <1>2 DEF StorageInv, StorageTypeOK, WriteFile, Ends, Goes
    <2>3. StorageTypeOK'
      BY <1>1, <1>2, <2>1, ReferRow DEF StorageInv, StorageTypeOK, WriteFile, Ends, Goes
    <2>4. \A a \in Assets : /\ Lasts(a) => Lasts(a)'
                            /\ row'[a].is = row[a].is /\ row'[a].name = row[a].name
                            /\ row'[a].cached = row[a].cached
      BY <1>1, <2>1, ReferRow DEF StorageInv, Lasts
    <2>5. b \in file'
      BY <2>1
    <2>6. \A a \in linked : Lasts(a)'
      BY <2>4 DEF StorageInv, StorageTypeOK, WrittenInv
    <2>7. \A a \in Assets : row'[a].name \in Codes /\ row'[a].cached => Lasts(a)'
      BY <2>4 DEF StorageInv, WrittenInv
    <2>8. \A q \in Requests :
            /\ step'[q] \in {"write", "mark", "link"} =>
                    asset'[q] \in Assets /\ row'[asset'[q]].is # "unused"
            /\ step'[q] \in {"mark", "link"} => asset'[q] \in file' \/ row'[asset'[q]].is = "destroyed"
      BY <1>1, <2>2, <2>4, <2>5 DEF StorageInv, WrittenInv, Lasts
    <2> QED BY <2>1, <2>3, <2>6, <2>7, <2>8 DEF StorageInv, WrittenInv, Lasts
  <1>3. CASE MarkCached(r)
    <2>1. /\ step[r] = "mark" /\ step' = [step EXCEPT ![r] = "link"]
          /\ row' = IF Live(b) THEN [row EXCEPT ![b].cached = TRUE] ELSE row
          /\ UNCHANGED <<file, linked, cleanup, name, asset>>
      BY <1>3 DEF MarkCached, Goes
    <2>2. StorageTypeOK'
      BY <1>1, <2>1 DEF StorageInv, StorageTypeOK, Row
    <2>3. \A a \in Assets : /\ Lasts(a) => Lasts(a)'
                            /\ row'[a].is = row[a].is /\ row'[a].name = row[a].name
                            /\ a # b => row'[a].cached = row[a].cached
      BY <1>1, <2>1 DEF StorageInv, StorageTypeOK, Lasts, Row
    <2>4. Lasts(b)
      BY <1>1, <2>1
    <2>5. \A a \in linked : Lasts(a)'
      BY <2>3 DEF StorageInv, StorageTypeOK, WrittenInv
    <2>6. \A a \in Assets : row'[a].name \in Codes /\ row'[a].cached => Lasts(a)'
      BY <2>3, <2>4 DEF StorageInv, WrittenInv
    <2>7. \A q \in Requests :
            /\ step'[q] \in {"write", "mark", "link"} =>
                    asset'[q] \in Assets /\ row'[asset'[q]].is # "unused"
            /\ step'[q] \in {"mark", "link"} => asset'[q] \in file' \/ row'[asset'[q]].is = "destroyed"
      BY <1>1, <2>1, <2>3, <2>4 DEF StorageInv, StorageTypeOK, WrittenInv, Lasts
    <2> QED BY <2>1, <2>2, <2>5, <2>6, <2>7 DEF StorageInv, WrittenInv, Lasts
  <1>4. CASE Link(r)
    <2>1. /\ step[r] = "link" /\ row' = Refer(b) /\ linked' = linked \cup {b}
          /\ UNCHANGED <<file, cleanup>>
      BY <1>4 DEF Link, Ends, Goes
    <2>2. /\ \A q \in Requests : q # r => step'[q] = step[q] /\ asset'[q] = asset[q]
          /\ step'[r] = "idle"
      BY <1>4 DEF StorageInv, StorageTypeOK, Link, Ends, Goes
    <2>3. StorageTypeOK'
      BY <1>1, <1>4, <2>1, ReferRow DEF StorageInv, StorageTypeOK, Link, Ends, Goes
    <2>4. \A a \in Assets : /\ Lasts(a) => Lasts(a)'
                            /\ row'[a].is = row[a].is /\ row'[a].name = row[a].name
                            /\ row'[a].cached = row[a].cached
      BY <1>1, <2>1, ReferRow DEF StorageInv, Lasts
    <2>5. \A a \in linked' : Lasts(a)'
      BY <1>1, <2>1, <2>4 DEF StorageInv, StorageTypeOK, WrittenInv
    <2>6. \A a \in Assets : row'[a].name \in Codes /\ row'[a].cached => Lasts(a)'
      BY <2>4 DEF StorageInv, WrittenInv
    <2>7. \A q \in Requests :
            /\ step'[q] \in {"write", "mark", "link"} =>
                    asset'[q] \in Assets /\ row'[asset'[q]].is # "unused"
            /\ step'[q] \in {"mark", "link"} => asset'[q] \in file' \/ row'[asset'[q]].is = "destroyed"
      BY <2>2, <2>4 DEF StorageInv, WrittenInv, Lasts
    <2> QED BY <2>3, <2>5, <2>6, <2>7 DEF StorageInv, WrittenInv, Lasts
  <1> QED BY <1>2, <1>3, <1>4

\* What happens to rows outside requests.
LEMMA RowsKeepFiles ==
    ASSUME StorageInv,
           \/ \E a \in Assets : Destroy(a) \/ CacheRemote(a) \/ ReferRemote(a)
           \/ DeleteAll \/ Restart \/ Cleanup \/ CleanupRaises \/ NextDay
    PROVE  StorageInv'
  <1>1. CASE \E a \in Assets : Destroy(a)
    <2>1. PICK a \in Assets : Destroy(a)
      BY <1>1
    <2>2. StorageTypeOK'
      BY <2>1 DEF StorageInv, StorageTypeOK, Destroy, Row
    <2>3. WrittenInv'
      BY <2>1, WrittenStays DEF StorageInv, StorageTypeOK, Destroy, Row, Lasts, Live
    <2> QED BY <2>2, <2>3 DEF StorageInv
  <1>2. CASE \E a \in Assets : CacheRemote(a)
    <2>1. PICK a \in Assets : CacheRemote(a)
      BY <1>2
    <2>2. StorageTypeOK'
      BY <2>1 DEF StorageInv, StorageTypeOK, CacheRemote, Row
    <2>3. WrittenInv'
      BY <2>1, WrittenStays, StorageAssumption
      DEF StorageInv, StorageTypeOK, CacheRemote, Row, Lasts
    <2> QED BY <2>2, <2>3 DEF StorageInv
  <1>3. CASE \E a \in Assets : ReferRemote(a)
    <2>1. PICK a \in Assets : ReferRemote(a)
      BY <1>3
    <2>2. StorageTypeOK'
      BY <2>1, ReferRow DEF StorageInv, StorageTypeOK, ReferRemote
    <2>3. WrittenInv'
      BY <2>1, WrittenStays, ReferRow DEF StorageInv, ReferRemote, Lasts
    <2> QED BY <2>2, <2>3 DEF StorageInv
  <1>4. CASE DeleteAll \/ Cleanup
    <2>1. PICK A \in SUBSET Assets, becomes \in {"cleaned", "dropped"} :
                                     /\ row' = Deleting(A, becomes) /\ \A a \in A : Live(a)
                                     /\ UNCHANGED <<file, linked, step, name, asset>>
      BY <1>4 DEF DeleteAll, Cleanup, Unused
    <2>2. StorageTypeOK'
      BY <1>4, <2>1, DeletingRows DEF StorageInv, StorageTypeOK, DeleteAll, Cleanup
    <2>3. WrittenInv'
      BY <2>1, WrittenStays, DeletingRows DEF StorageInv, Lasts
    <2> QED BY <2>2, <2>3 DEF StorageInv
  <1>5. CASE Restart \/ CleanupRaises
    <2>1. StorageTypeOK'
      BY <1>5 DEF StorageInv, StorageTypeOK, Restart, CleanupRaises
    <2>2. WrittenInv'
      BY <1>5, WrittenStays DEF Restart, CleanupRaises, Lasts
    <2> QED BY <2>1, <2>2 DEF StorageInv
  <1>6. CASE NextDay
    <2>1. StorageTypeOK'
      BY <1>6 DEF StorageInv, StorageTypeOK, NextDay, Row
    <2>2. \A a \in Assets : /\ row'[a].is = row[a].is /\ row'[a].name = row[a].name
                            /\ row'[a].cached = row[a].cached
      BY <1>6 DEF StorageInv, StorageTypeOK, NextDay, Row
    <2>3. WrittenInv'
      BY <1>6, <2>2, WrittenStays DEF NextDay, Lasts
    <2> QED BY <2>1, <2>3 DEF StorageInv
  <1> QED BY <1>1, <1>2, <1>3, <1>4, <1>5, <1>6

LEMMA StorageStep == StorageInv /\ [StorageNext]_storageVars => StorageInv'
  <1> SUFFICES ASSUME StorageInv, [StorageNext]_storageVars PROVE StorageInv'
    OBVIOUS
  <1>1. CASE UNCHANGED storageVars
    BY <1>1 DEF storageVars, StorageInv, StorageTypeOK, WrittenInv, Lasts
  <1>2. CASE StorageNext
    BY <1>2, BeginsKeepFiles, CreationKeepsFiles, WritingKeepsFiles, RowsKeepFiles
    DEF StorageNext, Continues
  <1> QED BY <1>1, <1>2

\* The path that a content refers to leads to a file, unless the asset was destroyed: a row
\* is marked as cached, and found by others, only after its file is written, whatever crashes
\* or is deleted in between, and only the deletion signal removes a file (StorageManager,
\* PluginManager.cache_assets, CleanupScheduler).
THEOREM FilesStay == StorageSpec => []LinkedFilesStay
  <1>1. StorageInv => LinkedFilesStay
    BY DEF StorageInv, WrittenInv, LinkedFilesStay, Lasts
  <1> QED BY <1>1, StorageInvInit, StorageStep, PTL DEF StorageSpec
=============================================================================
